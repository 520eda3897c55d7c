--------------------------- MODULE WebConnProofs ---------------------------
(***************************************************************************)
(* Proofs about WebConn, for every number of chains, every queue size and  *)
(* every bound, provided no event fails to encode (MaxEncodeErrors = 0):   *)
(* the dead queue, the types, and then what the client sees, that WebConn  *)
(* implements EventStream and that no event is lost silently.              *)
(***************************************************************************)
EXTENDS WebConn, TLAPS

(* What the operations of the dead queue do to a ring that is well formed    *)
(* (HoldsLast), for every deadQueueSize.                                     *)

(* What a slot can hold: anything with a natural number as its seq. *)
Ring(q) == /\ DOMAIN q = Slots
           /\ q = [i \in Slots |-> q[i]]
           /\ \A i \in Slots : q[i] # Nil => q[i].seq \in Nat

(* addToDeadQueue's modulo moves the pointer to the next slot, and from the *)
(* last slot to the first (web_conn.go:545).                                *)
LEMMA AdvanceIs ==
  ASSUME NEW i \in Slots
  PROVE  /\ Advance(i) = IF i = deadQueueSize - 1 THEN 0 ELSE i + 1
         /\ Advance(i) \in Slots
  BY DeadQueueSizeAssumption DEF Advance, Slots

(* The ring's last entry tells how many events were numbered: the number    *)
(* hasMsgLoss reads just before the pointer (web_conn.go:550-565).          *)
LEMMA NextSeqIs ==
  ASSUME NEW q, NEW ptr \in Slots, NEW k \in Nat,
         Ring(q), HoldsLast(q, ptr, k)
  PROVE  NextSeq(q, ptr) = k
  <1>1. CASE ptr = 0
    <2>1. deadQueueSize - 1 \in ptr .. deadQueueSize - 1
      BY <1>1, DeadQueueSizeAssumption
    <2> QED BY <1>1, <2>1, DeadQueueSizeAssumption DEF NextSeq, HoldsLast
  <1>2. CASE ptr # 0
    <2>1. ptr \in Nat /\ ptr - 1 \in 0 .. ptr - 1
      BY <1>2, DeadQueueSizeAssumption DEF Slots
    <2>2. q[ptr - 1] # Nil /\ q[ptr - 1].seq = (k - ptr) + (ptr - 1)
      BY <2>1 DEF HoldsLast
    <2> QED BY <1>2, <2>1, <2>2 DEF NextSeq
  <1> QED BY <1>1, <1>2

(* A ring of empty slots holds no event. *)
LEMMA EmptyHoldsLast ==
  /\ Ring(EmptyDeadQueue)
  /\ HoldsLast(EmptyDeadQueue, 0, 0)
  /\ 0 \in Slots
  BY DeadQueueSizeAssumption DEF Ring, HoldsLast, EmptyDeadQueue, Slots

(* addToDeadQueue keeps the ring well formed when the event carries the     *)
(* next number (web_conn.go:543).                                           *)
LEMMA AddHoldsLast ==
  ASSUME NEW q, NEW ptr \in Slots, NEW k \in Nat, NEW msg,
         Ring(q), HoldsLast(q, ptr, k), msg # Nil, msg.seq = k
  PROVE  /\ Ring(AddToDeadQueue(q, ptr, msg))
         /\ HoldsLast(AddToDeadQueue(q, ptr, msg), Advance(ptr), k + 1)
  <1> DEFINE r == AddToDeadQueue(q, ptr, msg)
  <1>1. /\ r = [i \in Slots |-> IF i = ptr THEN msg ELSE q[i]]
        /\ Ring(r)
    BY DEF AddToDeadQueue, Ring
  <1>2. /\ \A i \in Slots : i # ptr => r[i] = q[i]
        /\ r[ptr] = msg
    BY <1>1
  <1> HIDE DEF r
  <1>3. CASE ptr = deadQueueSize - 1
    <2>1. Advance(ptr) = 0
      BY <1>3, AdvanceIs
    <2>2. k + 1 >= deadQueueSize
      BY <1>3, DeadQueueSizeAssumption DEF HoldsLast
    <2>3. ASSUME NEW i \in 0 .. deadQueueSize - 1
          PROVE  r[i] # Nil /\ r[i].seq = (((k + 1) - deadQueueSize) - 0) + i
      <3>1. CASE i = ptr
        BY <3>1, <1>2, <1>3, DeadQueueSizeAssumption
      <3>2. CASE i # ptr
        <4>1. i \in Slots /\ i \in 0 .. ptr - 1
          BY <3>2, <1>3, DeadQueueSizeAssumption DEF Slots
        <4>2. q[i] # Nil /\ q[i].seq = (k - ptr) + i
          BY <4>1 DEF HoldsLast
        <4> QED BY <4>1, <4>2, <3>2, <1>2, <1>3, DeadQueueSizeAssumption
      <3> QED BY <3>1, <3>2
    <2> QED BY <1>1, <2>1, <2>2, <2>3, DeadQueueSizeAssumption DEF HoldsLast, r
  <1>4. CASE ptr # deadQueueSize - 1
    <2>1. /\ Advance(ptr) = ptr + 1
          /\ ptr \in Nat /\ ptr + 1 <= deadQueueSize - 1
      BY <1>4, AdvanceIs, DeadQueueSizeAssumption DEF Slots
    <2>2. ASSUME NEW i \in 0 .. (ptr + 1) - 1
          PROVE  r[i] # Nil /\ r[i].seq = ((k + 1) - (ptr + 1)) + i
      <3>1. CASE i = ptr
        BY <3>1, <1>2, <2>1
      <3>2. CASE i # ptr
        <4>1. i \in Slots /\ i \in 0 .. ptr - 1
          BY <3>2, <2>1, DeadQueueSizeAssumption DEF Slots
        <4>2. q[i] # Nil /\ q[i].seq = (k - ptr) + i
          BY <4>1 DEF HoldsLast
        <4> QED BY <4>1, <4>2, <3>2, <1>2, <2>1
      <3> QED BY <3>1, <3>2
    <2>3. k + 1 < deadQueueSize => ptr + 1 = k + 1
      BY <2>1, DeadQueueSizeAssumption DEF HoldsLast
    <2>4. ASSUME NEW i \in ptr + 1 .. deadQueueSize - 1
          PROVE  IF k + 1 < deadQueueSize
                   THEN r[i] = Nil
                   ELSE r[i] # Nil /\ r[i].seq =
                          (((k + 1) - deadQueueSize) - (ptr + 1)) + i
      <3>1. i \in Slots /\ i # ptr /\ i \in ptr .. deadQueueSize - 1
        BY <2>1, DeadQueueSizeAssumption DEF Slots
      <3>2. r[i] = q[i]
        BY <3>1, <1>2
      <3>3. k < deadQueueSize => ptr = k /\ q[i] = Nil
        BY <3>1 DEF HoldsLast
      <3>4. ~(k < deadQueueSize) =>
              q[i] # Nil /\ q[i].seq = ((k - deadQueueSize) - ptr) + i
        BY <3>1 DEF HoldsLast
      <3> QED BY <3>1, <3>2, <3>3, <3>4, <2>1, DeadQueueSizeAssumption
    <2> QED BY <1>1, <2>1, <2>2, <2>3, <2>4 DEF HoldsLast, r
  <1> QED BY <1>3, <1>4

(* A number that was given out and is not the last but is not found in the  *)
(* ring was overwritten: the ring is full.  So the early return of          *)
(* clearDeadQueue is never taken (web_conn.go:590).                         *)
LEMMA LossMeansFull ==
  ASSUME NEW q, NEW ptr \in Slots, NEW k \in Nat, NEW seq \in Nat,
         Ring(q), HoldsLast(q, ptr, k), seq <= k,
         IsInDeadQueue(q, seq) = {}, HasMsgLoss(q, ptr, seq)
  PROVE  Full(q)
  <1>1. CASE k < deadQueueSize
    <2>1. ptr = k
      BY <1>1 DEF HoldsLast
    <2>2. \A i \in 0 .. k - 1 : q[i] # Nil /\ q[i].seq = i
      BY <2>1 DEF HoldsLast
    <2>3. seq # k
      <3> SUFFICES ASSUME seq = k PROVE FALSE
        OBVIOUS
      <3>1. CASE k = 0
        <4>1. q[deadQueueSize - 1] = Nil
          BY <1>1, <2>1, <3>1, DeadQueueSizeAssumption DEF HoldsLast
        <4> QED BY <4>1, <3>1, <2>1 DEF HasMsgLoss
      <3>2. CASE k # 0
        <4>1. q[k - 1].seq = k - 1
          BY <2>2, <3>2
        <4> QED BY <4>1, <3>2, <2>1 DEF HasMsgLoss
      <3> QED BY <3>1, <3>2
    <2>4. seq \in 0 .. k - 1 /\ seq \in Slots
      BY <2>3, <1>1, DeadQueueSizeAssumption DEF Slots
    <2>5. \A j \in 0 .. seq - 1 : q[j] # Nil /\ q[j].seq # seq
      BY <2>2, <2>4
    <2>6. seq \in IsInDeadQueue(q, seq)
      BY <2>2, <2>4, <2>5 DEF IsInDeadQueue
    <2> QED BY <2>6
  <1>2. CASE ~(k < deadQueueSize)
    <2> SUFFICES ASSUME NEW i \in Slots PROVE q[i] # Nil
      BY DEF Full
    <2>1. i \in 0 .. ptr - 1 \/ i \in ptr .. deadQueueSize - 1
      BY DeadQueueSizeAssumption DEF Slots
    <2> QED BY <2>1, <1>2 DEF HoldsLast
  <1> QED BY <1>1, <1>2

(* A reconnection that is neither found nor a loss resumes at the end of    *)
(* the ring: the wanted number is the next one to give (web_conn.go:566).   *)
LEMMA LosslessMeansLast ==
  ASSUME NEW q, NEW ptr \in Slots, NEW k \in Nat, NEW seq \in Nat,
         Ring(q), HoldsLast(q, ptr, k), seq <= k, seq # 0,
         ~HasMsgLoss(q, ptr, seq)
  PROVE  seq = k
  <1>1. CASE ptr = 0
    <2>1. deadQueueSize - 1 \in ptr .. deadQueueSize - 1
      BY <1>1, DeadQueueSizeAssumption
    <2>2. k # 0
      OBVIOUS
    <2>3. ~(k < deadQueueSize)
      BY <1>1, <2>2 DEF HoldsLast
    <2> QED BY <1>1, <2>1, <2>3, DeadQueueSizeAssumption DEF HoldsLast, HasMsgLoss
  <1>2. CASE ptr # 0
    <2>1. ptr \in Nat /\ ptr - 1 \in 0 .. ptr - 1
      BY <1>2, DeadQueueSizeAssumption DEF Slots
    <2>2. q[ptr - 1].seq = (k - ptr) + (ptr - 1)
      BY <2>1 DEF HoldsLast
    <2> QED BY <1>2, <2>1, <2>2 DEF HasMsgLoss
  <1> QED BY <1>1, <1>2

(* Every entry has a number already given out. *)
LEMMA EntryBelow ==
  ASSUME NEW q, NEW ptr \in Slots, NEW k \in Nat, NEW i \in Slots,
         Ring(q), HoldsLast(q, ptr, k), q[i] # Nil
  PROVE  q[i].seq \in Nat /\ q[i].seq < k
  <1>1. q[i].seq \in Nat
    BY DEF Ring
  <1>2. CASE i < ptr
    <2>1. i \in 0 .. ptr - 1
      BY <1>2, DeadQueueSizeAssumption DEF Slots
    <2> QED BY <1>1, <1>2, <2>1, DeadQueueSizeAssumption DEF HoldsLast, Slots
  <1>3. CASE ~(i < ptr)
    <2>1. i \in ptr .. deadQueueSize - 1
      BY <1>3, DeadQueueSizeAssumption DEF Slots
    <2>2. ~(k < deadQueueSize) /\ q[i].seq = ((k - deadQueueSize) - ptr) + i
      BY <2>1 DEF HoldsLast
    <2> QED BY <1>1, <2>1, <2>2, DeadQueueSizeAssumption DEF Slots
  <1> QED BY <1>2, <1>3

(* drainDeadQueue always has something to write when it is called: the      *)
(* first slot is not empty, and the index is before the pointer of a ring   *)
(* that has not rolled over (web_conn.go:603-612).                          *)
LEMMA FoundDrains ==
  ASSUME NEW q, NEW ptr \in Slots, NEW k \in Nat, NEW seq \in Nat,
         Ring(q), HoldsLast(q, ptr, k), NEW i \in IsInDeadQueue(q, seq)
  PROVE  /\ i \in Slots /\ q[i] # Nil /\ q[i].seq = seq
         /\ DrainsFrom(q, ptr, i)
  <1>1. i \in Slots /\ q[i] # Nil /\ q[i].seq = seq
    BY DEF IsInDeadQueue
  <1>2. q[0] # Nil
    <2>1. CASE i = 0
      BY <1>1, <2>1
    <2>2. CASE i # 0
      <3>1. 0 \in 0 .. i - 1
        BY <1>1, <2>2, DeadQueueSizeAssumption DEF Slots
      <3> QED BY <3>1 DEF IsInDeadQueue
    <2> QED BY <2>1, <2>2
  <1>3. ASSUME q[ptr] = Nil PROVE i < ptr
    <2>1. SUFFICES ASSUME i \in ptr .. deadQueueSize - 1 PROVE FALSE
      BY <1>1, DeadQueueSizeAssumption DEF Slots
    <2>2. ptr \in ptr .. deadQueueSize - 1
      BY DeadQueueSizeAssumption DEF Slots
    <2>3. k < deadQueueSize
      BY <1>3, <2>2 DEF HoldsLast
    <2> QED BY <1>1, <2>1, <2>3 DEF HoldsLast
  <1> QED BY <1>1, <1>2, <1>3 DEF DrainsFrom

(* drainDeadQueue stops exactly after the last event numbered, and until    *)
(* then the next slot holds the next number: the comparison of neighbours   *)
(* finds the place where the ring wraps (web_conn.go:611-635).              *)
LEMMA DrainInOrder ==
  ASSUME NEW q, NEW ptr \in Slots, NEW k \in Nat, NEW i \in Slots,
         Ring(q), HoldsLast(q, ptr, k), q[i] # Nil
  PROVE  IF DrainedAfter(q, ptr, i)
           THEN q[i].seq + 1 = k
           ELSE /\ q[Advance(i)] # Nil
                /\ q[Advance(i)].seq = q[i].seq + 1
  <1> DEFINE N == deadQueueSize
  <1>1. N \in Nat /\ N >= 2 /\ i \in Nat /\ i < N /\ ptr \in Nat /\ ptr < N
    BY DeadQueueSizeAssumption DEF Slots
  <1>2. Advance(i) = IF i = N - 1 THEN 0 ELSE i + 1
    BY AdvanceIs
  <1>3. \A j \in Slots : j < ptr => q[j] # Nil /\ q[j].seq = (k - ptr) + j
    BY <1>1 DEF HoldsLast, Slots
  <1>4. CASE k < N
    <2>1. ptr = k
      BY <1>4 DEF HoldsLast
    <2>2. \A j \in Slots : ~(j < ptr) => q[j] = Nil
      BY <1>1, <1>4 DEF HoldsLast, Slots
    <2>3. q[ptr] = Nil /\ i < ptr
      BY <1>1, <2>2
    <2>4. q[i].seq = i
      BY <1>3, <2>1, <2>3, <1>1
    <2>5. CASE i + 1 >= ptr
      BY <2>1, <2>3, <2>4, <2>5, <1>1 DEF DrainedAfter
    <2>6. CASE ~(i + 1 >= ptr)
      <3>1. Advance(i) = i + 1 /\ i + 1 \in Slots /\ i + 1 < ptr
        BY <2>6, <1>1, <1>2 DEF Slots
      <3>2. q[i + 1] # Nil /\ q[i + 1].seq = (k - ptr) + (i + 1)
        BY <3>1, <1>3
      <3> QED BY <3>1, <3>2, <2>1, <2>3, <2>4, <2>6, <1>1 DEF DrainedAfter
    <2> QED BY <2>5, <2>6
  <1>5. CASE ~(k < N)
    <2>1. \A j \in Slots : ~(j < ptr) =>
            q[j] # Nil /\ q[j].seq = ((k - N) - ptr) + j
      BY <1>1, <1>5 DEF HoldsLast, Slots
    <2>2. q[ptr] # Nil
      BY <1>1, <2>1
    <2>3. Advance(i) \in Slots /\ Advance(i) \in Nat
      BY AdvanceIs, <1>1 DEF Slots
    <2>4. DrainedAfter(q, ptr, i) <=> q[i].seq > q[Advance(i)].seq
      BY <2>2 DEF DrainedAfter
    <2>5. CASE i < ptr /\ Advance(i) < ptr
      BY <1>1, <1>2, <1>3, <2>3, <2>4, <2>5, <1>5
    <2>6. CASE i < ptr /\ ~(Advance(i) < ptr)
      BY <1>1, <1>2, <1>3, <2>1, <2>3, <2>4, <2>6, <1>5
    <2>7. CASE ~(i < ptr) /\ Advance(i) < ptr
      BY <1>1, <1>2, <1>3, <2>1, <2>3, <2>4, <2>7, <1>5
    <2>8. CASE ~(i < ptr) /\ ~(Advance(i) < ptr)
      BY <1>1, <1>2, <2>1, <2>3, <2>4, <2>8, <1>5
    <2> QED BY <2>5, <2>6, <2>7, <2>8
  <1> QED BY <1>4, <1>5

(* On a full ring clearDeadQueue empties every slot and resets the pointer. *)
LEMMA ClearFull ==
  ASSUME NEW q, Full(q), NEW ptr
  PROVE  /\ ClearDeadQueue(q) = EmptyDeadQueue
         /\ ClearDeadQueuePointer(q, ptr) = 0
  <1>1. \A i \in Slots : \A j \in 0 .. i : q[j] # Nil
    BY DeadQueueSizeAssumption DEF Full, Slots
  <1> QED BY <1>1 DEF Full, ClearDeadQueue, ClearDeadQueuePointer,
             EmptyDeadQueue

-----------------------------------------------------------------------------

(* The number a chain gives next. *)
K(cn) == NextSeq(cn.deadQueue, cn.deadQueuePointer)

(* What holds of every chain by itself.  A running pump numbers from the    *)
(* end of the ring; a draining one is at the slot of its sequence; one that *)
(* has not started wants nothing that was not numbered.  A hello is first   *)
(* in its channel and nothing was numbered before it.                       *)
ChainOK(cn) ==
  /\ HoldsLast(cn.deadQueue, cn.deadQueuePointer, K(cn))
  /\ \A i \in Slots : cn.deadQueue[i] # Nil =>
       /\ cn.deadQueue[i].under = cn.connID
       /\ cn.deadQueue[i].kind = "hello" => cn.deadQueue[i].connID = cn.connID
  /\ cn.pump = "run" => cn.sequence = K(cn)
  /\ cn.pump = "drain" => /\ cn.deadQueue[cn.drain] # Nil
                          /\ cn.deadQueue[cn.drain].seq = cn.sequence
  /\ cn.pump \in {"new", "start"} =>
       /\ cn.sequence <= K(cn)
       /\ cn.reused => cn.sequence # 0
       /\ ~cn.reused => cn.sequence = 0 /\ K(cn) = 0
  /\ cn.pump = "new" /\ ~cn.reused => cn.queue = <<>>
  /\ cn.pump # "none" => cn.connID # 0
  /\ cn.index = "inactive" => cn.pump = "none"
  /\ cn.pump = "new" => cn.index = "none"
  /\ \A i \in 1 .. Len(cn.queue) : cn.queue[i].kind = "hello" =>
       /\ i = 1 /\ cn.queue[i].id = 0 /\ cn.queue[i].connID = cn.connID
       /\ K(cn) = 0 /\ ~cn.reused

(* A chain that has not yet sent its hello to the client of its socket. *)
Fresh(cn) ==
  /\ K(cn) = 0 /\ cn.sequence = 0 /\ ~cn.reused
  /\ \/ cn.pump = "new"
     \/ /\ cn.pump \in {"start", "run"}
        /\ cn.queue # <<>> /\ Head(cn.queue).kind = "hello"

(* A client cl that listens to chain cn either follows it, and then wants   *)
(* what the pump sends next, or will first be sent the hello.               *)
ListenOK(cn, cl) ==
  /\ cn.pump \notin {"none", "ended"}
  /\ IF cl.connID = cn.connID THEN cn.sequence = cl.want ELSE Fresh(cn)

IDsOK ==
  /\ \A c \in Chains : conn[c].connID < nextID
  /\ \A c \in Chains, d \in Chains :
       c # d /\ conn[c].connID = conn[d].connID => conn[c].connID = 0

ClientOK ==
  /\ client.connID < nextID
  /\ client.connID # 0 => client.want # 0
  /\ \A c \in Chains : client.connID # 0 /\ conn[c].connID = client.connID
                         => client.want <= K(conn[c])
  /\ \A c \in Chains : Listening(c) => ListenOK(conn[c], client)

ChainsOK == \A c \in Chains : ChainOK(conn[c])

(* The inductive invariant. *)
Inv == TypeOK /\ ChainsOK /\ IDsOK /\ ClientOK

-----------------------------------------------------------------------------

(* Facts about channels. *)
LEMMA EmptySeq == \A S : <<>> \in Seq(S) /\ Len(<<>>) = 0
  OBVIOUS

(* What appending to a sequence gives. *)
LEMMA AppendIs ==
  ASSUME NEW S, NEW s \in Seq(S), NEW e \in S
  PROVE  /\ Append(s, e) \in Seq(S) /\ Append(s, e) # <<>>
         /\ Len(Append(s, e)) = Len(s) + 1
         /\ \A i \in 1 .. Len(s) : Append(s, e)[i] = s[i]
         /\ Append(s, e)[Len(s) + 1] = e
         /\ Head(Append(s, e)) = IF s = <<>> THEN e ELSE Head(s)
  OBVIOUS

(* What the tail of a sequence is. *)
LEMMA TailIs ==
  ASSUME NEW S, NEW s \in Seq(S), s # <<>>
  PROVE  /\ Tail(s) \in Seq(S) /\ Len(Tail(s)) = Len(s) - 1
         /\ \A i \in 1 .. Len(Tail(s)) : i + 1 \in 1 .. Len(s)
                                        /\ Tail(s)[i] = s[i + 1]
         /\ 1 \in 1 .. Len(s) /\ Head(s) = s[1] /\ Head(s) \in S
  OBVIOUS

(* The number of events numbered since the ring was cleared is a natural. *)
LEMMA KNat ==
  ASSUME NEW cn \in ConnState
  PROVE  K(cn) \in Nat /\ Ring(cn.deadQueue) /\ cn.deadQueuePointer \in Slots
  <1>1. /\ cn.deadQueue \in [Slots -> DeadEvent \cup {Nil}]
        /\ cn.deadQueuePointer \in Slots
    BY DEF ConnState
  <1>2. \A i \in Slots : cn.deadQueue[i] # Nil => cn.deadQueue[i].seq \in Nat
    BY <1>1 DEF DeadEvent
  <1>3. deadQueueSize - 1 \in Slots
    BY DeadQueueSizeAssumption DEF Slots
  <1>4. cn.deadQueuePointer # 0 => cn.deadQueuePointer - 1 \in Slots
    BY <1>1, DeadQueueSizeAssumption DEF Slots
  <1> QED BY <1>1, <1>2, <1>3, <1>4 DEF K, NextSeq, Ring

(* A chain that no WebConn uses is well formed. *)
LEMMA FreeOK == FreeConn \in ConnState /\ ChainOK(FreeConn)
  <1>1. 0 \in Slots /\ EmptyDeadQueue \in [Slots -> DeadEvent \cup {Nil}]
    BY EmptyHoldsLast DEF EmptyDeadQueue
  <1>2. FreeConn \in ConnState
    BY <1>1 DEF FreeConn, ConnState
  <1>3. K(FreeConn) = 0
    BY EmptyHoldsLast, NextSeqIs DEF K, FreeConn
  <1>4. \A i \in Slots : FreeConn.deadQueue[i] = Nil
    BY DEF FreeConn, EmptyDeadQueue
  <1>5. HoldsLast(FreeConn.deadQueue, FreeConn.deadQueuePointer, 0)
    BY EmptyHoldsLast DEF FreeConn
  <1> QED BY <1>2, <1>3, <1>4, <1>5 DEF ChainOK, FreeConn

(* The state besides conn and client. *)
OtherTypes == /\ nextID \in Nat \ {0}
              /\ published \in Nat
              /\ missed \subseteq Nat
              /\ log \in [1 .. MaxConnIDs -> Seq(Nat)]
              /\ breaks \in Nat /\ encodeErrors \in Nat /\ responses \in Nat

(* A step that makes r of chain c, and leaves the client as it is but for    *)
(* its socket, or makes it consume an event of that chain, or cuts it off.  *)
OneChain(c, r) ==
  /\ conn' = [conn EXCEPT ![c] = r]
  /\ client' \in ClientState /\ OtherTypes'
  /\ nextID' \in {nextID, nextID + 1}
  /\ \/ r.connID \in {conn[c].connID, 0}
     \/ r.connID = nextID /\ nextID' = nextID + 1
  /\ \/ /\ client'.connID = client.connID
        /\ client'.want = client.want
        /\ r.connID # 0 /\ r.connID = conn[c].connID => K(conn[c]) <= K(r)
     \/ /\ client'.connID = r.connID /\ r.connID # 0
        /\ client'.want # 0 /\ client'.want <= K(r)
     \/ client'.connID = 0
  /\ \A d \in Chains \ {c} :
       Listening(d)' => Listening(d) /\ client' = client
  /\ Listening(c)' => ListenOK(r, client')

(* A step that changes one chain keeps what holds of the others. *)
LEMMA ChangeOne ==
  ASSUME Inv, NEW c \in Chains, NEW r \in ConnState, ChainOK(r), OneChain(c, r)
  PROVE  Inv'
  <1> USE DEF OneChain
  <1>1. /\ conn' \in [Chains -> ConnState]
        /\ conn'[c] = r
        /\ \A d \in Chains \ {c} : conn'[d] = conn[d]
    BY DEF Inv, TypeOK
  <1>2. TypeOK'
    BY <1>1 DEF OtherTypes, TypeOK
  <1>3. ChainsOK'
    BY <1>1 DEF Inv, ChainsOK
  <1>4. /\ nextID \in Nat \ {0}
        /\ client.connID \in Nat /\ client'.connID \in Nat /\ r.connID \in Nat
        /\ client.want \in Nat /\ client'.want \in Nat
        /\ \A d \in Chains : conn[d].connID \in Nat
    BY DEF Inv, TypeOK, ClientState, ConnState
  <1>5. /\ \A d \in Chains : conn[d].connID < nextID
        /\ client.connID < nextID
        /\ \A d \in Chains, e \in Chains :
             d # e /\ conn[d].connID = conn[e].connID => conn[d].connID = 0
    BY DEF Inv, IDsOK, ClientOK
  <1>6. IDsOK'
    <2>1. \A d \in Chains : conn'[d].connID < nextID'
      BY <1>1, <1>4, <1>5
    <2>2. ASSUME NEW d \in Chains, NEW e \in Chains, d # e,
                 conn'[d].connID = conn'[e].connID
          PROVE  conn'[d].connID = 0
      <3>1. CASE d # c /\ e # c
        BY <3>1, <2>2, <1>1, <1>5
      <3>2. CASE d = c
        BY <3>2, <2>2, <1>1, <1>4, <1>5
      <3>3. CASE e = c
        BY <3>3, <2>2, <1>1, <1>4, <1>5
      <3> QED BY <3>1, <3>2, <3>3
    <2> QED BY <2>1, <2>2 DEF IDsOK
  <1>7. ClientOK'
    <2>1. client'.connID < nextID'
      BY <1>1, <1>4, <1>5
    <2>2. client'.connID # 0 => client'.want # 0
      BY DEF Inv, ClientOK
    <2>3. ASSUME NEW d \in Chains, client'.connID # 0,
                 conn'[d].connID = client'.connID
          PROVE  client'.want <= K(conn'[d])
      <3>1. \A e \in Chains : client.connID # 0 /\ conn[e].connID = client.connID
              => client.want <= K(conn[e])
        BY DEF Inv, ClientOK
      <3>2. CASE d = c
        <4>1. CASE client'.connID = r.connID /\ client'.want <= K(r)
          BY <4>1, <3>2, <1>1
        <4>2. CASE /\ client'.connID = client.connID
                   /\ client'.want = client.want
                   /\ r.connID # 0 /\ r.connID = conn[c].connID
                        => K(conn[c]) <= K(r)
          <5>1. r.connID = conn[c].connID
            BY <4>2, <3>2, <2>3, <1>1, <1>4, <1>5
          <5>2. K(conn[c]) \in Nat /\ K(r) \in Nat
            BY KNat DEF Inv, TypeOK
          <5> QED BY <5>1, <5>2, <4>2, <3>1, <3>2, <2>3, <1>1, <1>4
        <4> QED BY <4>1, <4>2, <2>3
      <3>3. CASE d # c
        <4>1. conn'[d] = conn[d]
          BY <3>3, <1>1
        <4>2. client'.connID # r.connID
          BY <1>6, <1>1, <3>3, <2>3 DEF IDsOK
        <4> QED BY <4>1, <4>2, <3>1, <2>3
      <3> QED BY <3>2, <3>3
    <2>4. ASSUME NEW d \in Chains, Listening(d)'
          PROVE  ListenOK(conn'[d], client')
      <3>1. CASE d = c
        BY <3>1, <2>4, <1>1
      <3>2. CASE d # c
        BY <3>2, <2>4, <1>1 DEF Inv, ClientOK
      <3> QED BY <3>1, <3>2
    <2> QED BY <2>1, <2>2, <2>3, <2>4 DEF ClientOK
  <1> QED BY <1>2, <1>3, <1>6, <1>7 DEF Inv
-----------------------------------------------------------------------------

(* What Inv says of one chain and of the client. *)
LEMMA InvOf ==
  ASSUME Inv, NEW c \in Chains
  PROVE  /\ conn[c] \in ConnState /\ ChainOK(conn[c])
         /\ K(conn[c]) \in Nat /\ Ring(conn[c].deadQueue)
         /\ client \in ClientState
         /\ OtherTypes
         /\ Listening(c) => ListenOK(conn[c], client)
         /\ conn[c].connID < nextID
  BY KNat DEF Inv, TypeOK, ChainsOK, ClientOK, IDsOK, OtherTypes

(* A socket that fails leaves no one listening; the client keeps its        *)
(* connection ID and number.                                                *)
LEMMA FailsIs ==
  ASSUME Inv, NEW c \in Chains, SocketFails(c)
  PROVE  /\ client' \in ClientState
         /\ client'.connID = client.connID /\ client'.want = client.want
         /\ ~Listening(c)'
         /\ \A d \in Chains \ {c} :
              Listening(d)' => Listening(d) /\ client' = client
         /\ breaks' \in Nat
  BY DEF Inv, TypeOK, ClientState, SocketFails, Listening

(* The write pump starts with nothing to send again (web_conn.go:393-425). *)
LEMMA StartLiveInv ==
  ASSUME Inv, NEW c \in Chains, StartLive(c)
  PROVE  Inv'
  <1> DEFINE r == [conn[c] EXCEPT !.pump = "run"]
  <1>1. /\ conn[c] \in ConnState /\ ChainOK(conn[c]) /\ K(conn[c]) \in Nat
        /\ Ring(conn[c].deadQueue) /\ OtherTypes /\ client \in ClientState
        /\ Listening(c) => ListenOK(conn[c], client)
    BY InvOf
  <1>2. /\ r \in ConnState /\ K(r) = K(conn[c])
        /\ conn' = [conn EXCEPT ![c] = r] /\ r.pump = "run"
        /\ r.sequence = conn[c].sequence /\ r.connID = conn[c].connID
        /\ r.queue = conn[c].queue /\ r.deadQueue = conn[c].deadQueue
        /\ r.deadQueuePointer = conn[c].deadQueuePointer
        /\ r.reused = conn[c].reused /\ r.index = conn[c].index
    BY <1>1 DEF ConnState, StartLive, K
  <1>3. conn[c].sequence = K(conn[c])
    <2>1. /\ conn[c].pump = "start"
          /\ conn[c].sequence \in Nat /\ conn[c].deadQueuePointer \in Slots
      BY <1>1 DEF StartLive, ConnState
    <2>2. CASE conn[c].sequence = 0
      BY <1>1, <2>1, <2>2 DEF ChainOK, ConnState
    <2>3. CASE conn[c].sequence # 0
      <3>1. /\ conn[c].sequence <= K(conn[c])
            /\ HoldsLast(conn[c].deadQueue, conn[c].deadQueuePointer, K(conn[c]))
        BY <1>1, <2>1 DEF ChainOK
      <3> QED BY <1>1, <2>1, <2>3, <3>1, LosslessMeansLast DEF StartLive
    <2> QED BY <2>2, <2>3
  <1>4. ChainOK(r)
    BY <1>1, <1>2, <1>3 DEF ChainOK, StartLive
  <1>5. Listening(c) => ListenOK(r, client)
    BY <1>1, <1>2 DEF ListenOK, Fresh, StartLive
  <1>6. UNCHANGED client /\ OtherTypes' /\ nextID' = nextID
    BY <1>1 DEF StartLive, OtherTypes, counters
  <1> HIDE DEF r
  <1>7. OneChain(c, r)
    BY <1>1, <1>2, <1>5, <1>6 DEF OneChain, Listening
  <1> QED BY <1>2, <1>4, <1>7, ChangeOne

(* The write pump starts by draining the ring (web_conn.go:394-398). *)
LEMMA StartDrainInv ==
  ASSUME Inv, NEW c \in Chains, StartDrain(c)
  PROVE  Inv'
  <1>1. /\ conn[c] \in ConnState /\ ChainOK(conn[c]) /\ K(conn[c]) \in Nat
        /\ Ring(conn[c].deadQueue) /\ OtherTypes /\ client \in ClientState
        /\ Listening(c) => ListenOK(conn[c], client)
    BY InvOf
  <1>2. /\ conn[c].pump = "start" /\ conn[c].sequence \in Nat
        /\ conn[c].deadQueuePointer \in Slots
        /\ HoldsLast(conn[c].deadQueue, conn[c].deadQueuePointer, K(conn[c]))
    BY <1>1 DEF StartDrain, ConnState, ChainOK
  <1>3. PICK index \in IsInDeadQueue(conn[c].deadQueue, conn[c].sequence) :
          conn' = [conn EXCEPT
                  ![c].pump = IF DrainsFrom(conn[c].deadQueue,
                                            conn[c].deadQueuePointer, index)
                                THEN "drain" ELSE "run",
                  ![c].drain = index]
    BY DEF StartDrain
  <1>4. /\ index \in Slots /\ conn[c].deadQueue[index] # Nil
        /\ conn[c].deadQueue[index].seq = conn[c].sequence
        /\ DrainsFrom(conn[c].deadQueue, conn[c].deadQueuePointer, index)
    BY <1>1, <1>2, FoundDrains
  <1> DEFINE r == [conn[c] EXCEPT !.pump = "drain", !.drain = index]
  <1>5. /\ r \in ConnState /\ K(r) = K(conn[c])
        /\ conn' = [conn EXCEPT ![c] = r] /\ r.pump = "drain" /\ r.drain = index
        /\ r.sequence = conn[c].sequence /\ r.connID = conn[c].connID
        /\ r.queue = conn[c].queue /\ r.deadQueue = conn[c].deadQueue
        /\ r.deadQueuePointer = conn[c].deadQueuePointer
        /\ r.reused = conn[c].reused /\ r.index = conn[c].index
    BY <1>1, <1>3, <1>4 DEF ConnState, K
  <1> HIDE DEF r
  <1>6. ChainOK(r)
    BY <1>1, <1>2, <1>4, <1>5 DEF ChainOK
  <1>7. conn[c].sequence # 0 /\ conn[c].sequence = r.sequence
    BY <1>5 DEF StartDrain
  <1>8. Listening(c) => ListenOK(r, client)
    BY <1>1, <1>5, <1>7 DEF ListenOK, Fresh
  <1>9. UNCHANGED client /\ OtherTypes' /\ nextID' = nextID
    BY <1>1 DEF StartDrain, OtherTypes, counters
  <1>10. OneChain(c, r)
    BY <1>1, <1>5, <1>8, <1>9 DEF OneChain, Listening
  <1> QED BY <1>5, <1>6, <1>10, ChangeOne

(* The hub's register case (web_hub.go:450-465). *)
LEMMA RegisterInv ==
  ASSUME Inv, NEW c \in Chains, Register(c)
  PROVE  Inv'
  <1> DEFINE q == IF conn[c].reused THEN conn[c].queue
                  ELSE Append(conn[c].queue, Hello(conn[c].connID))
             r == [conn[c] EXCEPT !.pump = "start", !.index = "active",
                                  !.queue = q]
  <1>1. /\ conn[c] \in ConnState /\ ChainOK(conn[c]) /\ K(conn[c]) \in Nat
        /\ Ring(conn[c].deadQueue) /\ OtherTypes /\ client \in ClientState
        /\ Listening(c) => ListenOK(conn[c], client)
    BY InvOf
  <1>2. conn[c].pump = "new" /\ conn[c].connID \in Nat
        /\ conn[c].queue \in Seq(Message) /\ conn[c].reused \in BOOLEAN
    BY <1>1 DEF Register, ConnState
  <1>3. ~conn[c].reused =>
          /\ q \in Seq(Message) /\ Len(q) = 1 /\ q[1] = Hello(conn[c].connID)
          /\ q # <<>> /\ Head(q).kind = "hello"
    <2>1. Hello(conn[c].connID) \in Message /\ Hello(conn[c].connID).kind = "hello"
      BY <1>2 DEF Hello, Message
    <2>2. ~conn[c].reused => conn[c].queue = <<>>
      BY <1>1, <1>2 DEF ChainOK
    <2>3. ~conn[c].reused => q = Append(<<>>, Hello(conn[c].connID))
      BY <2>2
    <2>4. <<>> \in Seq(Message) /\ Len(<<>>) = 0
      BY EmptySeq
    <2>5. ASSUME NEW h \in Message, h.kind = "hello"
          PROVE  /\ Append(<<>>, h) \in Seq(Message) /\ Len(Append(<<>>, h)) = 1
                 /\ Append(<<>>, h)[1] = h /\ Append(<<>>, h) # <<>>
                 /\ Head(Append(<<>>, h)).kind = "hello"
      BY <2>4, <2>5, AppendIs
    <2> HIDE DEF q
    <2> QED BY <2>1, <2>3, <2>5
  <1>4. q \in Seq(Message) /\ (conn[c].reused => q = conn[c].queue)
    BY <1>2, <1>3
  <1> HIDE DEF q
  <1>5. /\ r \in ConnState /\ K(r) = K(conn[c])
        /\ r.pump = "start" /\ r.queue = q /\ r.index = "active"
        /\ r.sequence = conn[c].sequence /\ r.connID = conn[c].connID
        /\ r.deadQueue = conn[c].deadQueue
        /\ r.deadQueuePointer = conn[c].deadQueuePointer
        /\ r.reused = conn[c].reused
    BY <1>1, <1>4 DEF ConnState, K
  <1>6. conn' = [conn EXCEPT ![c] = r]
    BY DEF Register, q
  <1> HIDE DEF r
  <1>7. ChainOK(r)
    <2>1. \A i \in 1 .. Len(r.queue) : r.queue[i].kind = "hello" =>
            /\ i = 1 /\ r.queue[i].id = 0 /\ r.queue[i].connID = r.connID
            /\ K(r) = 0 /\ ~r.reused
      <3>1. CASE conn[c].reused
        BY <3>1, <1>1, <1>4, <1>5 DEF ChainOK
      <3>2. CASE ~conn[c].reused
        BY <3>2, <1>1, <1>2, <1>3, <1>5 DEF ChainOK, Hello
      <3> QED BY <3>1, <3>2
    <2> QED BY <2>1, <1>1, <1>2, <1>5 DEF ChainOK
  <1>8. Listening(c) => ListenOK(r, client)
    BY <1>1, <1>2, <1>3, <1>5 DEF ListenOK, Fresh
  <1>9. UNCHANGED client /\ OtherTypes' /\ nextID' = nextID
    BY <1>1 DEF Register, OtherTypes, counters
  <1>10. OneChain(c, r)
    BY <1>1, <1>5, <1>6, <1>8, <1>9 DEF OneChain, Listening
  <1> QED BY <1>5, <1>7, <1>10, ChangeOne

(* The hub's unregister case (web_hub.go:466-471). *)
LEMMA UnregisterInv ==
  ASSUME Inv, NEW c \in Chains, Unregister(c) \/ RemoveInactive(c)
  PROVE  Inv'
  <1>1. /\ conn[c] \in ConnState /\ ChainOK(conn[c]) /\ K(conn[c]) \in Nat
        /\ Ring(conn[c].deadQueue) /\ OtherTypes /\ client \in ClientState
        /\ Listening(c) => ListenOK(conn[c], client)
    BY InvOf
  <1>2. ~Listening(c) /\ conn[c].pump \in {"ended", "none"}
    BY <1>1 DEF ListenOK, Unregister, RemoveInactive, ChainOK
  <1>3. UNCHANGED client /\ OtherTypes' /\ nextID' = nextID
    BY <1>1 DEF Unregister, RemoveInactive, OtherTypes, counters
  <1>4. CASE conn' = [conn EXCEPT ![c] = FreeConn]
    <2>1. FreeConn \in ConnState /\ ChainOK(FreeConn) /\ FreeConn.connID = 0
      BY FreeOK DEF FreeConn
    <2>2. OneChain(c, FreeConn)
      BY <1>1, <1>2, <1>3, <1>4, <2>1 DEF OneChain, Listening
    <2> QED BY <2>1, <2>2, ChangeOne
  <1>5. CASE conn' = [conn EXCEPT ![c] =
               [conn[c] EXCEPT !.pump = "none", !.index = "inactive"]]
    <2> DEFINE r == [conn[c] EXCEPT !.pump = "none", !.index = "inactive"]
    <2>1. /\ r \in ConnState /\ K(r) = K(conn[c])
          /\ conn' = [conn EXCEPT ![c] = r] /\ r.pump = "none"
          /\ r.sequence = conn[c].sequence /\ r.connID = conn[c].connID
          /\ r.queue = conn[c].queue /\ r.deadQueue = conn[c].deadQueue
          /\ r.deadQueuePointer = conn[c].deadQueuePointer
          /\ r.reused = conn[c].reused
      BY <1>1, <1>5 DEF ConnState, K
    <2> HIDE DEF r
    <2>2. ChainOK(r)
      BY <1>1, <2>1 DEF ChainOK
    <2>3. OneChain(c, r)
      BY <1>1, <1>2, <1>3, <2>1 DEF OneChain, Listening
    <2> QED BY <2>1, <2>2, <2>3, ChangeOne
  <1> QED BY <1>4, <1>5 DEF Unregister, RemoveInactive

(* A connection that takes over nothing (websocket.go:49-66). *)
LEMMA ConnectFreshInv ==
  ASSUME Inv, NEW c \in Chains, ConnectFresh(c)
  PROVE  Inv'
  <1> DEFINE r == [FreeConn EXCEPT !.pump = "new", !.connID = nextID]
  <1>1. /\ conn[c] \in ConnState /\ ChainOK(conn[c]) /\ K(conn[c]) \in Nat
        /\ Ring(conn[c].deadQueue) /\ OtherTypes /\ client \in ClientState
        /\ Listening(c) => ListenOK(conn[c], client)
    BY InvOf
  <1>2. nextID \in Nat /\ nextID # 0 /\ nextID' = nextID + 1
    BY <1>1 DEF OtherTypes, ConnectFresh
  <1>3. FreeConn \in ConnState /\ ChainOK(FreeConn)
    BY FreeOK
  <1>4. /\ r \in ConnState /\ r.pump = "new" /\ r.connID = nextID
        /\ r.index = "none" /\ r.queue = <<>> /\ r.sequence = 0
        /\ r.reused = FALSE /\ K(r) = K(FreeConn)
        /\ r.deadQueue = FreeConn.deadQueue
        /\ r.deadQueuePointer = FreeConn.deadQueuePointer
    BY <1>2, <1>3 DEF ConnState, K, FreeConn
  <1>5. K(FreeConn) = 0
    BY EmptyHoldsLast, NextSeqIs DEF K, FreeConn
  <1>6. \A i \in Slots : FreeConn.deadQueue[i] = Nil
    BY DEF FreeConn, EmptyDeadQueue
  <1>7. conn' = [conn EXCEPT ![c] = r]
    BY DEF ConnectFresh
  <1> HIDE DEF r
  <1>8. ChainOK(r)
    BY <1>2, <1>3, <1>4, <1>5, <1>6 DEF ChainOK
  <1>9. /\ client' \in ClientState /\ client'.connID = client.connID
        /\ client'.want = client.want /\ client'.chain = c
    BY <1>1 DEF ConnectFresh, ClientState
  <1>10. client.connID < nextID
    BY DEF Inv, ClientOK
  <1>11. ListenOK(r, client')
    BY <1>2, <1>1, <1>4, <1>5, <1>9, <1>10 DEF ListenOK, Fresh, ClientState
  <1>12. OtherTypes'
    BY <1>1, <1>2 DEF ConnectFresh, OtherTypes, counters
  <1>13. conn[c].connID \in Nat /\ conn[c].connID < nextID
    BY <1>1, InvOf DEF ConnState
  <1>14. OneChain(c, r)
    BY <1>2, <1>4, <1>7, <1>9, <1>11, <1>12, <1>13 DEF OneChain, Listening
  <1> QED BY <1>4, <1>8, <1>14, ChangeOne

(* A connection that takes over queues (web_conn.go:139-157). *)
LEMMA ConnectResumeInv ==
  ASSUME Inv, NEW c \in Chains, ConnectResume(c)
  PROVE  Inv'
  <1> DEFINE r == [conn[c] EXCEPT !.index = "none", !.pump = "new",
                                  !.sequence = client.want, !.reused = TRUE]
  <1>1. /\ conn[c] \in ConnState /\ ChainOK(conn[c]) /\ K(conn[c]) \in Nat
        /\ Ring(conn[c].deadQueue) /\ OtherTypes /\ client \in ClientState
        /\ Listening(c) => ListenOK(conn[c], client)
    BY InvOf
  <1>2. /\ client.connID # 0 /\ client.connID = conn[c].connID
        /\ client.want \in Nat
    BY <1>1 DEF ConnectResume, Resumable, ClientState
  <1>3. client.want # 0 /\ client.want <= K(conn[c])
    BY <1>2 DEF Inv, ClientOK
  <1>4. /\ r \in ConnState /\ K(r) = K(conn[c])
        /\ r.pump = "new" /\ r.index = "none" /\ r.reused = TRUE
        /\ r.sequence = client.want /\ r.connID = conn[c].connID
        /\ r.queue = conn[c].queue /\ r.deadQueue = conn[c].deadQueue
        /\ r.deadQueuePointer = conn[c].deadQueuePointer
    BY <1>1, <1>2 DEF ConnState, K
  <1>5. conn' = [conn EXCEPT ![c] = r]
    BY DEF ConnectResume
  <1> HIDE DEF r
  <1>6. ChainOK(r)
    BY <1>1, <1>2, <1>3, <1>4 DEF ChainOK
  <1>7. /\ client' \in ClientState /\ client'.connID = client.connID
        /\ client'.want = client.want /\ client'.chain = c
    BY <1>1 DEF ConnectResume, ClientState
  <1>8. OtherTypes' /\ nextID' = nextID
    BY <1>1 DEF ConnectResume, OtherTypes, counters
  <1>9. ListenOK(r, client')
    BY <1>2, <1>4, <1>7 DEF ListenOK
  <1>10. OneChain(c, r)
    BY <1>1, <1>4, <1>5, <1>7, <1>8, <1>9 DEF OneChain, Listening
  <1> QED BY <1>4, <1>6, <1>10, ChangeOne
-----------------------------------------------------------------------------

(* Two states of a chain that differ at most in pump, queue, index and open. *)
SameRing(r, cn) ==
  /\ r.sequence = cn.sequence /\ r.connID = cn.connID /\ r.reused = cn.reused
  /\ r.deadQueue = cn.deadQueue /\ r.deadQueuePointer = cn.deadQueuePointer
  /\ r.drain = cn.drain

(* Queue r is queue q, or q without its first message. *)
Shortens(r, q) == r = q \/ (q # <<>> /\ r = Tail(q))

(* A running pump goes on or ends, perhaps with its first message taken. *)
LEMMA PumpKeeps ==
  ASSUME NEW cn \in ConnState, ChainOK(cn), cn.pump = "run",
         NEW r \in ConnState, SameRing(r, cn), r.index = cn.index,
         r.pump \in {"run", "ended"},
         Shortens(r.queue, cn.queue)
  PROVE  ChainOK(r) /\ K(r) = K(cn)
  <1>1. K(r) = K(cn)
    BY DEF K, SameRing
  <1>2. \A i \in 1 .. Len(r.queue) : r.queue[i].kind = "hello" =>
          /\ i = 1 /\ r.queue[i].id = 0 /\ r.queue[i].connID = r.connID
          /\ K(r) = 0 /\ ~r.reused
    <2>1. CASE r.queue = cn.queue
      BY <2>1, <1>1 DEF ChainOK, SameRing
    <2>2. CASE cn.queue # <<>> /\ r.queue = Tail(cn.queue)
      <3>1. cn.queue \in Seq(Message)
        BY DEF ConnState
      <3>2. \A i \in 1 .. Len(Tail(cn.queue)) :
              i + 1 \in 1 .. Len(cn.queue) /\ Tail(cn.queue)[i] = cn.queue[i + 1]
        BY <2>2, <3>1, TailIs
      <3>3. \A i \in 1 .. Len(Tail(cn.queue)) : i + 1 # 1
        OBVIOUS
      <3> QED BY <2>2, <3>2, <3>3 DEF ChainOK
    <2> QED BY <2>1, <2>2 DEF Shortens
  <1> QED BY <1>1, <1>2 DEF ChainOK, SameRing

(* A slow pump drops an event (web_conn.go:442-461). *)
LEMMA SkipSendInv ==
  ASSUME Inv, NEW c \in Chains, SkipSend(c)
  PROVE  Inv'
  <1> DEFINE r == [conn[c] EXCEPT !.queue = Tail(@)]
  <1>1. /\ conn[c] \in ConnState /\ ChainOK(conn[c]) /\ K(conn[c]) \in Nat
        /\ Ring(conn[c].deadQueue) /\ OtherTypes /\ client \in ClientState
        /\ Listening(c) => ListenOK(conn[c], client)
    BY InvOf
  <1>2. /\ conn[c].pump = "run" /\ conn[c].queue # <<>>
        /\ conn[c].queue \in Seq(Message)
    BY <1>1 DEF SkipSend, Received, ConnState
  <1>3. /\ Tail(conn[c].queue) \in Seq(Message)
        /\ 1 \in 1 .. Len(conn[c].queue)
        /\ Head(conn[c].queue) = conn[c].queue[1]
    BY <1>2, TailIs
  <1>4. /\ r \in ConnState /\ SameRing(r, conn[c]) /\ r.index = conn[c].index
        /\ r.pump = "run" /\ r.queue = Tail(conn[c].queue)
        /\ conn' = [conn EXCEPT ![c] = r]
    BY <1>1, <1>2, <1>3 DEF ConnState, SameRing, SkipSend
  <1> HIDE DEF r
  <1>5. ChainOK(r) /\ K(r) = K(conn[c])
    BY <1>1, <1>2, <1>4, PumpKeeps DEF Shortens
  <1>6. Head(conn[c].queue).kind # "hello"
    <2>1. Head(conn[c].queue).id # 0
      BY WebConnAssumption DEF SkipSend, Skips
    <2> QED BY <2>1, <1>1, <1>3 DEF ChainOK
  <1>7. Listening(c) => ListenOK(r, client)
    BY <1>1, <1>2, <1>4, <1>6 DEF ListenOK, Fresh, SameRing
  <1>8. UNCHANGED client /\ OtherTypes' /\ nextID' = nextID
    BY <1>1 DEF SkipSend, OtherTypes, counters
  <1>9. OneChain(c, r)
    BY <1>1, <1>4, <1>5, <1>7, <1>8 DEF OneChain, Listening, SameRing
  <1> QED BY <1>4, <1>5, <1>9, ChangeOne

(* A response is written (web_conn.go:469-497). *)
LEMMA SendResponseInv ==
  ASSUME Inv, NEW c \in Chains, SendResponse(c)
  PROVE  Inv'
  <1>1. /\ conn[c] \in ConnState /\ ChainOK(conn[c]) /\ K(conn[c]) \in Nat
        /\ Ring(conn[c].deadQueue) /\ OtherTypes /\ client \in ClientState
        /\ Listening(c) => ListenOK(conn[c], client)
    BY InvOf
  <1>2. /\ conn[c].pump = "run" /\ conn[c].queue # <<>>
        /\ conn[c].queue \in Seq(Message)
        /\ Head(conn[c].queue).kind = "response"
    BY <1>1 DEF SendResponse, Received, ConnState
  <1>3. Tail(conn[c].queue) \in Seq(Message)
    BY <1>2, TailIs
  <1>4. CASE /\ conn' = [conn EXCEPT ![c].queue = Tail(@)]
             /\ UNCHANGED <<client, breaks>>
    <2> DEFINE r == [conn[c] EXCEPT !.queue = Tail(@)]
    <2>1. /\ r \in ConnState /\ SameRing(r, conn[c]) /\ r.index = conn[c].index
          /\ r.pump = "run" /\ r.queue = Tail(conn[c].queue)
          /\ conn' = [conn EXCEPT ![c] = r]
      BY <1>1, <1>2, <1>3, <1>4 DEF ConnState, SameRing
    <2> HIDE DEF r
    <2>2. ChainOK(r) /\ K(r) = K(conn[c])
      BY <1>1, <1>2, <2>1, PumpKeeps DEF Shortens
    <2>3. Listening(c) => ListenOK(r, client)
      BY <1>1, <1>2, <2>1 DEF ListenOK, Fresh, SameRing
    <2>4. UNCHANGED client /\ OtherTypes' /\ nextID' = nextID
      BY <1>1, <1>4 DEF SendResponse, OtherTypes
    <2>5. OneChain(c, r)
      BY <1>1, <2>1, <2>2, <2>3, <2>4 DEF OneChain, Listening, SameRing
    <2> QED BY <2>1, <2>2, <2>5, ChangeOne
  <1>5. CASE /\ conn' = [conn EXCEPT ![c].queue = Tail(@), ![c].pump = "ended"]
             /\ SocketFails(c)
    <2> DEFINE r == [conn[c] EXCEPT !.queue = Tail(@), !.pump = "ended"]
    <2>1. /\ r \in ConnState /\ SameRing(r, conn[c]) /\ r.index = conn[c].index
          /\ r.pump = "ended" /\ r.queue = Tail(conn[c].queue)
          /\ conn' = [conn EXCEPT ![c] = r]
      BY <1>1, <1>2, <1>3, <1>5 DEF ConnState, SameRing
    <2> HIDE DEF r
    <2>2. ChainOK(r) /\ K(r) = K(conn[c])
      BY <1>1, <1>2, <2>1, PumpKeeps DEF Shortens
    <2>3. /\ client' \in ClientState /\ breaks' \in Nat
          /\ client'.connID = client.connID /\ client'.want = client.want
          /\ ~Listening(c)'
          /\ \A d \in Chains \ {c} :
               Listening(d)' => Listening(d) /\ client' = client
      BY <1>5, FailsIs
    <2>4. OtherTypes' /\ nextID' = nextID
      BY <1>1, <2>3 DEF SendResponse, OtherTypes
    <2>5. OneChain(c, r)
      BY <1>1, <2>1, <2>2, <2>3, <2>4 DEF OneChain, SameRing
    <2> QED BY <2>1, <2>2, <2>5, ChangeOne
  <1> QED BY <1>4, <1>5 DEF SendResponse

(* The write pump ends (web_conn.go:434-438, 502-509). *)
LEMMA PumpEndsInv ==
  ASSUME Inv, NEW c \in Chains, PumpEnds(c) \/ ReceiveClosed(c)
  PROVE  Inv'
  <1> DEFINE r == [conn[c] EXCEPT !.pump = "ended"]
  <1>1. /\ conn[c] \in ConnState /\ ChainOK(conn[c]) /\ K(conn[c]) \in Nat
        /\ Ring(conn[c].deadQueue) /\ OtherTypes /\ client \in ClientState
        /\ Listening(c) => ListenOK(conn[c], client)
    BY InvOf
  <1>2. conn[c].pump = "run"
    BY DEF PumpEnds, ReceiveClosed
  <1>3. /\ r \in ConnState /\ SameRing(r, conn[c]) /\ r.index = conn[c].index
        /\ r.pump = "ended" /\ r.queue = conn[c].queue
        /\ conn' = [conn EXCEPT ![c] = r]
    BY <1>1, <1>2 DEF ConnState, SameRing, PumpEnds, ReceiveClosed
  <1> HIDE DEF r
  <1>4. ChainOK(r) /\ K(r) = K(conn[c])
    <2>1. /\ r.pump \in {"run", "ended"}
          /\ Shortens(r.queue, conn[c].queue)
      BY <1>3 DEF Shortens
    <2>2. conn[c] \in ConnState /\ ChainOK(conn[c])
      BY <1>1
    <2>3. r \in ConnState /\ SameRing(r, conn[c]) /\ r.index = conn[c].index
      BY <1>3
    <2> QED BY <1>2, <2>1, <2>2, <2>3, PumpKeeps
  <1>5. /\ client' \in ClientState /\ breaks' \in Nat
        /\ client'.connID = client.connID /\ client'.want = client.want
        /\ ~Listening(c)'
        /\ \A d \in Chains \ {c} :
             Listening(d)' => Listening(d) /\ client' = client
    <2>1. CASE PumpEnds(c)
      BY <2>1, FailsIs DEF PumpEnds
    <2>2. CASE ReceiveClosed(c)
      BY <2>2, <1>1 DEF ReceiveClosed, ClientState, Listening, counters, OtherTypes
    <2> QED BY <2>1, <2>2
  <1>6. OtherTypes' /\ nextID' = nextID
    BY <1>1, <1>5 DEF PumpEnds, ReceiveClosed, OtherTypes, counters
  <1>7. OneChain(c, r)
    BY <1>1, <1>3, <1>4, <1>5, <1>6 DEF OneChain, SameRing
  <1> QED BY <1>3, <1>4, <1>7, ChangeOne
-----------------------------------------------------------------------------

(* Record updates keep the types. *)
LEMMA ClientUpdate ==
  ASSUME client \in ClientState, NEW i \in Nat, NEW w \in Nat, NEW l \in Nat,
         NEW kn \in SUBSET Nat
  PROVE  [client EXCEPT !.connID = i, !.want = w, !.last = l, !.known = kn]
           \in ClientState
  BY DEF ClientState

(* What a chain is after several of its fields have been set. *)
LEMMA ConnUpdate ==
  ASSUME NEW cn \in ConnState, NEW p \in {"start", "drain", "run", "ended"},
         NEW q \in Seq(Message), NEW s \in Nat,
         NEW dq \in [Slots -> DeadEvent \cup {Nil}], NEW ptr \in Slots
  PROVE  [cn EXCEPT !.pump = p, !.queue = q, !.sequence = s, !.deadQueue = dq,
                    !.deadQueuePointer = ptr] \in ConnState
  BY DEF ConnState

(* The client consumes the event it wants next, or a hello with another     *)
(* connection ID, without seeing a gap.                                     *)
LEMMA ReceiveFollows ==
  ASSUME client \in ClientState, published \in Nat, NEW m \in DeadEvent,
         NEW g \in Nat,
         \/ /\ client.connID = g /\ m.seq = client.want
            /\ m.kind = "hello" => m.connID = g
         \/ /\ m.kind = "hello" /\ m.connID = g /\ g # client.connID
            /\ m.seq = 0
  PROVE  /\ Receive(m) \in ClientState
         /\ Receive(m).connID = g /\ Receive(m).want = m.seq + 1
         /\ Receive(m).sock = client.sock /\ Receive(m).chain = client.chain
  <1>1. m.seq \in Nat /\ m.id \in Nat /\ m.connID \in Nat
    BY DEF DeadEvent
  <1>2. 1 .. published \subseteq Nat
    OBVIOUS
  <1>3. CASE /\ client.connID = g /\ m.seq = client.want
             /\ m.kind = "hello" => m.connID = g
    <2> DEFINE kn == IF m.kind = "event" THEN client.known \cup {m.id}
                                         ELSE client.known
    <2>1. Receive(m) = [client EXCEPT !.connID = g, !.want = m.seq + 1,
                                      !.last = m.id, !.known = kn]
      BY <1>3 DEF Receive
    <2>2. kn \in SUBSET Nat
      BY <1>1 DEF ClientState
    <2>3. m.seq + 1 \in Nat /\ m.id \in Nat
      BY <1>1
    <2> HIDE DEF kn
    <2> DEFINE cl == [client EXCEPT !.connID = g, !.want = m.seq + 1,
                                    !.last = m.id, !.known = kn]
    <2>4. cl \in ClientState
      BY <2>2, <2>3, ClientUpdate
    <2>5. cl.connID = g /\ cl.want = m.seq + 1
          /\ cl.sock = client.sock /\ cl.chain = client.chain
      BY DEF ClientState
    <2>6. Receive(m) = cl
      BY <2>1
    <2> HIDE DEF cl
    <2> QED BY <2>4, <2>5, <2>6
  <1>4. CASE /\ m.kind = "hello" /\ m.connID = g /\ g # client.connID
             /\ m.seq = 0
    <2> DEFINE kn == 1 .. published
    <2>1. Receive(m) = [client EXCEPT !.connID = g, !.want = m.seq + 1,
                                      !.last = m.id, !.known = kn]
      BY <1>4 DEF Receive
    <2>2. kn \in SUBSET Nat
      BY <1>2
    <2>3. m.seq + 1 \in Nat /\ m.id \in Nat
      BY <1>1
    <2> HIDE DEF kn
    <2> DEFINE cl == [client EXCEPT !.connID = g, !.want = m.seq + 1,
                                    !.last = m.id, !.known = kn]
    <2>4. cl \in ClientState
      BY <2>2, <2>3, ClientUpdate
    <2>5. cl.connID = g /\ cl.want = m.seq + 1
          /\ cl.sock = client.sock /\ cl.chain = client.chain
      BY DEF ClientState
    <2>6. Receive(m) = cl
      BY <2>1
    <2> HIDE DEF cl
    <2> QED BY <2>4, <2>5, <2>6
  <1> QED BY <1>3, <1>4

(* The record of a chain to which an event numbered K is added. *)
LEMMA AddOK ==
  ASSUME NEW cn \in ConnState, Ring(cn.deadQueue), K(cn) \in Nat,
         HoldsLast(cn.deadQueue, cn.deadQueuePointer, K(cn)),
         NEW m \in DeadEvent, m.seq = K(cn),
         NEW r \in ConnState,
         r.deadQueue = AddToDeadQueue(cn.deadQueue, cn.deadQueuePointer, m),
         r.deadQueuePointer = Advance(cn.deadQueuePointer)
  PROVE  /\ K(r) = K(cn) + 1
         /\ HoldsLast(r.deadQueue, r.deadQueuePointer, K(r))
         /\ \A i \in Slots : r.deadQueue[i] = m \/ r.deadQueue[i] = cn.deadQueue[i]
  <1>1. m # Nil
    BY WebConnAssumption
  <1>2. cn.deadQueuePointer \in Slots /\ r.deadQueuePointer \in Slots
        /\ cn.deadQueue \in [Slots -> DeadEvent \cup {Nil}]
    BY DEF ConnState
  <1>3. Ring(r.deadQueue) /\ HoldsLast(r.deadQueue, r.deadQueuePointer, K(cn) + 1)
    BY <1>1, <1>2, AddHoldsLast
  <1>4. K(r) = K(cn) + 1
    BY <1>2, <1>3, NextSeqIs DEF K
  <1>5. \A i \in Slots : r.deadQueue[i] = m \/ r.deadQueue[i] = cn.deadQueue[i]
    BY <1>2 DEF AddToDeadQueue
  <1> QED BY <1>3, <1>4, <1>5

(* An event is numbered, kept and written (web_conn.go:463-501). *)
LEMMA SendEventInv ==
  ASSUME Inv, NEW c \in Chains, SendEvent(c)
  PROVE  Inv'
  <1> DEFINE cn == conn[c]
             msg == Numbered(Head(cn.queue), cn.sequence, cn.connID)
             With(p) ==
               [cn EXCEPT !.pump = p, !.queue = Tail(@), !.sequence = @ + 1,
                 !.deadQueue = AddToDeadQueue(@, cn.deadQueuePointer, msg),
                 !.deadQueuePointer = Advance(@)]
  <1>1. /\ conn[c] \in ConnState /\ ChainOK(conn[c]) /\ K(conn[c]) \in Nat
        /\ Ring(conn[c].deadQueue) /\ OtherTypes /\ client \in ClientState
        /\ Listening(c) => ListenOK(conn[c], client)
    BY InvOf
  <1>2. /\ cn.pump = "run" /\ cn.queue # <<>> /\ cn.queue \in Seq(Message)
        /\ Head(cn.queue).kind # "response"
        /\ cn.sequence \in Nat /\ cn.connID \in Nat /\ cn.connID # 0
        /\ cn.deadQueuePointer \in Slots
        /\ cn.deadQueue \in [Slots -> DeadEvent \cup {Nil}]
        /\ cn.sequence = K(cn)
        /\ HoldsLast(cn.deadQueue, cn.deadQueuePointer, K(cn))
    BY <1>1 DEF SendEvent, Received, ConnState, ChainOK
  <1>3. /\ Tail(cn.queue) \in Seq(Message)
        /\ 1 \in 1 .. Len(cn.queue) /\ Head(cn.queue) = cn.queue[1]
        /\ Head(cn.queue) \in Message
        /\ \A i \in 1 .. Len(Tail(cn.queue)) :
             i + 1 \in 1 .. Len(cn.queue) /\ Tail(cn.queue)[i] = cn.queue[i + 1]
    BY <1>2, TailIs
  <1>4. /\ msg \in DeadEvent /\ msg.seq = K(cn) /\ msg.under = cn.connID
        /\ msg.kind = Head(cn.queue).kind /\ msg.connID = Head(cn.queue).connID
        /\ msg.id \in Nat
    BY <1>2, <1>3 DEF Numbered, DeadEvent, Message
  <1>5. msg.kind = "hello" => msg.connID = cn.connID /\ K(cn) = 0
    BY <1>1, <1>3, <1>4 DEF ChainOK
  <1>6. OtherTypes /\ breaks' \in Nat => OtherTypes' /\ nextID' = nextID
    <2>1. log \in [1 .. MaxConnIDs -> Seq(Nat)]
          /\ log' = [log EXCEPT ![cn.connID] = Append(@, msg.id)]
      BY <1>1 DEF OtherTypes, SendEvent
    <2>2. log' \in [1 .. MaxConnIDs -> Seq(Nat)]
      <3> HIDE DEF msg, cn
      <3> QED BY <2>1, <1>4, AppendIs
    <2> QED BY <2>2 DEF OtherTypes, SendEvent
  <1> HIDE DEF msg
  <1>7. ASSUME NEW p \in {"run", "ended"}
        PROVE  /\ With(p) \in ConnState /\ ChainOK(With(p))
               /\ K(With(p)) = K(cn) + 1
               /\ With(p).connID = cn.connID /\ With(p).pump = p
               /\ With(p).sequence = K(cn) + 1
    <2>1. /\ Advance(cn.deadQueuePointer) \in Slots
          /\ AddToDeadQueue(cn.deadQueue, cn.deadQueuePointer, msg)
               \in [Slots -> DeadEvent \cup {Nil}]
      BY <1>2, <1>4, AdvanceIs DEF AddToDeadQueue
    <2>2. With(p) \in ConnState
      <3>1. cn.sequence + 1 \in Nat
        BY <1>2
      <3> QED BY <1>1, <1>3, <2>1, <3>1, ConnUpdate
    <2>3. /\ With(p).connID = cn.connID /\ With(p).pump = p
          /\ With(p).sequence = K(cn) + 1
          /\ With(p).queue = Tail(cn.queue) /\ With(p).index = cn.index
          /\ With(p).reused = cn.reused
          /\ With(p).deadQueue =
               AddToDeadQueue(cn.deadQueue, cn.deadQueuePointer, msg)
          /\ With(p).deadQueuePointer = Advance(cn.deadQueuePointer)
      BY <1>1, <1>2 DEF ConnState
    <2> DEFINE r == With(p)
    <2> HIDE DEF r, With
    <2>4. /\ K(r) = K(cn) + 1
          /\ HoldsLast(r.deadQueue, r.deadQueuePointer, K(r))
          /\ \A i \in Slots : r.deadQueue[i] = msg \/ r.deadQueue[i] = cn.deadQueue[i]
      BY <1>1, <1>2, <1>4, <2>2, <2>3, AddOK DEF r
    <2>5. \A i \in 1 .. Len(r.queue) : r.queue[i].kind # "hello"
      BY <1>1, <1>3, <2>3 DEF ChainOK, r
    <2>6. ChainOK(r)
      BY <1>1, <1>2, <1>4, <1>5, <2>3, <2>4, <2>5 DEF ChainOK, r
    <2> QED BY <2>2, <2>3, <2>4, <2>6 DEF r
  <1>8. CASE conn' = [conn EXCEPT ![c] = With("run")] /\ WriteOK(c, msg)
    <2> DEFINE r == With("run")
    <2>1. /\ r \in ConnState /\ ChainOK(r) /\ K(r) = K(cn) + 1
          /\ r.connID = cn.connID /\ r.pump = "run" /\ r.sequence = K(cn) + 1
      BY <1>7
    <2> HIDE DEF r, With
    <2>2. OtherTypes' /\ nextID' = nextID
      BY <1>1, <1>6, <1>8 DEF WriteOK, OtherTypes
    <2>3. CASE ~Listening(c)
      <3>1. OneChain(c, r)
        BY <1>1, <1>8, <2>1, <2>2, <2>3 DEF OneChain, WriteOK, Listening, r
      <3> QED BY <2>1, <3>1, ChangeOne
    <2>4. CASE Listening(c)
      <3>1. ListenOK(cn, client) /\ client' = Receive(msg)
        BY <1>1, <1>8, <2>4 DEF WriteOK
      <3>2. client.connID # 0 => client.want # 0
        BY DEF Inv, ClientOK
      <3>3. \/ /\ client.connID = cn.connID /\ msg.seq = client.want
               /\ msg.kind = "hello" => msg.connID = cn.connID
            \/ /\ msg.kind = "hello" /\ msg.connID = cn.connID
               /\ cn.connID # client.connID /\ msg.seq = 0
        BY <1>2, <1>4, <1>5, <3>1 DEF ListenOK, Fresh
      <3>4. /\ client' \in ClientState /\ client'.connID = cn.connID
            /\ client'.want = K(cn) + 1 /\ client'.chain = client.chain
            /\ client'.sock = client.sock
        BY <1>1, <1>2, <1>4, <3>1, <3>3, ReceiveFollows DEF OtherTypes
      <3>5. ListenOK(r, client')
        BY <2>1, <3>4 DEF ListenOK
      <3>6. OneChain(c, r)
        BY <1>1, <1>2, <1>8, <2>1, <2>2, <2>4, <3>4, <3>5
           DEF OneChain, Listening, r
      <3> QED BY <2>1, <3>6, ChangeOne
    <2> QED BY <2>3, <2>4
  <1>9. CASE conn' = [conn EXCEPT ![c] = With("ended")] /\ SocketFails(c)
    <2> DEFINE r == With("ended")
    <2>1. /\ r \in ConnState /\ ChainOK(r) /\ K(r) = K(cn) + 1
          /\ r.connID = cn.connID
      BY <1>7
    <2> HIDE DEF r, With
    <2>2. /\ client' \in ClientState /\ breaks' \in Nat
          /\ client'.connID = client.connID /\ client'.want = client.want
          /\ ~Listening(c)'
          /\ \A d \in Chains \ {c} :
               Listening(d)' => Listening(d) /\ client' = client
      BY <1>9, FailsIs
    <2>3. OtherTypes' /\ nextID' = nextID
      BY <1>1, <1>6, <2>2
    <2>4. OneChain(c, r)
      BY <1>1, <1>9, <2>1, <2>2, <2>3 DEF OneChain, r
    <2> QED BY <2>1, <2>4, ChangeOne
  <1>10. \/ conn' = [conn EXCEPT ![c] = With("run")] /\ WriteOK(c, msg)
         \/ conn' = [conn EXCEPT ![c] = With("ended")] /\ SocketFails(c)
    BY DEF SendEvent, msg
  <1> QED BY <1>8, <1>9, <1>10

(* One event of the ring is written again (web_conn.go:600-635). *)
LEMMA DrainStepInv ==
  ASSUME Inv, NEW c \in Chains, DrainStep(c)
  PROVE  Inv'
  <1> DEFINE cn == conn[c]
             msg == cn.deadQueue[cn.drain]
             done == DrainedAfter(cn.deadQueue, cn.deadQueuePointer, cn.drain)
             With(p) == [cn EXCEPT !.pump = p, !.sequence = @ + 1,
                                   !.drain = Advance(cn.drain)]
  <1>1. /\ conn[c] \in ConnState /\ ChainOK(conn[c]) /\ K(conn[c]) \in Nat
        /\ Ring(conn[c].deadQueue) /\ OtherTypes /\ client \in ClientState
        /\ Listening(c) => ListenOK(conn[c], client)
    BY InvOf
  <1>2. /\ cn.pump = "drain" /\ cn.drain \in Slots /\ cn.sequence \in Nat
        /\ cn.connID \in Nat /\ cn.connID # 0
        /\ cn.deadQueuePointer \in Slots
        /\ cn.deadQueue \in [Slots -> DeadEvent \cup {Nil}]
        /\ msg # Nil /\ msg.seq = cn.sequence
        /\ msg.kind = "hello" => msg.connID = cn.connID
        /\ HoldsLast(cn.deadQueue, cn.deadQueuePointer, K(cn))
    BY <1>1 DEF DrainStep, ConnState, ChainOK
  <1>3. msg \in DeadEvent /\ Advance(cn.drain) \in Slots
    BY <1>2, AdvanceIs
  <1>4. IF done THEN msg.seq + 1 = K(cn)
        ELSE /\ cn.deadQueue[Advance(cn.drain)] # Nil
             /\ cn.deadQueue[Advance(cn.drain)].seq = msg.seq + 1
    BY <1>1, <1>2, DrainInOrder
  <1>5. msg.seq < K(cn)
    BY <1>1, <1>2, EntryBelow
  <1> HIDE DEF msg, done
  <1>6. ASSUME NEW p \in {"run", "drain", "ended"},
               p = "run" => done, p = "drain" => ~done
        PROVE  /\ With(p) \in ConnState /\ ChainOK(With(p))
               /\ K(With(p)) = K(cn)
               /\ With(p).connID = cn.connID /\ With(p).pump = p
               /\ With(p).sequence = cn.sequence + 1
    <2>1. /\ With(p) \in ConnState
          /\ With(p).connID = cn.connID /\ With(p).pump = p
          /\ With(p).sequence = cn.sequence + 1
          /\ With(p).queue = cn.queue /\ With(p).index = cn.index
          /\ With(p).reused = cn.reused /\ With(p).drain = Advance(cn.drain)
          /\ With(p).deadQueue = cn.deadQueue
          /\ With(p).deadQueuePointer = cn.deadQueuePointer
      <3>1. cn.sequence + 1 \in Nat /\ cn \in ConnState
        BY <1>1, <1>2
      <3>2. p \in {"none", "new", "start", "drain", "run", "ended"}
        BY <1>6
      <3>3. ASSUME NEW s \in Nat, NEW d \in Slots
            PROVE  /\ [cn EXCEPT !.pump = p, !.sequence = s, !.drain = d]
                         \in ConnState
        <4> HIDE DEF cn
        <4> QED BY <3>1, <3>2 DEF ConnState
      <3>4. With(p) \in ConnState
        BY <3>1, <3>3, <1>3
      <3> QED BY <3>1, <3>4 DEF ConnState
    <2> DEFINE r == With(p)
    <2> HIDE DEF r, With
    <2>2. K(r) = K(cn)
      BY <2>1 DEF K, r
    <2>3. ChainOK(r)
      BY <1>1, <1>2, <1>4, <1>6, <2>1, <2>2 DEF ChainOK, r
    <2> QED BY <2>1, <2>2, <2>3 DEF r
  <1>7. ASSUME NEW p \in {"run", "drain"},
               p = "run" => done, p = "drain" => ~done,
               conn' = [conn EXCEPT ![c] = With(p)], WriteOK(c, msg)
        PROVE  Inv'
    <2> DEFINE r == With(p)
    <2>1. /\ r \in ConnState /\ ChainOK(r) /\ K(r) = K(cn)
          /\ r.connID = cn.connID /\ r.pump = p /\ r.sequence = cn.sequence + 1
      BY <1>6, <1>7
    <2> HIDE DEF r, With
    <2>2. OtherTypes' /\ nextID' = nextID
      BY <1>1, <1>7 DEF WriteOK, OtherTypes, DrainStep
    <2>3. CASE ~Listening(c)
      <3>1. OneChain(c, r)
        BY <1>1, <1>7, <2>1, <2>2, <2>3 DEF OneChain, WriteOK, Listening, r
      <3> QED BY <2>1, <3>1, ChangeOne
    <2>4. CASE Listening(c)
      <3>1. ListenOK(cn, client) /\ client' = Receive(msg)
        BY <1>1, <1>7, <2>4 DEF WriteOK
      <3>2. client.connID = cn.connID /\ msg.seq = client.want
        BY <1>2, <3>1 DEF ListenOK, Fresh
      <3>3. /\ client' \in ClientState /\ client'.connID = cn.connID
            /\ client'.want = cn.sequence + 1 /\ client'.chain = client.chain
            /\ client'.sock = client.sock
        BY <1>1, <1>2, <1>3, <3>1, <3>2, ReceiveFollows DEF OtherTypes
      <3>4. ListenOK(r, client')
        BY <2>1, <3>3 DEF ListenOK
      <3>5. client'.want # 0 /\ client'.want <= K(r)
        BY <1>1, <1>2, <1>5, <2>1, <3>3
      <3>6. OneChain(c, r)
        BY <1>1, <1>2, <1>7, <2>1, <2>2, <2>4, <3>3, <3>4, <3>5
           DEF OneChain, Listening, r
      <3> QED BY <2>1, <3>6, ChangeOne
    <2> QED BY <2>3, <2>4
  <1>8. CASE conn' = [conn EXCEPT ![c] = With("ended")] /\ SocketFails(c)
    <2> DEFINE r == With("ended")
    <2>1. /\ r \in ConnState /\ ChainOK(r) /\ K(r) = K(cn)
          /\ r.connID = cn.connID
      BY <1>6
    <2> HIDE DEF r, With
    <2>2. /\ client' \in ClientState /\ breaks' \in Nat
          /\ client'.connID = client.connID /\ client'.want = client.want
          /\ ~Listening(c)'
          /\ \A d \in Chains \ {c} :
               Listening(d)' => Listening(d) /\ client' = client
      BY <1>8, FailsIs
    <2>3. OtherTypes' /\ nextID' = nextID
      BY <1>1, <2>2 DEF OtherTypes, DrainStep
    <2>4. OneChain(c, r)
      BY <1>1, <1>8, <2>1, <2>2, <2>3 DEF OneChain, r
    <2> QED BY <2>1, <2>4, ChangeOne
  <1>9. \/ /\ conn' = [conn EXCEPT ![c] = With(IF done THEN "run" ELSE "drain")]
            /\ WriteOK(c, msg)
        \/ conn' = [conn EXCEPT ![c] = With("ended")] /\ SocketFails(c)
    BY DEF DrainStep, msg, done
  <1>10. \/ done /\ conn' = [conn EXCEPT ![c] = With("run")] /\ WriteOK(c, msg)
         \/ ~done /\ conn' = [conn EXCEPT ![c] = With("drain")] /\ WriteOK(c, msg)
         \/ conn' = [conn EXCEPT ![c] = With("ended")] /\ SocketFails(c)
    <2> HIDE DEF With, cn
    <2> QED BY <1>9
  <1> HIDE DEF With
  <1> QED BY <1>7, <1>8, <1>10

(* A loss: the ring is cleared and a hello sent (web_conn.go:402-419). *)
LEMMA StartLossInv ==
  ASSUME Inv, NEW c \in Chains, StartLoss(c)
  PROVE  Inv' /\ Full(conn[c].deadQueue)
  <1> DEFINE cn == conn[c]
             hello == Numbered(Hello(nextID), 0, nextID)
             With(p) == [cn EXCEPT !.pump = p,
               !.deadQueue = AddToDeadQueue(EmptyDeadQueue, 0, hello),
               !.deadQueuePointer = Advance(0),
               !.connID = nextID, !.sequence = 1]
  <1>1. /\ conn[c] \in ConnState /\ ChainOK(conn[c]) /\ K(conn[c]) \in Nat
        /\ Ring(conn[c].deadQueue) /\ OtherTypes /\ client \in ClientState
        /\ Listening(c) => ListenOK(conn[c], client)
    BY InvOf
  <1>2. /\ cn.pump = "start" /\ cn.sequence \in Nat /\ cn.sequence # 0
        /\ cn.deadQueuePointer \in Slots /\ cn.reused /\ cn.sequence <= K(cn)
        /\ cn.connID \in Nat /\ cn.connID < nextID
        /\ HoldsLast(cn.deadQueue, cn.deadQueuePointer, K(cn))
        /\ IsInDeadQueue(cn.deadQueue, cn.sequence) = {}
        /\ HasMsgLoss(cn.deadQueue, cn.deadQueuePointer, cn.sequence)
    BY <1>1, InvOf DEF StartLoss, MustClear, ConnState, ChainOK
  <1>3. Full(cn.deadQueue)
    BY <1>1, <1>2, LossMeansFull
  <1>4. /\ ClearDeadQueue(cn.deadQueue) = EmptyDeadQueue
        /\ ClearDeadQueuePointer(cn.deadQueue, cn.deadQueuePointer) = 0
    BY <1>3, ClearFull
  <1>5. /\ nextID \in Nat /\ nextID # 0 /\ nextID' = nextID + 1
        /\ client.connID \in Nat /\ client.connID < nextID
    BY <1>1 DEF OtherTypes, StartLoss, ClientState, Inv, ClientOK
  <1>6. /\ hello \in DeadEvent /\ hello # Nil /\ hello.seq = 0
        /\ hello.kind = "hello" /\ hello.connID = nextID
        /\ hello.under = nextID /\ hello.id \in Nat
    BY <1>5, WebConnAssumption DEF Numbered, Hello, DeadEvent
  <1>7. OtherTypes /\ breaks' \in Nat => OtherTypes'
    <2>1. log \in [1 .. MaxConnIDs -> Seq(Nat)]
          /\ log' = [log EXCEPT ![nextID] = Append(@, hello.id)]
      BY <1>1 DEF OtherTypes, StartLoss
    <2>2. log' \in [1 .. MaxConnIDs -> Seq(Nat)]
      <3> HIDE DEF hello
      <3> QED BY <2>1, <1>6, AppendIs
    <2> QED BY <2>2, <1>5 DEF OtherTypes, StartLoss
  <1>8. \/ conn' = [conn EXCEPT ![c] = With("run")] /\ WriteOK(c, hello)
        \/ conn' = [conn EXCEPT ![c] = With("ended")] /\ SocketFails(c)
    BY <1>4 DEF StartLoss
  <1> HIDE DEF hello
  <1>9. ASSUME NEW p \in {"run", "ended"}
        PROVE  /\ With(p) \in ConnState /\ ChainOK(With(p))
               /\ K(With(p)) = 1
               /\ With(p).connID = nextID /\ With(p).pump = p
               /\ With(p).sequence = 1
    <2>1. /\ Advance(0) \in Slots /\ 0 \in Slots
          /\ AddToDeadQueue(EmptyDeadQueue, 0, hello)
               \in [Slots -> DeadEvent \cup {Nil}]
      BY <1>6, AdvanceIs, EmptyHoldsLast DEF AddToDeadQueue, EmptyDeadQueue
    <2>2. /\ With(p) \in ConnState
          /\ With(p).connID = nextID /\ With(p).pump = p
          /\ With(p).sequence = 1
          /\ With(p).queue = cn.queue /\ With(p).index = cn.index
          /\ With(p).reused = cn.reused
          /\ With(p).deadQueue = AddToDeadQueue(EmptyDeadQueue, 0, hello)
          /\ With(p).deadQueuePointer = Advance(0)
      BY <1>1, <1>5, <2>1 DEF ConnState
    <2> DEFINE r == With(p)
    <2> HIDE DEF r, With
    <2>3. /\ Ring(r.deadQueue) /\ HoldsLast(r.deadQueue, r.deadQueuePointer, 1)
      BY <1>6, <2>1, <2>2, AddHoldsLast, EmptyHoldsLast DEF r
    <2>4. K(r) = 1
      BY <2>1, <2>2, <2>3, NextSeqIs DEF K, r
    <2>5. \A i \in Slots : r.deadQueue[i] = hello \/ r.deadQueue[i] = Nil
      BY <2>1, <2>2 DEF AddToDeadQueue, EmptyDeadQueue, r
    <2>6. \A i \in 1 .. Len(r.queue) : r.queue[i].kind # "hello"
      BY <1>1, <1>2, <2>2 DEF ChainOK, r
    <2>7. ChainOK(r)
      BY <1>1, <1>2, <1>5, <1>6, <2>2, <2>3, <2>4, <2>5, <2>6 DEF ChainOK, r
    <2> QED BY <2>2, <2>4, <2>7 DEF r
  <1>10. CASE conn' = [conn EXCEPT ![c] = With("run")] /\ WriteOK(c, hello)
    <2> DEFINE r == With("run")
    <2>1. /\ r \in ConnState /\ ChainOK(r) /\ K(r) = 1
          /\ r.connID = nextID /\ r.pump = "run" /\ r.sequence = 1
      BY <1>9
    <2> HIDE DEF r, With
    <2>2. OtherTypes'
      BY <1>1, <1>7, <1>10 DEF WriteOK, OtherTypes
    <2>3. CASE ~Listening(c)
      <3>1. OneChain(c, r)
        BY <1>1, <1>2, <1>5, <1>10, <2>1, <2>2, <2>3
           DEF OneChain, WriteOK, Listening, r
      <3> QED BY <1>3, <2>1, <3>1, ChangeOne
    <2>4. CASE Listening(c)
      <3>1. client' = Receive(hello)
        BY <1>10, <2>4 DEF WriteOK
      <3>2. /\ client' \in ClientState /\ client'.connID = nextID
            /\ client'.want = 0 + 1 /\ client'.chain = client.chain
            /\ client'.sock = client.sock
        <4>1. nextID # client.connID /\ published \in Nat
          BY <1>1, <1>5 DEF OtherTypes
        <4> QED BY <1>1, <1>5, <1>6, <3>1, <4>1, ReceiveFollows
      <3>3. ListenOK(r, client')
        BY <2>1, <3>2 DEF ListenOK
      <3>4. OneChain(c, r)
        BY <1>1, <1>2, <1>5, <1>10, <2>1, <2>2, <2>4, <3>2, <3>3
           DEF OneChain, Listening, r
      <3> QED BY <1>3, <2>1, <3>4, ChangeOne
    <2> QED BY <2>3, <2>4
  <1>11. CASE conn' = [conn EXCEPT ![c] = With("ended")] /\ SocketFails(c)
    <2> DEFINE r == With("ended")
    <2>1. r \in ConnState /\ ChainOK(r) /\ K(r) = 1 /\ r.connID = nextID
      BY <1>9
    <2> HIDE DEF r, With
    <2>2. /\ client' \in ClientState /\ breaks' \in Nat
          /\ client'.connID = client.connID /\ client'.want = client.want
          /\ ~Listening(c)'
          /\ \A d \in Chains \ {c} :
               Listening(d)' => Listening(d) /\ client' = client
      BY <1>11, FailsIs
    <2>3. OtherTypes'
      BY <1>1, <1>7, <2>2
    <2>4. OneChain(c, r)
      BY <1>1, <1>2, <1>5, <1>11, <2>1, <2>2, <2>3 DEF OneChain, r
    <2> QED BY <1>3, <2>1, <2>4, ChangeOne
  <1> HIDE DEF With
  <1> QED BY <1>8, <1>10, <1>11
-----------------------------------------------------------------------------

(* What the hub's non-blocking send does to a chain in its index: the ring  *)
(* and the pump are as before, and a hello that was first still is; or the  *)
(* chain is gone, and then no pump was running.                             *)
LEMMA OfferOK ==
  ASSUME NEW cn \in ConnState, ChainOK(cn), cn.index # "none",
         NEW m \in Message, m.kind # "hello"
  PROVE  /\ Offer(cn, m) \in ConnState /\ ChainOK(Offer(cn, m))
         /\ \/ /\ SameRing(Offer(cn, m), cn) /\ K(Offer(cn, m)) = K(cn)
               /\ Offer(cn, m).pump = cn.pump
               /\ cn.queue # <<>> => /\ Offer(cn, m).queue # <<>>
                                     /\ Head(Offer(cn, m).queue) = Head(cn.queue)
            \/ Offer(cn, m).connID = 0 /\ cn.pump = "none"
  <1>1. cn.queue \in Seq(Message) /\ cn.pump # "new"
    BY DEF ConnState, ChainOK
  <1>2. CASE Len(cn.queue) < sendQueueSize
    <2> DEFINE q == Append(cn.queue, m)
               r == [cn EXCEPT !.queue = q]
    <2>1. /\ q \in Seq(Message) /\ q # <<>> /\ Len(q) = Len(cn.queue) + 1
          /\ \A i \in 1 .. Len(cn.queue) : q[i] = cn.queue[i]
          /\ q[Len(cn.queue) + 1] = m
          /\ cn.queue # <<>> => Head(q) = Head(cn.queue)
      BY <1>1, AppendIs
    <2>2. Offer(cn, m) = r
      BY <1>2 DEF Offer
    <2> HIDE DEF q
    <2>3. /\ r \in ConnState /\ SameRing(r, cn) /\ r.pump = cn.pump
          /\ r.index = cn.index /\ r.queue = q
      BY <2>1 DEF ConnState, SameRing
    <2> HIDE DEF r
    <2>4. K(r) = K(cn)
      BY <2>3 DEF K, SameRing
    <2>5. Len(cn.queue) \in Nat
      BY <1>1
    <2>6. ASSUME NEW i \in 1 .. Len(q), q[i].kind = "hello"
          PROVE  /\ i \in 1 .. Len(cn.queue) /\ q[i] = cn.queue[i]
      BY <2>1, <2>5, <2>6
    <2>7. ChainOK(r)
      BY <1>1, <2>3, <2>4, <2>6 DEF ChainOK, SameRing
    <2> QED BY <2>1, <2>2, <2>3, <2>4, <2>7
  <1>3. CASE ~(Len(cn.queue) < sendQueueSize) /\ cn.pump = "none"
    <2>1. Offer(cn, m) = FreeConn
      BY <1>3 DEF Offer
    <2> QED BY <1>3, <2>1, FreeOK DEF FreeConn
  <1>4. CASE ~(Len(cn.queue) < sendQueueSize) /\ cn.pump # "none"
    <2> DEFINE r == [cn EXCEPT !.open = FALSE, !.index = "none"]
    <2>1. Offer(cn, m) = r
      BY <1>4 DEF Offer
    <2>2. /\ r \in ConnState /\ SameRing(r, cn) /\ r.pump = cn.pump
          /\ r.index = "none" /\ r.queue = cn.queue
      BY DEF ConnState, SameRing
    <2> HIDE DEF r
    <2>3. K(r) = K(cn)
      BY <2>2 DEF K, SameRing
    <2>4. ChainOK(r)
      BY <1>1, <2>2, <2>3 DEF ChainOK, SameRing
    <2> QED BY <2>1, <2>2, <2>3, <2>4
  <1> QED BY <1>2, <1>3, <1>4

(* The hub's directMsg case (web_hub.go:512-522). *)
LEMMA DirectMsgInv ==
  ASSUME Inv, NEW c \in Chains, DirectMsg(c)
  PROVE  Inv'
  <1> DEFINE r == Offer(conn[c], Response)
  <1>1. /\ conn[c] \in ConnState /\ ChainOK(conn[c]) /\ K(conn[c]) \in Nat
        /\ Ring(conn[c].deadQueue) /\ OtherTypes /\ client \in ClientState
        /\ Listening(c) => ListenOK(conn[c], client)
    BY InvOf
  <1>2. /\ conn[c].index # "none" /\ Listening(c)
        /\ conn' = [conn EXCEPT ![c] = r]
    BY DEF DirectMsg
  <1>3. Response \in Message /\ Response.kind # "hello"
    BY DEF Response, Message
  <1>4. /\ r \in ConnState /\ ChainOK(r)
        /\ \/ /\ SameRing(r, conn[c]) /\ K(r) = K(conn[c])
              /\ r.pump = conn[c].pump
              /\ conn[c].queue # <<>> => /\ r.queue # <<>>
                                         /\ Head(r.queue) = Head(conn[c].queue)
           \/ r.connID = 0 /\ conn[c].pump = "none"
    BY <1>1, <1>2, <1>3, OfferOK
  <1> HIDE DEF r
  <1>5. conn[c].pump # "none"
    BY <1>1, <1>2 DEF ListenOK
  <1>6. ListenOK(r, client)
    BY <1>1, <1>2, <1>4, <1>5 DEF ListenOK, Fresh, SameRing
  <1>7. UNCHANGED client /\ OtherTypes' /\ nextID' = nextID
    BY <1>1 DEF DirectMsg, OtherTypes
  <1>8. OneChain(c, r)
    BY <1>1, <1>2, <1>4, <1>5, <1>6, <1>7 DEF OneChain, Listening, SameRing
  <1> QED BY <1>4, <1>8, ChangeOne

(* The hub's broadcast case (web_hub.go:523-552). *)
LEMMA BroadcastInv ==
  ASSUME Inv, Broadcast
  PROVE  Inv'
  <1> DEFINE m == Event(published')
  <1>1. /\ published \in Nat /\ published' = published + 1
        /\ UNCHANGED <<client, nextID, log, breaks, encodeErrors, responses>>
        /\ missed' \subseteq Nat
    BY DEF Inv, TypeOK, Broadcast, counters
  <1>2. m \in Message /\ m.kind # "hello"
    BY <1>1 DEF Event, Message
  <1>3. conn' = [c \in Chains |-> IF Indexed(c) THEN Offer(conn[c], m) ELSE conn[c]]
    BY DEF Broadcast
  <1> HIDE DEF m
  <1>4. ASSUME NEW c \in Chains
        PROVE  /\ conn'[c] \in ConnState /\ ChainOK(conn'[c])
               /\ \/ /\ SameRing(conn'[c], conn[c]) /\ K(conn'[c]) = K(conn[c])
                     /\ conn'[c].pump = conn[c].pump
                     /\ conn[c].queue # <<>> =>
                          /\ conn'[c].queue # <<>>
                          /\ Head(conn'[c].queue) = Head(conn[c].queue)
                  \/ conn'[c].connID = 0 /\ conn[c].pump = "none"
    <2>1. conn[c] \in ConnState /\ ChainOK(conn[c])
      BY InvOf
    <2>2. CASE conn[c].index = "none"
      <3>1. conn'[c] = conn[c]
        BY <1>3, <2>2 DEF Indexed
      <3> QED BY <2>1, <3>1 DEF SameRing
    <2>3. CASE conn[c].index # "none"
      <3>1. conn'[c] = Offer(conn[c], m)
        BY <1>3, <2>3 DEF Indexed
      <3> QED BY <1>2, <2>1, <2>3, <3>1, OfferOK
    <2> QED BY <2>2, <2>3
  <1>5. TypeOK'
    BY <1>1, <1>3, <1>4 DEF Inv, TypeOK
  <1>6. ChainsOK'
    BY <1>4 DEF ChainsOK
  <1>7. \A c \in Chains : conn'[c].connID \in {conn[c].connID, 0}
    BY <1>4 DEF SameRing
  <1>8. nextID' = nextID /\ nextID \in Nat /\ nextID > 0 /\ client' = client
    BY <1>1 DEF Inv, TypeOK
  <1>9. IDsOK'
    BY <1>7, <1>8 DEF Inv, IDsOK
  <1>10. ClientOK'
    <2>1. client.connID < nextID /\ (client.connID # 0 => client.want # 0)
      BY DEF Inv, ClientOK
    <2>2. ASSUME NEW c \in Chains, client.connID # 0,
                 conn'[c].connID = client.connID
          PROVE  client.want <= K(conn'[c])
      BY <1>4, <2>2 DEF Inv, ClientOK, SameRing
    <2>3. ASSUME NEW c \in Chains, Listening(c)
          PROVE  ListenOK(conn'[c], client)
      <3>1. ListenOK(conn[c], client)
        BY <2>3 DEF Inv, ClientOK
      <3> QED BY <1>4, <3>1 DEF ListenOK, Fresh, SameRing
    <2> QED BY <1>8, <2>1, <2>2, <2>3 DEF ClientOK, Listening
  <1> QED BY <1>5, <1>6, <1>9, <1>10 DEF Inv

(* The client's socket breaks, and the client notices. *)
LEMMA ClientSocketInv ==
  ASSUME Inv, SocketBreaks \/ ClientNotices
  PROVE  Inv'
  <1>1. /\ UNCHANGED <<conn, nextID, published, missed, log, encodeErrors,
                      responses>>
        /\ client' \in ClientState /\ breaks' \in Nat
        /\ client'.connID = client.connID /\ client'.want = client.want
        /\ client'.sock # "up"
    BY DEF Inv, TypeOK, SocketBreaks, ClientNotices, ClientState, counters
  <1>2. TypeOK'
    BY <1>1 DEF Inv, TypeOK
  <1>3. ChainsOK' /\ IDsOK'
    BY <1>1 DEF Inv, ChainsOK, IDsOK
  <1>4. ClientOK'
    BY <1>1 DEF Inv, ClientOK, Listening
  <1> QED BY <1>2, <1>3, <1>4 DEF Inv

-----------------------------------------------------------------------------

(* The invariant holds before the first connection. *)
LEMMA InitInv == Init => Inv
  <1> SUFFICES ASSUME Init PROVE Inv
    OBVIOUS
  <1>1. FreeConn \in ConnState /\ ChainOK(FreeConn) /\ FreeConn.connID = 0
    BY FreeOK DEF FreeConn
  <1>2. \A c \in Chains : conn[c] = FreeConn
    BY DEF Init
  <1>3. (CHOOSE c \in Chains : TRUE) \in Chains
    BY WebConnAssumption
  <1>4. log \in [1 .. MaxConnIDs -> Seq(Nat)]
    BY DEF Init
  <1>5. client \in ClientState /\ client.connID = 0 /\ client.sock = "down"
    BY <1>3 DEF Init, ClientState
  <1>6. TypeOK
    BY <1>1, <1>4, <1>5 DEF Init, TypeOK
  <1>7. ChainsOK /\ IDsOK /\ ClientOK
    BY <1>1, <1>2, <1>5 DEF Init, ChainsOK, IDsOK, ClientOK, Listening
  <1> QED BY <1>6, <1>7 DEF Inv

(* The inductive step, one case per action. *)
LEMMA NextInv ==
  ASSUME MaxEncodeErrors = 0, Inv, [Next]_vars
  PROVE  Inv'
  <1>1. ASSUME NEW c \in Chains, Connect(c)
        PROVE  Inv'
    BY <1>1, ConnectFreshInv, ConnectResumeInv DEF Connect
  <1>2. ASSUME NEW c \in Chains, HubStep(c)
        PROVE  Inv'
    BY <1>2, RegisterInv, UnregisterInv DEF HubStep
  <1>3. ASSUME NEW c \in Chains, EncodeFails(c)
        PROVE  Inv'
    BY <1>3 DEF EncodeFails, Inv, TypeOK
  <1>4. ASSUME NEW c \in Chains, PumpStep(c)
        PROVE  Inv'
    BY <1>3, <1>4, StartLiveInv, StartDrainInv, StartLossInv, DrainStepInv,
       SkipSendInv, SendEventInv, SendResponseInv, PumpEndsInv DEF PumpStep
  <1>5. ASSUME NEW c \in Chains, PumpEnds(c)
        PROVE  Inv'
    BY <1>5, PumpEndsInv
  <1>6. ASSUME NEW c \in Chains, DirectMsg(c)
        PROVE  Inv'
    BY <1>6, DirectMsgInv
  <1>7. CASE UNCHANGED vars
    BY <1>7 DEF vars, Inv, TypeOK, ChainsOK, IDsOK, ClientOK, Listening
  <1> QED BY <1>1, <1>2, <1>4, <1>5, <1>6, <1>7, BroadcastInv,
             ClientSocketInv DEF Next

(* The properties that the runs check follow from the invariant. *)
LEMMA InvMeans ==
  ASSUME Inv
  PROVE  TypeOK /\ DeadQueueExact /\ DeadQueueCleared /\ ClearsOnlyFull
  <1>1. DeadQueueExact /\ DeadQueueCleared
    BY DEF Inv, ChainsOK, ChainOK, K, DeadQueueExact, DeadQueueCleared
  <1>2. ASSUME NEW c \in Chains, MustClear(c)
        PROVE  Full(conn[c].deadQueue)
    <2>1. /\ conn[c] \in ConnState /\ ChainOK(conn[c])
          /\ K(conn[c]) \in Nat /\ Ring(conn[c].deadQueue)
      BY InvOf
    <2>2. /\ conn[c].sequence \in Nat /\ conn[c].deadQueuePointer \in Slots
          /\ conn[c].sequence <= K(conn[c])
          /\ HoldsLast(conn[c].deadQueue, conn[c].deadQueuePointer, K(conn[c]))
      BY <1>2, <2>1 DEF MustClear, ChainOK, ConnState
    <2> QED BY <1>2, <2>1, <2>2, LossMeansFull DEF MustClear
  <1> QED BY <1>1, <1>2 DEF Inv, ClearsOnlyFull

(* Type correctness of the reliable websocket. *)
THEOREM TypeCorrect ==
  ASSUME MaxEncodeErrors = 0
  PROVE  Spec => []TypeOK
  <1>1. Init => Inv
    BY InitInv
  <1>2. Inv /\ [Next]_vars => Inv'
    BY NextInv
  <1>3. Inv => TypeOK
    BY DEF Inv
  <1> QED BY <1>1, <1>2, <1>3, PTL DEF Spec

(* For every queue size and any number of reconnections, the dead queue of  *)
(* every WebConn holds exactly the last events numbered (web_conn.go:543).  *)
THEOREM DeadQueueIsExact ==
  ASSUME MaxEncodeErrors = 0
  PROVE  Spec => []DeadQueueExact
  <1>1. Init => Inv
    BY InitInv
  <1>2. Inv /\ [Next]_vars => Inv'
    BY NextInv
  <1>3. Inv => DeadQueueExact
    BY InvMeans
  <1> QED BY <1>1, <1>2, <1>3, PTL DEF Spec

(* No event of an earlier connection ID is ever left in a dead queue, so    *)
(* none can be sent again under a later one (web_conn.go:404-408).          *)
THEOREM DeadQueueIsCleared ==
  ASSUME MaxEncodeErrors = 0
  PROVE  Spec => []DeadQueueCleared
  <1>1. Init => Inv
    BY InitInv
  <1>2. Inv /\ [Next]_vars => Inv'
    BY NextInv
  <1>3. Inv => DeadQueueCleared
    BY InvMeans
  <1> QED BY <1>1, <1>2, <1>3, PTL DEF Spec

(* The write pump declares a loss only on a full ring, where the early      *)
(* return of clearDeadQueue (web_conn.go:592) is not taken.                 *)
THEOREM LossOnlyWhenFull ==
  ASSUME MaxEncodeErrors = 0
  PROVE  Spec => []ClearsOnlyFull
  <1>1. Init => Inv
    BY InitInv
  <1>2. Inv /\ [Next]_vars => Inv'
    BY NextInv
  <1>3. Inv => ClearsOnlyFull
    BY InvMeans
  <1> QED BY <1>1, <1>2, <1>3, PTL DEF Spec

-----------------------------------------------------------------------------

(* Only events have an id. *)
MsgOK(m) == m.id \in 0 .. MaxEvents /\ (m.kind # "event" => m.id = 0)

QueueOK(q) == \A i \in 1 .. Len(q) : MsgOK(q[i])

(* The log of a chain has what its WebConns have numbered, and its ring the *)
(* end of the log.                                                          *)
Logged(cn, lg) ==
  /\ Len(lg) = K(cn)
  /\ \A i \in Slots : cn.deadQueue[i] # Nil =>
       /\ cn.deadQueue[i].id = lg[cn.deadQueue[i].seq + 1]
       /\ cn.deadQueue[i].kind # "event" => cn.deadQueue[i].id = 0

(* A chain whose channel the hub feeds, or will when it is registered. *)
Alive(cn) == cn.index # "none" \/ cn.pump = "new"

LogOK ==
  /\ published <= MaxEvents /\ nextID <= MaxConnIDs + 1
  /\ \A g \in 1 .. MaxConnIDs : g >= nextID => log[g] = <<>>
  /\ \A c \in Chains :
       /\ conn[c].connID # 0 => Logged(conn[c], log[conn[c].connID])
       /\ QueueOK(conn[c].queue)
       /\ Alive(conn[c]) => conn[c].connID # 0

Queued(q, e) == \E i \in 1 .. Len(q) : q[i].id = e

Unseen(lg, want, e) == \E s \in want + 1 .. Len(lg) : lg[s] = e

(* What chain cn, whose connection ID the client holds, still owes to it:   *)
(* an event the client does not know is in the channel, or numbered and not *)
(* yet consumed.                                                            *)
Owes(cn, lg, cl, pub, mis) ==
  \A e \in 1 .. pub : \/ e \in Droppable \/ e \in mis \/ e \in cl.known
                      \/ Queued(cn.queue, e) \/ Unseen(lg, cl.want, e)

Covered ==
  \A c \in Chains :
    client.connID # 0 /\ conn[c].connID = client.connID /\ Alive(conn[c]) =>
      Owes(conn[c], log[client.connID], client, published, missed)

StreamInv == Inv /\ LogOK /\ Covered

-----------------------------------------------------------------------------

(* Steps that number nothing and let the client consume nothing.            *)

KeepsRing(r, cn) ==
  /\ r.connID = cn.connID /\ r.deadQueue = cn.deadQueue
  /\ r.deadQueuePointer = cn.deadQueuePointer

KeepsQueue(r, q) ==
  /\ QueueOK(r)
  /\ \A i \in 1 .. Len(q) : q[i].id \in Droppable \cup {0} \/ Queued(r, q[i].id)

Quiet(r, cn) ==
  \/ KeepsRing(r, cn) /\ KeepsQueue(r.queue, cn.queue) /\ (Alive(r) => Alive(cn))
  \/ r = FreeConn
  \/ /\ r = [FreeConn EXCEPT !.pump = "new", !.connID = nextID]
     /\ nextID' = nextID + 1

QuietStep ==
  /\ UNCHANGED <<log, published, missed>>
  /\ nextID' \in {nextID, nextID + 1} /\ nextID' <= MaxConnIDs + 1
  /\ client'.connID = client.connID /\ client'.want = client.want
  /\ client'.last = client.last /\ client'.known = client.known
  /\ \A c \in Chains : Quiet(conn'[c], conn[c])

LEMMA FreeFacts ==
  /\ FreeConn.connID = 0 /\ FreeConn.queue = <<>> /\ ~Alive(FreeConn)
  /\ K(FreeConn) = 0 /\ \A i \in Slots : FreeConn.deadQueue[i] = Nil
<1>1. /\ FreeConn.connID = 0 /\ FreeConn.queue = <<>> /\ ~Alive(FreeConn)
      /\ FreeConn.deadQueue = EmptyDeadQueue /\ FreeConn.deadQueuePointer = 0
  BY DEF FreeConn, Alive
<1>2. NextSeq(EmptyDeadQueue, 0) = 0
  BY EmptyHoldsLast, NextSeqIs
<1>3. \A i \in Slots : EmptyDeadQueue[i] = Nil
  BY DEF EmptyDeadQueue
<1> QED  BY <1>1, <1>2, <1>3 DEF K

LEMMA NewFacts ==
  ASSUME NEW r, NEW g, r = [FreeConn EXCEPT !.pump = "new", !.connID = g]
  PROVE  /\ r.connID = g /\ r.queue = <<>> /\ K(r) = 0
         /\ \A i \in Slots : r.deadQueue[i] = Nil
<1>1. /\ r.connID = g /\ r.queue = <<>>
      /\ r.deadQueue = FreeConn.deadQueue
      /\ r.deadQueuePointer = FreeConn.deadQueuePointer
  BY DEF FreeConn
<1> QED  BY <1>1, FreeFacts DEF K

(* The types that the following uses. *)
LEMMA Types ==
  ASSUME Inv
  PROVE  /\ log \in [1 .. MaxConnIDs -> Seq(Nat)] /\ MaxConnIDs \in Nat
         /\ nextID \in Nat \ {0} /\ published \in Nat /\ missed \subseteq Nat
         /\ client.connID \in Nat /\ client.want \in Nat /\ client.known \subseteq Nat
         /\ client.connID < nextID
         /\ \A c \in Chains : /\ conn[c] \in ConnState /\ conn[c].connID \in Nat
                              /\ conn[c].connID < nextID /\ K(conn[c]) \in Nat
                              /\ conn[c].queue \in Seq(Message)
                              /\ Len(conn[c].queue) \in Nat
<1>1. /\ log \in [1 .. MaxConnIDs -> Seq(Nat)]
      /\ nextID \in Nat \ {0} /\ published \in Nat /\ missed \subseteq Nat
      /\ client.connID < nextID /\ client \in ClientState
      /\ \A c \in Chains : conn[c] \in ConnState /\ conn[c].connID < nextID
  BY DEF Inv, TypeOK, IDsOK, ClientOK
<1>2. client.connID \in Nat /\ client.want \in Nat /\ client.known \subseteq Nat
  BY <1>1 DEF ClientState
<1>3. \A c \in Chains : /\ conn[c].connID \in Nat /\ K(conn[c]) \in Nat
                        /\ conn[c].queue \in Seq(Message) /\ Len(conn[c].queue) \in Nat
  BY <1>1, KNat DEF ConnState
<1> QED  BY <1>1, <1>2, <1>3, WebConnAssumption

LEMMA QuietRefines ==
  ASSUME StreamInv, QuietStep
  PROVE  LogOK' /\ Covered' /\ Stream!Next
<1>1. Stream!Next
  BY DEF QuietStep, Stream!Next
<1>2. LogOK'
  <2>1. published' <= MaxEvents /\ nextID' <= MaxConnIDs + 1
    BY DEF QuietStep, StreamInv, LogOK
  <2>2. \A g \in 1 .. MaxConnIDs : g >= nextID' => log'[g] = <<>>
    BY Types DEF QuietStep, StreamInv, LogOK
  <2>3. ASSUME NEW c \in Chains
        PROVE  /\ conn'[c].connID # 0 => Logged(conn'[c], log'[conn'[c].connID])
               /\ QueueOK(conn'[c].queue)
               /\ Alive(conn'[c]) => conn'[c].connID # 0
    <3>1. CASE /\ KeepsRing(conn'[c], conn[c]) /\ KeepsQueue(conn'[c].queue, conn[c].queue)
               /\ Alive(conn'[c]) => Alive(conn[c])
      BY <3>1 DEF KeepsRing, KeepsQueue, QuietStep, StreamInv, LogOK, Logged, K
    <3>2. CASE conn'[c] = FreeConn
      BY <3>2, FreeFacts DEF QueueOK
    <3>3. CASE /\ conn'[c] = [FreeConn EXCEPT !.pump = "new", !.connID = nextID]
               /\ nextID' = nextID + 1
      <4>1. /\ conn'[c].connID = nextID /\ conn'[c].queue = <<>> /\ K(conn'[c]) = 0
            /\ \A i \in Slots : conn'[c].deadQueue[i] = Nil
        BY <3>3, NewFacts
      <4>2. nextID \in 1 .. MaxConnIDs /\ log'[nextID] = <<>> /\ nextID # 0
        BY <3>3, Types DEF QuietStep, StreamInv, LogOK
      <4> QED  BY <4>1, <4>2, EmptySeq DEF QueueOK, Logged
    <3> QED  BY <3>1, <3>2, <3>3 DEF QuietStep, Quiet
  <2> QED  BY <2>1, <2>2, <2>3 DEF LogOK
<1>3. Covered'
  <2> SUFFICES ASSUME NEW c \in Chains, client.connID # 0,
                      conn'[c].connID = client.connID, Alive(conn'[c]),
                      NEW e \in 1 .. published
               PROVE  \/ e \in Droppable \/ e \in missed \/ e \in client.known
                      \/ Queued(conn'[c].queue, e)
                      \/ Unseen(log[client.connID], client.want, e)
    BY DEF Covered, Owes, QuietStep
  <2>1. /\ KeepsRing(conn'[c], conn[c]) /\ KeepsQueue(conn'[c].queue, conn[c].queue)
        /\ Alive(conn[c])
    <3>1. conn'[c].connID # 0 /\ conn'[c].connID # nextID
      BY Types DEF StreamInv
    <3>2. conn'[c] # FreeConn
      BY <3>1, FreeFacts
    <3>3. conn'[c] # [FreeConn EXCEPT !.pump = "new", !.connID = nextID]
      BY <3>1, NewFacts
    <3> QED  BY <3>2, <3>3 DEF QuietStep, Quiet
  <2>2. \/ e \in Droppable \/ e \in missed \/ e \in client.known
        \/ Queued(conn[c].queue, e) \/ Unseen(log[client.connID], client.want, e)
    BY <2>1 DEF StreamInv, Covered, Owes, KeepsRing
  <2>3. ASSUME Queued(conn[c].queue, e)
        PROVE  e \in Droppable \/ Queued(conn'[c].queue, e)
    BY <2>1, <2>3 DEF Queued, KeepsQueue
  <2> QED  BY <2>2, <2>3
<1> QED  BY <1>1, <1>2, <1>3

(* One chain becomes r, and nothing else of what QuietStep mentions changes. *)
LEMMA OneQuiet ==
  ASSUME StreamInv, NEW c \in Chains, NEW r, conn' = [conn EXCEPT ![c] = r],
         Quiet(r, conn[c]),
         UNCHANGED <<log, published, missed>>,
         nextID' \in {nextID, nextID + 1}, nextID' <= MaxConnIDs + 1,
         client'.connID = client.connID, client'.want = client.want,
         client'.last = client.last, client'.known = client.known
  PROVE  LogOK' /\ Covered' /\ Stream!Next
<1>1. conn'[c] = r /\ \A d \in Chains \ {c} : conn'[d] = conn[d]
  BY DEF StreamInv, Inv, TypeOK
<1>2. ASSUME NEW d \in Chains PROVE Quiet(conn[d], conn[d])
  BY DEF Quiet, KeepsRing, KeepsQueue, StreamInv, LogOK, Queued
<1>3. \A d \in Chains : Quiet(conn'[d], conn[d])
  BY <1>1, <1>2
<1> QED  BY <1>3, QuietRefines DEF QuietStep

(* The same, if only pump, index and the like change, or the channel. *)
LEMMA OneKeeps ==
  ASSUME StreamInv, NEW c \in Chains, NEW r, conn' = [conn EXCEPT ![c] = r],
         KeepsRing(r, conn[c]), KeepsQueue(r.queue, conn[c].queue),
         Alive(r) => Alive(conn[c]),
         UNCHANGED <<log, nextID, published, missed>>,
         client'.connID = client.connID, client'.want = client.want,
         client'.last = client.last, client'.known = client.known
  PROVE  LogOK' /\ Covered' /\ Stream!Next
<1>1. nextID' \in {nextID, nextID + 1} /\ nextID' <= MaxConnIDs + 1
  BY DEF StreamInv, LogOK
<1> QED  BY <1>1, OneQuiet DEF Quiet

(* A channel that stays as it is, and one without its first message. *)
LEMMA SameQueue ==
  ASSUME StreamInv, NEW c \in Chains
  PROVE  KeepsQueue(conn[c].queue, conn[c].queue)
  BY DEF KeepsQueue, StreamInv, LogOK, Queued

LEMMA TailQueue ==
  ASSUME StreamInv, NEW c \in Chains, conn[c].queue # <<>>
  PROVE  /\ QueueOK(Tail(conn[c].queue)) /\ MsgOK(Head(conn[c].queue))
         /\ \A e : Queued(conn[c].queue, e)
                     => e = Head(conn[c].queue).id \/ Queued(Tail(conn[c].queue), e)
<1> DEFINE q == conn[c].queue
<1>1. q \in Seq(Message) /\ QueueOK(q)
  BY Types DEF StreamInv, LogOK
<1>2. /\ Len(Tail(q)) = Len(q) - 1 /\ Len(q) \in Nat
      /\ \A i \in 1 .. Len(Tail(q)) : i + 1 \in 1 .. Len(q) /\ Tail(q)[i] = q[i + 1]
      /\ 1 \in 1 .. Len(q) /\ Head(q) = q[1]
  BY <1>1, TailIs
<1> HIDE DEF q
<1>3. QueueOK(Tail(q)) /\ MsgOK(Head(q))
  BY <1>1, <1>2 DEF QueueOK
<1>4. ASSUME NEW i \in 1 .. Len(q), i # 1
      PROVE  i - 1 \in 1 .. Len(Tail(q)) /\ Tail(q)[i - 1] = q[i]
  <2>1. i - 1 \in 1 .. Len(Tail(q)) /\ (i - 1) + 1 = i
    BY <1>2, <1>4
  <2> QED  BY <1>2, <2>1
<1>5. ASSUME NEW e, Queued(q, e) PROVE e = Head(q).id \/ Queued(Tail(q), e)
  <2>1. PICK i \in 1 .. Len(q) : q[i].id = e
    BY <1>5 DEF Queued
  <2>2. CASE i = 1
    BY <1>2, <2>1, <2>2
  <2>3. CASE i # 1
    <3>1. i - 1 \in 1 .. Len(Tail(q)) /\ Tail(q)[i - 1].id = e
      BY <1>4, <2>1, <2>3
    <3> QED  BY <3>1 DEF Queued
  <2> QED  BY <2>2, <2>3
<1> QED  BY <1>3, <1>5 DEF q

(* The first message is dropped on purpose, or is no event. *)
LEMMA TailKept ==
  ASSUME StreamInv, NEW c \in Chains, conn[c].queue # <<>>,
         Head(conn[c].queue).id \in Droppable \cup {0}
  PROVE  KeepsQueue(Tail(conn[c].queue), conn[c].queue)
<1>1. ASSUME NEW i \in 1 .. Len(conn[c].queue)
      PROVE  \/ conn[c].queue[i].id \in Droppable \cup {0}
             \/ Queued(Tail(conn[c].queue), conn[c].queue[i].id)
  <2>1. Queued(conn[c].queue, conn[c].queue[i].id)
    BY DEF Queued
  <2> QED  BY <2>1, TailQueue
<1> QED  BY <1>1, TailQueue DEF KeepsQueue

(* A message is appended. *)
LEMMA AppendQueue ==
  ASSUME StreamInv, NEW c \in Chains, NEW m \in Message, MsgOK(m)
  PROVE  /\ KeepsQueue(Append(conn[c].queue, m), conn[c].queue)
         /\ Queued(Append(conn[c].queue, m), m.id)
<1> DEFINE q == conn[c].queue
           r == Append(q, m)
<1>1. q \in Seq(Message) /\ QueueOK(q) /\ Len(q) \in Nat
  BY Types DEF StreamInv, LogOK
<1>2. /\ Len(r) = Len(q) + 1 /\ \A i \in 1 .. Len(q) : r[i] = q[i]
      /\ r[Len(q) + 1] = m
  BY <1>1, AppendIs
<1> HIDE DEF q, r
<1>3. QueueOK(r)
  BY <1>1, <1>2 DEF QueueOK
<1>4. \A i \in 1 .. Len(q) : i \in 1 .. Len(r) /\ r[i].id = q[i].id
  BY <1>1, <1>2
<1>5. Len(q) + 1 \in 1 .. Len(r)
  BY <1>1, <1>2
<1> QED  BY <1>2, <1>3, <1>4, <1>5 DEF KeepsQueue, Queued, q, r

-----------------------------------------------------------------------------

(* The steps. *)

LEMMA StartRefines ==
  ASSUME StreamInv, NEW c \in Chains, StartLive(c) \/ StartDrain(c)
  PROVE  LogOK' /\ Covered' /\ Stream!Next
<1>1. conn[c] \in ConnState
  BY Types DEF StreamInv
<1>2. UNCHANGED <<client, nextID, published, missed, log>>
  BY DEF StartLive, StartDrain
<1>3. PICK r : /\ conn' = [conn EXCEPT ![c] = r]
               /\ KeepsRing(r, conn[c]) /\ r.queue = conn[c].queue
               /\ r.index = conn[c].index /\ r.pump # "new"
  <2>1. CASE StartLive(c)
    <3> DEFINE x == [conn[c] EXCEPT !.pump = "run"]
    <3>1. conn' = [conn EXCEPT ![c] = x]
      BY <2>1 DEF StartLive
    <3>2. /\ KeepsRing(x, conn[c]) /\ x.queue = conn[c].queue
          /\ x.index = conn[c].index /\ x.pump # "new"
      BY <1>1 DEF ConnState, KeepsRing
    <3> HIDE DEF x
    <3> QED  BY <3>1, <3>2
  <2>2. CASE StartDrain(c)
    <3>1. PICK p \in {"drain", "run"},
               i \in IsInDeadQueue(conn[c].deadQueue, conn[c].sequence) :
            conn' = [conn EXCEPT ![c].pump = p, ![c].drain = i]
      BY <2>2 DEF StartDrain
    <3> DEFINE x == [conn[c] EXCEPT !.pump = p, !.drain = i]
    <3>2. conn' = [conn EXCEPT ![c] = x]
      BY <3>1
    <3>3. /\ KeepsRing(x, conn[c]) /\ x.queue = conn[c].queue
          /\ x.index = conn[c].index /\ x.pump # "new"
      BY <1>1 DEF ConnState, KeepsRing
    <3> HIDE DEF x
    <3> QED  BY <3>2, <3>3
  <2> QED  BY <2>1, <2>2
<1>4. Alive(r) => Alive(conn[c])
  BY <1>3 DEF Alive
<1> QED  BY <1>2, <1>3, <1>4, SameQueue, OneKeeps

LEMMA RegisterRefines ==
  ASSUME StreamInv, NEW c \in Chains, Register(c)
  PROVE  LogOK' /\ Covered' /\ Stream!Next
<1>1. conn[c] \in ConnState /\ conn[c].connID \in Nat
  BY Types DEF StreamInv
<1>2. UNCHANGED <<client, nextID, published, missed, log>> /\ conn[c].pump = "new"
  BY DEF Register
<1> DEFINE q == IF conn[c].reused THEN conn[c].queue
                ELSE Append(conn[c].queue, Hello(conn[c].connID))
           x == [conn[c] EXCEPT !.pump = "start", !.index = "active", !.queue = q]
<1>3. conn' = [conn EXCEPT ![c] = x]
  BY DEF Register
<1>4. KeepsQueue(q, conn[c].queue)
  <2>1. Hello(conn[c].connID) \in Message /\ MsgOK(Hello(conn[c].connID))
    BY <1>1, WebConnAssumption DEF Hello, Message, MsgOK
  <2> QED  BY <2>1, SameQueue, AppendQueue
<1> HIDE DEF q
<1>5. KeepsRing(x, conn[c]) /\ x.queue = q
  BY <1>1 DEF ConnState, KeepsRing
<1>6. Alive(conn[c])
  BY <1>2 DEF Alive
<1> HIDE DEF x
<1> QED  BY <1>2, <1>3, <1>4, <1>5, <1>6, OneKeeps

LEMMA UnregisterRefines ==
  ASSUME StreamInv, NEW c \in Chains, Unregister(c) \/ RemoveInactive(c)
  PROVE  LogOK' /\ Covered' /\ Stream!Next
<1>1. conn[c] \in ConnState
  BY Types DEF StreamInv
<1>2. UNCHANGED <<client, nextID, published, missed, log>>
  BY DEF Unregister, RemoveInactive
<1>3. CASE conn' = [conn EXCEPT ![c] = FreeConn]
  <2>1. nextID' \in {nextID, nextID + 1} /\ nextID' <= MaxConnIDs + 1
    BY <1>2 DEF StreamInv, LogOK
  <2>2. Quiet(FreeConn, conn[c])
    BY DEF Quiet
  <2> QED  BY <1>2, <1>3, <2>1, <2>2, OneQuiet
<1>4. CASE /\ conn' = [conn EXCEPT ![c] = [conn[c] EXCEPT !.pump = "none", !.index = "inactive"]]
           /\ Indexed(c)
  <2> DEFINE x == [conn[c] EXCEPT !.pump = "none", !.index = "inactive"]
  <2>1. KeepsRing(x, conn[c]) /\ x.queue = conn[c].queue
    BY <1>1 DEF ConnState, KeepsRing
  <2>2. conn' = [conn EXCEPT ![c] = x]
    BY <1>4
  <2>3. Alive(conn[c])
    BY <1>4 DEF Alive, Indexed
  <2> HIDE DEF x
  <2> QED  BY <1>2, <2>1, <2>2, <2>3, SameQueue, OneKeeps
<1> QED  BY <1>3, <1>4 DEF Unregister, RemoveInactive

LEMMA ConnectRefines ==
  ASSUME StreamInv, NEW c \in Chains, Connect(c)
  PROVE  LogOK' /\ Covered' /\ Stream!Next
<1>1. conn[c] \in ConnState /\ client \in ClientState
  BY Types DEF StreamInv, Inv, TypeOK
<1>2. /\ client'.connID = client.connID /\ client'.want = client.want
      /\ client'.last = client.last /\ client'.known = client.known
  BY <1>1 DEF Connect, ConnectFresh, ConnectResume, ClientState
<1>3. UNCHANGED <<log, published, missed>>
  BY DEF Connect, ConnectFresh, ConnectResume
<1>4. CASE ConnectFresh(c)
  <2> DEFINE x == [FreeConn EXCEPT !.pump = "new", !.connID = nextID]
  <2>1. conn' = [conn EXCEPT ![c] = x] /\ nextID' = nextID + 1 /\ nextID <= MaxConnIDs
    BY <1>4 DEF ConnectFresh
  <2>2. Quiet(x, conn[c])
    BY <2>1 DEF Quiet
  <2>3. nextID' \in {nextID, nextID + 1} /\ nextID' <= MaxConnIDs + 1
    BY <2>1, Types DEF StreamInv
  <2> HIDE DEF x
  <2> QED  BY <1>2, <1>3, <2>1, <2>2, <2>3, OneQuiet
<1>5. CASE ConnectResume(c)
  <2> DEFINE x == [conn[c] EXCEPT !.index = "none", !.pump = "new",
                                  !.sequence = client.want, !.reused = TRUE]
  <2>1. conn' = [conn EXCEPT ![c] = x] /\ nextID' = nextID
    BY <1>5 DEF ConnectResume
  <2>2. KeepsRing(x, conn[c]) /\ x.queue = conn[c].queue
    BY <1>1 DEF ConnState, KeepsRing
  <2>3. Alive(conn[c])
    BY <1>5 DEF Alive, ConnectResume, Resumable
  <2> HIDE DEF x
  <2> QED  BY <1>2, <1>3, <2>1, <2>2, <2>3, SameQueue, OneKeeps
<1> QED  BY <1>4, <1>5 DEF Connect


(* A message leaves the channel and nothing is numbered. *)
LEMMA TakenRefines ==
  ASSUME StreamInv, NEW c \in Chains, SkipSend(c) \/ SendResponse(c)
  PROVE  LogOK' /\ Covered' /\ Stream!Next
<1>1. conn[c] \in ConnState /\ client \in ClientState
  BY Types DEF StreamInv, Inv, TypeOK
<1>2. conn[c].queue # <<>> /\ UNCHANGED <<log, nextID, published, missed>>
  BY DEF SkipSend, SendResponse, Received
<1>3. Head(conn[c].queue).id \in Droppable \cup {0}
  <2>1. MsgOK(Head(conn[c].queue))
    BY <1>2, TailQueue
  <2> QED  BY <2>1 DEF MsgOK, SkipSend, Skips, SendResponse
<1>4. KeepsQueue(Tail(conn[c].queue), conn[c].queue)
  BY <1>2, <1>3, TailKept
<1>5. /\ client'.connID = client.connID /\ client'.want = client.want
      /\ client'.last = client.last /\ client'.known = client.known
  BY <1>1 DEF SkipSend, SendResponse, SocketFails, ClientState
<1> DEFINE x == [conn[c] EXCEPT !.queue = Tail(@)]
           y == [conn[c] EXCEPT !.queue = Tail(@), !.pump = "ended"]
<1>6. conn' = [conn EXCEPT ![c] = x] \/ conn' = [conn EXCEPT ![c] = y]
  BY DEF SkipSend, SendResponse
<1>7. /\ KeepsRing(x, conn[c]) /\ x.queue = Tail(conn[c].queue)
      /\ x.index = conn[c].index /\ x.pump = conn[c].pump
      /\ KeepsRing(y, conn[c]) /\ y.queue = Tail(conn[c].queue)
      /\ y.index = conn[c].index /\ y.pump = "ended"
  BY <1>1 DEF ConnState, KeepsRing
<1>8. (Alive(x) => Alive(conn[c])) /\ (Alive(y) => Alive(conn[c]))
  BY <1>7 DEF Alive
<1> HIDE DEF x, y
<1>9. CASE conn' = [conn EXCEPT ![c] = x]
  BY <1>2, <1>4, <1>5, <1>7, <1>8, <1>9, OneKeeps
<1>10. CASE conn' = [conn EXCEPT ![c] = y]
  BY <1>2, <1>4, <1>5, <1>7, <1>8, <1>10, OneKeeps
<1> QED  BY <1>6, <1>9, <1>10

LEMMA PumpEndsRefines ==
  ASSUME StreamInv, NEW c \in Chains, PumpEnds(c) \/ ReceiveClosed(c)
  PROVE  LogOK' /\ Covered' /\ Stream!Next
<1>1. conn[c] \in ConnState /\ client \in ClientState
  BY Types DEF StreamInv, Inv, TypeOK
<1>2. UNCHANGED <<log, nextID, published, missed>>
  BY DEF PumpEnds, ReceiveClosed
<1>3. /\ client'.connID = client.connID /\ client'.want = client.want
      /\ client'.last = client.last /\ client'.known = client.known
  BY <1>1 DEF PumpEnds, ReceiveClosed, SocketFails, ClientState
<1> DEFINE x == [conn[c] EXCEPT !.pump = "ended"]
<1>4. conn' = [conn EXCEPT ![c] = x]
  BY DEF PumpEnds, ReceiveClosed
<1>5. /\ KeepsRing(x, conn[c]) /\ x.queue = conn[c].queue
      /\ x.index = conn[c].index /\ x.pump = "ended"
  BY <1>1 DEF ConnState, KeepsRing
<1>6. Alive(x) => Alive(conn[c])
  BY <1>5 DEF Alive
<1> HIDE DEF x
<1> QED  BY <1>2, <1>3, <1>4, <1>5, <1>6, SameQueue, OneKeeps

(* What the hub's send makes of a chain in its index: the message is in the *)
(* channel, or the chain has left the index.                                *)
LEMMA OfferIs ==
  ASSUME StreamInv, NEW c \in Chains, NEW m \in Message, MsgOK(m),
         conn[c].index # "none"
  PROVE  \/ Offer(conn[c], m) = FreeConn
         \/ /\ KeepsRing(Offer(conn[c], m), conn[c])
            /\ KeepsQueue(Offer(conn[c], m).queue, conn[c].queue)
            /\ Alive(Offer(conn[c], m)) => Queued(Offer(conn[c], m).queue, m.id)
<1>1. conn[c] \in ConnState /\ ChainOK(conn[c])
  BY InvOf DEF StreamInv
<1>2. CASE Len(conn[c].queue) < sendQueueSize
  <2> DEFINE q == Append(conn[c].queue, m)
             x == [conn[c] EXCEPT !.queue = q]
  <2>1. Offer(conn[c], m) = x
    BY <1>2 DEF Offer
  <2>2. KeepsQueue(q, conn[c].queue) /\ Queued(q, m.id)
    BY AppendQueue
  <2> HIDE DEF q
  <2>3. KeepsRing(x, conn[c]) /\ x.queue = q
    BY <1>1 DEF ConnState, KeepsRing
  <2> HIDE DEF x
  <2> QED  BY <2>1, <2>2, <2>3
<1>3. CASE ~(Len(conn[c].queue) < sendQueueSize) /\ conn[c].pump # "none"
  <2> DEFINE x == [conn[c] EXCEPT !.open = FALSE, !.index = "none"]
  <2>1. Offer(conn[c], m) = x
    BY <1>3 DEF Offer
  <2>2. /\ KeepsRing(x, conn[c]) /\ x.queue = conn[c].queue
        /\ x.index = "none" /\ x.pump = conn[c].pump
    BY <1>1 DEF ConnState, KeepsRing
  <2>3. conn[c].pump # "new"
    BY <1>1 DEF ChainOK
  <2> HIDE DEF x
  <2> QED  BY <2>1, <2>2, <2>3, SameQueue DEF Alive
<1>4. CASE ~(Len(conn[c].queue) < sendQueueSize) /\ conn[c].pump = "none"
  BY <1>4 DEF Offer
<1> QED  BY <1>2, <1>3, <1>4

LEMMA DirectMsgRefines ==
  ASSUME StreamInv, NEW c \in Chains, DirectMsg(c)
  PROVE  LogOK' /\ Covered' /\ Stream!Next
<1> DEFINE r == Offer(conn[c], Response)
<1>1. /\ conn' = [conn EXCEPT ![c] = r] /\ conn[c].index # "none"
      /\ UNCHANGED <<client, log, nextID, published, missed>>
  BY DEF DirectMsg
<1>2. Response \in Message /\ MsgOK(Response)
  BY WebConnAssumption DEF Response, Message, MsgOK
<1>3. \/ r = FreeConn
      \/ KeepsRing(r, conn[c]) /\ KeepsQueue(r.queue, conn[c].queue)
  BY <1>1, <1>2, OfferIs
<1>4. Quiet(r, conn[c])
  <2>1. Alive(conn[c])
    BY <1>1 DEF Alive
  <2> HIDE DEF r
  <2> QED  BY <1>3, <2>1 DEF Quiet
<1>5. nextID' \in {nextID, nextID + 1} /\ nextID' <= MaxConnIDs + 1
  BY <1>1 DEF StreamInv, LogOK
<1> HIDE DEF r
<1> QED  BY <1>1, <1>4, <1>5, OneQuiet

LEMMA SocketRefines ==
  ASSUME StreamInv, SocketBreaks \/ ClientNotices \/ UNCHANGED vars
  PROVE  LogOK' /\ Covered' /\ Stream!Next
<1>1. client \in ClientState
  BY DEF StreamInv, Inv, TypeOK
<1>2. /\ UNCHANGED <<conn, log, nextID, published, missed>>
      /\ client'.connID = client.connID /\ client'.want = client.want
      /\ client'.last = client.last /\ client'.known = client.known
  BY <1>1 DEF SocketBreaks, ClientNotices, ClientState, vars
<1>3. nextID' \in {nextID, nextID + 1} /\ nextID' <= MaxConnIDs + 1
  BY <1>2 DEF StreamInv, LogOK
<1>4. \A c \in Chains : Quiet(conn'[c], conn[c])
  BY <1>2, SameQueue DEF Quiet, KeepsRing
<1> QED  BY <1>2, <1>3, <1>4, QuietRefines DEF QuietStep

LEMMA BroadcastRefines ==
  ASSUME StreamInv, Broadcast
  PROVE  LogOK' /\ Covered' /\ Stream!Next
<1> DEFINE m == Event(published')
<1>1. /\ published \in Nat /\ published' = published + 1 /\ published < MaxEvents
      /\ UNCHANGED <<client, nextID, log>>
      /\ missed' = IF HandingOver THEN missed \cup {published'} ELSE missed
  BY Types DEF Broadcast, StreamInv
<1>2. m \in Message /\ MsgOK(m) /\ m.id = published'
  BY <1>1, WebConnAssumption DEF Event, Message, MsgOK
<1>3. \A c \in Chains : conn'[c] = IF Indexed(c) THEN Offer(conn[c], m) ELSE conn[c]
  BY DEF Broadcast
<1> HIDE DEF m
<1>4. ASSUME NEW c \in Chains
      PROVE  \/ conn'[c] = FreeConn
             \/ /\ KeepsRing(conn'[c], conn[c])
                /\ KeepsQueue(conn'[c].queue, conn[c].queue)
                /\ Alive(conn'[c]) => /\ Alive(conn[c])
                                      /\ \/ Queued(conn'[c].queue, published')
                                         \/ conn[c].pump = "new"
  <2>1. CASE Indexed(c)
    <3>1. conn'[c] = Offer(conn[c], m) /\ conn[c].index # "none" /\ Alive(conn[c])
      BY <1>3, <2>1 DEF Indexed, Alive
    <3> QED  BY <1>2, <3>1, OfferIs
  <2>2. CASE ~Indexed(c)
    <3>1. conn'[c] = conn[c] /\ (Alive(conn[c]) => conn[c].pump = "new")
      BY <1>3, <2>2 DEF Indexed, Alive
    <3> QED  BY <3>1, SameQueue DEF KeepsRing
  <2> QED  BY <2>1, <2>2
<1>5. LogOK'
  <2>1. published' <= MaxEvents
    BY <1>1, WebConnAssumption
  <2>2. ASSUME NEW c \in Chains
        PROVE  /\ conn'[c].connID # 0 => Logged(conn'[c], log'[conn'[c].connID])
               /\ QueueOK(conn'[c].queue)
               /\ Alive(conn'[c]) => conn'[c].connID # 0
    <3>1. CASE conn'[c] = FreeConn
      BY <3>1, FreeFacts DEF QueueOK
    <3>2. CASE /\ KeepsRing(conn'[c], conn[c])
               /\ KeepsQueue(conn'[c].queue, conn[c].queue)
               /\ Alive(conn'[c]) => Alive(conn[c])
      BY <1>1, <3>2 DEF KeepsRing, KeepsQueue, StreamInv, LogOK, Logged, K
    <3> QED  BY <1>4, <3>1, <3>2
  <2> QED  BY <1>1, <2>1, <2>2 DEF LogOK, StreamInv
<1>6. Covered'
  <2> SUFFICES ASSUME NEW c \in Chains, client.connID # 0,
                      conn'[c].connID = client.connID, Alive(conn'[c]),
                      NEW e \in 1 .. published'
               PROVE  \/ e \in Droppable \/ e \in missed' \/ e \in client.known
                      \/ Queued(conn'[c].queue, e)
                      \/ Unseen(log[client.connID], client.want, e)
    BY <1>1 DEF Covered, Owes
  <2>1. /\ KeepsRing(conn'[c], conn[c])
        /\ KeepsQueue(conn'[c].queue, conn[c].queue)
        /\ Alive(conn[c])
        /\ Queued(conn'[c].queue, published') \/ conn[c].pump = "new"
    BY <1>4, FreeFacts
  <2>2. CASE e = published'
    <3>1. ASSUME conn[c].pump = "new" PROVE HandingOver
      BY <2>1, <3>1 DEF HandingOver, KeepsRing
    <3> QED  BY <1>1, <2>1, <2>2, <3>1
  <2>3. CASE e # published'
    <3>1. e \in 1 .. published
      BY <1>1, <2>3
    <3>2. \/ e \in Droppable \/ e \in missed \/ e \in client.known
          \/ Queued(conn[c].queue, e)
          \/ Unseen(log[client.connID], client.want, e)
      BY <2>1, <3>1 DEF StreamInv, Covered, Owes, KeepsRing
    <3>3. ASSUME Queued(conn[c].queue, e)
          PROVE  e \in Droppable \/ Queued(conn'[c].queue, e)
      <4>1. PICK i \in 1 .. Len(conn[c].queue) : conn[c].queue[i].id = e
        BY <3>3 DEF Queued
      <4>2. e # 0
        BY <3>1
      <4> QED  BY <2>1, <4>1, <4>2 DEF KeepsQueue
    <3> QED  BY <1>1, <3>2, <3>3
  <2> QED  BY <2>2, <2>3
<1>7. Stream!Next
  BY <1>1 DEF Stream!Next
<1> QED  BY <1>5, <1>6, <1>7

(* The log of a chain that has a connection ID. *)
LEMMA LogOf ==
  ASSUME StreamInv, NEW c \in Chains, conn[c].connID # 0
  PROVE  /\ conn[c].connID \in 1 .. MaxConnIDs
         /\ log[conn[c].connID] \in Seq(Nat)
         /\ Len(log[conn[c].connID]) = K(conn[c])
         /\ Logged(conn[c], log[conn[c].connID])
<1>1. conn[c].connID \in 1 .. MaxConnIDs
  BY Types DEF StreamInv, LogOK
<1> QED  BY <1>1, Types DEF StreamInv, LogOK, Logged

(* Chain c becomes r, which has numbered message m under its connection ID. *)
Numbers(c, r, m) ==
  /\ conn' = [conn EXCEPT ![c] = r]
  /\ r.connID \in 1 .. MaxConnIDs /\ r.connID < nextID'
  /\ nextID' \in {nextID, nextID + 1} /\ nextID' <= MaxConnIDs + 1
  /\ r.connID \in {conn[c].connID, nextID}
  /\ m.id \in 0 .. MaxEvents /\ (m.kind # "event" => m.id = 0)
  /\ m.seq = Len(log[r.connID])
  /\ log' = [log EXCEPT ![r.connID] = Append(@, m.id)]
  /\ K(r) = Len(log[r.connID]) + 1
  /\ \A i \in Slots : r.deadQueue[i] # Nil =>
       \/ r.deadQueue[i] = m
       \/ /\ r.connID = conn[c].connID
          /\ conn[c].deadQueue[i] # Nil /\ r.deadQueue[i] = conn[c].deadQueue[i]
          /\ r.deadQueue[i].seq \in Nat /\ r.deadQueue[i].seq < K(conn[c])
  /\ QueueOK(r.queue)
  /\ UNCHANGED <<published, missed>>

LEMMA NumbersLog ==
  ASSUME StreamInv, NEW c \in Chains, NEW r, NEW m, Numbers(c, r, m)
  PROVE  /\ LogOK'
         /\ conn'[c] = r /\ \A d \in Chains \ {c} : conn'[d] = conn[d]
         /\ log'[r.connID] = Append(log[r.connID], m.id)
         /\ log[r.connID] \in Seq(Nat)
         /\ \A g \in 1 .. MaxConnIDs : g # r.connID => log'[g] = log[g]
         /\ \A d \in Chains \ {c} : conn[d].connID # r.connID
         /\ \E g \in 1 .. MaxConnIDs, e \in 0 .. MaxEvents : Stream!Number(g, e)
<1> DEFINE g == r.connID
<1>1. conn'[c] = r /\ \A d \in Chains \ {c} : conn'[d] = conn[d]
  BY DEF Numbers, StreamInv, Inv, TypeOK
<1>2. g \in 1 .. MaxConnIDs /\ log[g] \in Seq(Nat) /\ m.id \in Nat
  BY Types, WebConnAssumption DEF Numbers, StreamInv
<1>3. /\ log'[g] = Append(log[g], m.id)
      /\ \A h \in 1 .. MaxConnIDs : h # g => log'[h] = log[h]
  BY <1>2, Types DEF Numbers, StreamInv
<1>4. \A d \in Chains \ {c} : conn[d].connID # g
  <2> SUFFICES ASSUME NEW d \in Chains \ {c}, conn[d].connID = g PROVE FALSE
    OBVIOUS
  <2>1. g # nextID
    BY Types DEF StreamInv
  <2>2. conn[c].connID = conn[d].connID /\ g # 0
    BY <1>2, <2>1 DEF Numbers
  <2> QED  BY <2>2 DEF StreamInv, Inv, IDsOK
<1>5. \E h \in 1 .. MaxConnIDs, e \in 0 .. MaxEvents : Stream!Number(h, e)
  BY <1>2 DEF Numbers, Stream!Number
<1>6. Logged(r, log'[g])
  <2>1. /\ Len(log'[g]) = Len(log[g]) + 1 /\ log'[g][Len(log[g]) + 1] = m.id
        /\ \A i \in 1 .. Len(log[g]) : log'[g][i] = log[g][i]
    BY <1>2, <1>3, AppendIs
  <2>2. ASSUME NEW i \in Slots, r.deadQueue[i] # Nil
        PROVE  /\ r.deadQueue[i].id = log'[g][r.deadQueue[i].seq + 1]
               /\ r.deadQueue[i].kind # "event" => r.deadQueue[i].id = 0
    <3>1. CASE r.deadQueue[i] = m
      BY <2>1, <3>1 DEF Numbers
    <3>2. CASE /\ g = conn[c].connID
               /\ conn[c].deadQueue[i] # Nil /\ r.deadQueue[i] = conn[c].deadQueue[i]
               /\ r.deadQueue[i].seq \in Nat /\ r.deadQueue[i].seq < K(conn[c])
      <4>1. Logged(conn[c], log[g]) /\ Len(log[g]) = K(conn[c])
        BY <1>2, <3>2, LogOf
      <4>2. K(conn[c]) \in Nat
        BY Types DEF StreamInv
      <4>3. ASSUME NEW n \in Nat, NEW k \in Nat, n < k PROVE n + 1 \in 1 .. k
        BY <4>3
      <4>4. r.deadQueue[i].seq + 1 \in 1 .. Len(log[g])
        BY <3>2, <4>1, <4>2, <4>3
      <4> QED  BY <2>1, <3>2, <4>1, <4>4 DEF Logged
    <3> QED  BY <2>2, <3>1, <3>2 DEF Numbers
  <2> QED  BY <2>1, <2>2 DEF Numbers, Logged
<1>7. LogOK'
  <2>1. published' <= MaxEvents /\ nextID' <= MaxConnIDs + 1
    BY DEF Numbers, StreamInv, LogOK
  <2>2. \A h \in 1 .. MaxConnIDs : h >= nextID' => log'[h] = <<>>
    <3>1. g < nextID' /\ nextID' >= nextID /\ nextID' \in Nat /\ nextID \in Nat /\ g \in Nat
      BY <1>2, Types DEF Numbers, StreamInv
    <3> HIDE DEF g
    <3>2. \A h \in 1 .. MaxConnIDs : h >= nextID' => h # g /\ h >= nextID
      BY <3>1
    <3> QED  BY <1>3, <3>2 DEF StreamInv, LogOK
  <2>3. ASSUME NEW d \in Chains
        PROVE  /\ conn'[d].connID # 0 => Logged(conn'[d], log'[conn'[d].connID])
               /\ QueueOK(conn'[d].queue)
               /\ Alive(conn'[d]) => conn'[d].connID # 0
    <3>1. CASE d = c
      BY <1>1, <1>2, <1>6, <3>1 DEF Numbers
    <3>2. CASE d # c
      <4>1. conn'[d] = conn[d] /\ conn[d].connID # g
        BY <1>1, <1>4, <3>2
      <4>2. ASSUME conn[d].connID # 0
            PROVE  log'[conn[d].connID] = log[conn[d].connID]
        BY <1>3, <4>1, <4>2, LogOf
      <4> QED  BY <4>1, <4>2 DEF StreamInv, LogOK
    <3> QED  BY <3>1, <3>2
  <2> QED  BY <2>1, <2>2, <2>3 DEF LogOK
<1> QED  BY <1>1, <1>2, <1>3, <1>4, <1>5, <1>7

(* What the client is after it has consumed message m under g. *)
LEMMA ReceiveIs ==
  ASSUME Inv, NEW m \in DeadEvent, NEW g \in Nat,
         \/ /\ client.connID = g /\ m.seq = client.want
            /\ m.kind = "hello" => m.connID = g
         \/ /\ m.kind = "hello" /\ m.connID = g /\ g # client.connID
            /\ m.seq = 0
  PROVE  /\ Receive(m).connID = g /\ Receive(m).want = m.seq + 1
         /\ Receive(m).last = m.id
         /\ Receive(m).known = IF client.connID # g THEN 1 .. published
                               ELSE IF m.kind = "event" THEN client.known \cup {m.id}
                               ELSE client.known
<1>1. client \in ClientState /\ published \in Nat
  BY DEF Inv, TypeOK
<1>2. Receive(m).connID = g /\ Receive(m).want = m.seq + 1
  BY <1>1, ReceiveFollows
<1>3. /\ Receive(m).last = m.id
      /\ Receive(m).known = IF client.connID # g THEN 1 .. published
                            ELSE IF m.kind = "event" THEN client.known \cup {m.id}
                            ELSE client.known
  <2>1. CASE /\ client.connID = g /\ m.seq = client.want
             /\ m.kind = "hello" => m.connID = g
    BY <1>1, <2>1 DEF Receive, ClientState
  <2>2. CASE /\ m.kind = "hello" /\ m.connID = g /\ g # client.connID
             /\ m.seq = 0
    BY <1>1, <2>2 DEF Receive, ClientState
  <2> QED  BY <2>1, <2>2
<1> QED  BY <1>2, <1>3

(* The client keeps its place in the stream. *)
Stays == /\ client'.connID = client.connID /\ client'.want = client.want
         /\ client'.last = client.last /\ client'.known = client.known

LEMMA FailsStays ==
  ASSUME Inv, NEW c \in Chains, SocketFails(c)
  PROVE  Stays
  BY DEF Inv, TypeOK, ClientState, SocketFails, Stays

(* The write of a numbered event. *)
SentAs(c, r, m) ==
  /\ Numbers(c, r, m) /\ m \in DeadEvent
  /\ r.connID = conn[c].connID /\ m.seq = K(conn[c])
  /\ conn[c].queue # <<>> /\ r.queue = Tail(conn[c].queue)
  /\ m.id = Head(conn[c].queue).id
  /\ r.index = conn[c].index /\ r.pump # "new"
  /\ m.kind = "hello" => m.connID = conn[c].connID /\ K(conn[c]) = 0
  /\ Listening(c) => ListenOK(conn[c], client)
  /\ conn[c].pump = "run" /\ m.kind = Head(conn[c].queue).kind
  /\ Stays \/ (Listening(c) /\ client' = Receive(m))

LEMMA SendEventIs ==
  ASSUME StreamInv, NEW c \in Chains, SendEvent(c)
  PROVE  \E r, m : SentAs(c, r, m)
<1> DEFINE cn == conn[c]
           msg == Numbered(Head(cn.queue), cn.sequence, cn.connID)
           With(p) ==
             [cn EXCEPT !.pump = p, !.queue = Tail(@), !.sequence = @ + 1,
               !.deadQueue = AddToDeadQueue(@, cn.deadQueuePointer, msg),
               !.deadQueuePointer = Advance(@)]
<1>1. /\ conn[c] \in ConnState /\ ChainOK(conn[c]) /\ K(conn[c]) \in Nat
      /\ Ring(conn[c].deadQueue) /\ client \in ClientState
      /\ Listening(c) => ListenOK(conn[c], client)
  BY InvOf DEF StreamInv
<1>2. /\ cn.pump = "run" /\ cn.queue # <<>> /\ cn.queue \in Seq(Message)
      /\ Head(cn.queue).kind # "response"
      /\ cn.sequence \in Nat /\ cn.connID \in Nat /\ cn.connID # 0
      /\ cn.deadQueuePointer \in Slots
      /\ cn.deadQueue \in [Slots -> DeadEvent \cup {Nil}]
      /\ cn.sequence = K(cn)
      /\ HoldsLast(cn.deadQueue, cn.deadQueuePointer, K(cn))
  BY <1>1 DEF SendEvent, Received, ConnState, ChainOK
<1>3. /\ Tail(cn.queue) \in Seq(Message)
      /\ 1 \in 1 .. Len(cn.queue) /\ Head(cn.queue) = cn.queue[1]
      /\ Head(cn.queue) \in Message
  BY <1>2, TailIs
<1>4. /\ msg \in DeadEvent /\ msg.seq = K(cn)
      /\ msg.kind = Head(cn.queue).kind /\ msg.connID = Head(cn.queue).connID
      /\ msg.id = Head(cn.queue).id
  BY <1>2, <1>3 DEF Numbered, DeadEvent, Message
<1>5. msg.kind = "hello" => msg.connID = cn.connID /\ K(cn) = 0
  BY <1>1, <1>3, <1>4 DEF ChainOK
<1>6. msg.id \in 0 .. MaxEvents /\ (msg.kind # "event" => msg.id = 0)
  <2>1. MsgOK(Head(cn.queue))
    BY <1>2, TailQueue
  <2> QED  BY <1>4, <2>1 DEF MsgOK
<1>7. /\ cn.connID \in 1 .. MaxConnIDs /\ Len(log[cn.connID]) = K(cn)
  BY <1>2, LogOf
<1>8. /\ log' = [log EXCEPT ![cn.connID] = Append(@, msg.id)]
      /\ UNCHANGED <<nextID, published, missed>>
      /\ \/ conn' = [conn EXCEPT ![c] = With("run")] /\ WriteOK(c, msg)
         \/ conn' = [conn EXCEPT ![c] = With("ended")] /\ SocketFails(c)
  BY DEF SendEvent
<1>9. QueueOK(Tail(cn.queue))
  BY <1>2, TailQueue
<1>10. cn.connID < nextID /\ nextID <= MaxConnIDs + 1
  BY Types DEF StreamInv, LogOK
<1> HIDE DEF msg
<1>11. ASSUME NEW p \in {"run", "ended"}
       PROVE  /\ With(p).connID = cn.connID /\ With(p).pump = p
              /\ With(p).queue = Tail(cn.queue) /\ With(p).index = cn.index
              /\ K(With(p)) = K(cn) + 1
              /\ \A i \in Slots : \/ With(p).deadQueue[i] = msg
                                  \/ With(p).deadQueue[i] = cn.deadQueue[i]
  <2>1. /\ Advance(cn.deadQueuePointer) \in Slots
        /\ AddToDeadQueue(cn.deadQueue, cn.deadQueuePointer, msg)
             \in [Slots -> DeadEvent \cup {Nil}]
    BY <1>2, <1>4, AdvanceIs DEF AddToDeadQueue
  <2>2. With(p) \in ConnState
    <3>1. cn.sequence + 1 \in Nat
      BY <1>2
    <3> QED BY <1>1, <1>3, <2>1, <3>1, ConnUpdate
  <2>3. /\ With(p).connID = cn.connID /\ With(p).pump = p
        /\ With(p).queue = Tail(cn.queue) /\ With(p).index = cn.index
        /\ With(p).deadQueue =
             AddToDeadQueue(cn.deadQueue, cn.deadQueuePointer, msg)
        /\ With(p).deadQueuePointer = Advance(cn.deadQueuePointer)
    BY <1>1, <1>2 DEF ConnState
  <2> DEFINE x == With(p)
  <2> HIDE DEF x, With
  <2>4. /\ K(x) = K(cn) + 1
        /\ \A i \in Slots : x.deadQueue[i] = msg \/ x.deadQueue[i] = cn.deadQueue[i]
    BY <1>1, <1>2, <1>4, <2>2, <2>3, AddOK DEF x
  <2> QED BY <2>3, <2>4 DEF x
<1>12. \A i \in Slots : cn.deadQueue[i] # Nil =>
         cn.deadQueue[i].seq \in Nat /\ cn.deadQueue[i].seq < K(cn)
  BY <1>1, <1>2, EntryBelow
<1> HIDE DEF With
<1>13. ASSUME NEW p \in {"run", "ended"}, conn' = [conn EXCEPT ![c] = With(p)],
              Stays \/ (Listening(c) /\ client' = Receive(msg))
       PROVE  \E r, m : SentAs(c, r, m)
  <2>1. PICK r : r = With(p)
    OBVIOUS
  <2>2. PICK m : m = msg
    OBVIOUS
  <2>3. /\ r.connID = cn.connID /\ r.pump = p
        /\ r.queue = Tail(cn.queue) /\ r.index = cn.index
        /\ K(r) = K(cn) + 1
        /\ \A i \in Slots : r.deadQueue[i] = m \/ r.deadQueue[i] = cn.deadQueue[i]
    BY <1>11, <2>1, <2>2
  <2>4. Numbers(c, r, m)
    BY <1>1, <1>4, <1>6, <1>7, <1>8, <1>9, <1>10, <1>12, <1>13, <2>1, <2>2, <2>3
       DEF Numbers
  <2>5. SentAs(c, r, m)
    BY <1>1, <1>2, <1>4, <1>5, <1>13, <2>2, <2>3, <2>4 DEF SentAs
  <2> QED  BY <2>5
<1>14. CASE conn' = [conn EXCEPT ![c] = With("run")] /\ WriteOK(c, msg)
  <2>1. Stays \/ (Listening(c) /\ client' = Receive(msg))
    BY <1>14 DEF WriteOK, Stays
  <2> QED  BY <1>13, <1>14, <2>1
<1>15. CASE conn' = [conn EXCEPT ![c] = With("ended")] /\ SocketFails(c)
  <2>1. Stays
    BY <1>15, FailsStays DEF StreamInv
  <2> QED  BY <1>13, <1>15, <2>1
<1> QED  BY <1>8, <1>14, <1>15

(* Once a log has been extended, the other chains owe what they did. *)
LEMMA OthersOwe ==
  ASSUME StreamInv, NEW c \in Chains, NEW r, NEW m, Numbers(c, r, m), Stays,
         NEW d \in Chains \ {c}, client.connID # 0, conn'[d].connID = client.connID,
         Alive(conn'[d])
  PROVE  Owes(conn'[d], log'[client.connID], client', published', missed')
<1>1. conn'[d] = conn[d] /\ conn[d].connID # r.connID
  BY NumbersLog
<1>2. client.connID \in 1 .. MaxConnIDs
  BY <1>1, LogOf
<1>3. log'[client.connID] = log[client.connID]
  BY <1>1, <1>2, NumbersLog
<1>4. Owes(conn[d], log[client.connID], client, published, missed)
  BY <1>1 DEF StreamInv, Covered
<1> QED  BY <1>1, <1>3, <1>4 DEF Owes, Stays, Numbers

LEMMA SendEventRefines ==
  ASSUME StreamInv, NEW c \in Chains, SendEvent(c)
  PROVE  LogOK' /\ Covered' /\ Stream!Next
<1>1. PICK r, m : SentAs(c, r, m)
  BY SendEventIs
<1> DEFINE g == r.connID
           q == conn[c].queue
<1>2. /\ LogOK'
      /\ conn'[c] = r /\ \A d \in Chains \ {c} : conn'[d] = conn[d]
      /\ log'[g] = Append(log[g], m.id)
      /\ log[g] \in Seq(Nat)
      /\ \A d \in Chains \ {c} : conn[d].connID # g
      /\ \E h \in 1 .. MaxConnIDs, e \in 0 .. MaxEvents : Stream!Number(h, e)
  <2>1. Numbers(c, r, m)
    BY <1>1 DEF SentAs
  <2> QED  BY <2>1, NumbersLog
<1>3. /\ g = conn[c].connID /\ g \in 1 .. MaxConnIDs /\ g # 0
      /\ m.id \in Nat /\ m.seq = Len(log[g])
      /\ published' = published /\ missed' = missed
  BY <1>1, WebConnAssumption DEF SentAs, Numbers
<1>4. /\ Len(log'[g]) = Len(log[g]) + 1 /\ Len(log[g]) \in Nat
      /\ \A i \in 1 .. Len(log[g]) : log'[g][i] = log[g][i]
      /\ log'[g][Len(log[g]) + 1] = m.id
  BY <1>2, <1>3, AppendIs
<1>5. Alive(r) => Alive(conn[c])
  BY <1>1 DEF SentAs, Alive
<1>6. /\ published \in Nat /\ client.want \in Nat /\ client.connID \in Nat
      /\ ChainOK(conn[c]) /\ K(conn[c]) = Len(log[g])
  BY <1>3, Types, InvOf, LogOf DEF StreamInv
<1>7. ASSUME NEW e, Queued(q, e) PROVE e = m.id \/ Queued(r.queue, e)
  BY <1>1, <1>7, TailQueue DEF SentAs
<1>8. CASE Stays
  <2>1. ASSUME client.connID = g, Alive(r)
        PROVE  Owes(r, log'[g], client', published', missed')
    <3>1. Owes(conn[c], log[g], client, published, missed)
      BY <1>3, <1>5, <2>1 DEF StreamInv, Covered
    <3>2. client.want <= Len(log[g])
      BY <1>3, <1>6, <2>1 DEF StreamInv, Inv, ClientOK
    <3>3. ASSUME NEW e, Unseen(log[g], client.want, e)
          PROVE  Unseen(log'[g], client.want, e)
      <4>1. PICK s \in client.want + 1 .. Len(log[g]) : log[g][s] = e
        BY <3>3 DEF Unseen
      <4>2. s \in client.want + 1 .. Len(log'[g]) /\ s \in 1 .. Len(log[g])
        BY <1>4, <1>6
      <4> QED  BY <1>4, <4>1, <4>2 DEF Unseen
    <3>4. Unseen(log'[g], client.want, m.id)
      <4>1. Len(log[g]) + 1 \in client.want + 1 .. Len(log'[g])
        BY <1>4, <1>6, <3>2
      <4> QED  BY <1>4, <4>1 DEF Unseen
    <3> HIDE DEF g
    <3> QED  BY <1>3, <1>7, <1>8, <3>1, <3>3, <3>4 DEF Owes, Stays
  <2>2. Covered'
    <3> SUFFICES ASSUME NEW d \in Chains, client.connID # 0,
                        conn'[d].connID = client.connID, Alive(conn'[d])
                 PROVE  Owes(conn'[d], log'[client.connID], client', published', missed')
      BY <1>8 DEF Covered, Stays
    <3>1. CASE d = c
      BY <1>2, <2>1, <3>1
    <3>2. CASE d # c
      BY <1>1, <1>8, <3>2, OthersOwe DEF SentAs
    <3> QED  BY <3>1, <3>2
  <2>3. Stream!Next
    BY <1>2, <1>8 DEF Stream!Next, Stays
  <2> QED  BY <1>2, <2>2, <2>3
<1>9. CASE Listening(c) /\ client' = Receive(m) /\ client.connID = g
  <2>1. client.want = Len(log[g])
    BY <1>1, <1>3, <1>6, <1>9 DEF SentAs, ListenOK, ChainOK
  <2>2. /\ client'.connID = g /\ client'.want = client.want + 1
        /\ client'.last = m.id
        /\ client'.known = IF m.kind = "event" THEN client.known \cup {m.id}
                           ELSE client.known
    BY <1>1, <1>3, <1>6, <1>9, <2>1, ReceiveIs DEF SentAs, StreamInv
  <2>3. Stream!Deliver
    <3>1. client.want < Len(log'[g]) /\ log'[g][client.want + 1] = m.id
      BY <1>4, <2>1
    <3> QED  BY <1>3, <1>9, <2>2, <3>1 DEF Stream!Deliver
  <2>4. Stream!Next
    BY <1>2, <2>3 DEF Stream!Next
  <2>5. ASSUME Alive(r), NEW e \in 1 .. published
        PROVE  e \in Droppable \/ e \in missed \/ e \in client'.known \/ Queued(r.queue, e)
    <3>1. \/ e \in Droppable \/ e \in missed \/ e \in client.known
          \/ Queued(q, e) \/ Unseen(log[g], client.want, e)
      BY <1>3, <1>5, <1>9, <2>5 DEF StreamInv, Covered, Owes
    <3>2. ~Unseen(log[g], client.want, e)
      BY <1>4, <2>1 DEF Unseen
    <3>3. e = m.id => e \in client'.known
      BY <1>1, <1>6, <2>2 DEF SentAs, Numbers
    <3> QED  BY <1>7, <2>2, <3>1, <3>2, <3>3
  <2>6. Covered'
    <3> SUFFICES ASSUME NEW d \in Chains, conn'[d].connID = g, Alive(conn'[d])
                 PROVE  Owes(conn'[d], log'[g], client', published', missed')
      BY <2>2 DEF Covered
    <3>1. d = c
      BY <1>2
    <3> HIDE DEF g
    <3> QED  BY <1>2, <1>3, <2>5, <3>1 DEF Owes
  <2> QED  BY <1>2, <2>4, <2>6
<1>10. CASE Listening(c) /\ client' = Receive(m) /\ client.connID # g
  <2>1. Fresh(conn[c])
    BY <1>1, <1>3, <1>10 DEF SentAs, ListenOK
  <2>2. m.kind = "hello" /\ m.connID = g /\ m.seq = 0 /\ Len(log[g]) = 0
    BY <1>1, <1>3, <1>6, <2>1 DEF SentAs, Fresh
  <2>3. /\ client'.connID = g /\ client'.want = 0 + 1 /\ client'.last = m.id
        /\ client'.known = 1 .. published
    <3>1. Inv /\ m \in DeadEvent /\ g \in Nat
      BY <1>1, <1>3 DEF SentAs, StreamInv
    <3> HIDE DEF g
    <3> QED  BY <1>10, <2>2, <3>1, ReceiveIs
  <2>4. Stream!Follow(g)
    <3>1. Len(log'[g]) > 0 /\ log'[g][1] = m.id
      BY <1>4, <2>2
    <3> QED  BY <1>10, <2>3, <3>1 DEF Stream!Follow
  <2>5. Stream!Next
    BY <1>2, <1>3, <2>4 DEF Stream!Next
  <2>6. Covered'
    BY <1>3, <2>3 DEF Covered, Owes
  <2> QED  BY <1>2, <2>5, <2>6
<1> QED  BY <1>1, <1>8, <1>9, <1>10 DEF SentAs

(* A loss: the hello is numbered under a connection ID of its own. *)
LostAs(c, r, m) ==
  /\ Numbers(c, r, m) /\ m \in DeadEvent /\ r.connID = nextID
  /\ m.kind = "hello" /\ m.connID = nextID /\ m.seq = 0
  /\ Stays \/ (Listening(c) /\ client' = Receive(m))

LEMMA StartLossIs ==
  ASSUME StreamInv, NEW c \in Chains, StartLoss(c)
  PROVE  \E r, m : LostAs(c, r, m)
<1> DEFINE cn == conn[c]
           hello == Numbered(Hello(nextID), 0, nextID)
           With(p) == [cn EXCEPT !.pump = p,
             !.deadQueue = AddToDeadQueue(EmptyDeadQueue, 0, hello),
             !.deadQueuePointer = Advance(0),
             !.connID = nextID, !.sequence = 1]
<1>1. conn[c] \in ConnState /\ Full(conn[c].deadQueue)
  BY InvOf, StartLossInv DEF StreamInv
<1>2. /\ ClearDeadQueue(cn.deadQueue) = EmptyDeadQueue
      /\ ClearDeadQueuePointer(cn.deadQueue, cn.deadQueuePointer) = 0
  BY <1>1, ClearFull
<1>3. /\ nextID \in 1 .. MaxConnIDs /\ nextID \in Nat /\ nextID' = nextID + 1
      /\ log[nextID] = <<>>
  BY Types DEF StartLoss, StreamInv, LogOK
<1>4. /\ hello \in DeadEvent /\ hello.seq = 0 /\ hello # Nil
      /\ hello.kind = "hello" /\ hello.connID = nextID /\ hello.id = 0
  BY <1>3, WebConnAssumption DEF Numbered, Hello, DeadEvent
<1>5. /\ log' = [log EXCEPT ![nextID] = Append(@, hello.id)]
      /\ UNCHANGED <<published, missed>>
      /\ \/ conn' = [conn EXCEPT ![c] = With("run")] /\ WriteOK(c, hello)
         \/ conn' = [conn EXCEPT ![c] = With("ended")] /\ SocketFails(c)
  BY <1>2, ZenonT(60) DEF StartLoss
<1>6. QueueOK(cn.queue)
  BY DEF StreamInv, LogOK
<1> HIDE DEF hello
<1>7. ASSUME NEW p \in {"run", "ended"}
      PROVE  /\ With(p).connID = nextID /\ With(p).queue = cn.queue
             /\ K(With(p)) = 1
             /\ \A i \in Slots : With(p).deadQueue[i] \in {hello, Nil}
  <2>1. /\ Advance(0) \in Slots /\ 0 \in Slots
    BY AdvanceIs, EmptyHoldsLast
  <2>2. /\ With(p).connID = nextID /\ With(p).queue = cn.queue
        /\ With(p).deadQueue = AddToDeadQueue(EmptyDeadQueue, 0, hello)
        /\ With(p).deadQueuePointer = Advance(0)
    BY <1>1 DEF ConnState
  <2> DEFINE x == With(p)
  <2> HIDE DEF x, With
  <2>3. Ring(x.deadQueue) /\ HoldsLast(x.deadQueue, x.deadQueuePointer, 1)
    BY <1>4, <2>1, <2>2, AddHoldsLast, EmptyHoldsLast DEF x
  <2>4. K(x) = 1
    BY <2>1, <2>2, <2>3, NextSeqIs DEF K, x
  <2>5. \A i \in Slots : x.deadQueue[i] \in {hello, Nil}
    BY <2>1, <2>2 DEF AddToDeadQueue, EmptyDeadQueue, x
  <2> QED BY <2>2, <2>4, <2>5 DEF x
<1> HIDE DEF With
<1>8. ASSUME NEW p \in {"run", "ended"}, conn' = [conn EXCEPT ![c] = With(p)],
             Stays \/ (Listening(c) /\ client' = Receive(hello))
      PROVE  \E r, m : LostAs(c, r, m)
  <2>1. PICK r : r = With(p)
    OBVIOUS
  <2>2. PICK m : m = hello
    OBVIOUS
  <2>3. /\ r.connID = nextID /\ r.queue = cn.queue /\ K(r) = 1
        /\ \A i \in Slots : r.deadQueue[i] \in {m, Nil}
    BY <1>7, <2>1, <2>2
  <2>4. Len(log[nextID]) = 0 /\ 0 \in 0 .. MaxEvents
    BY <1>3, EmptySeq, WebConnAssumption
  <2>5. nextID' \in {nextID, nextID + 1} /\ nextID' <= MaxConnIDs + 1
        /\ nextID < nextID'
    BY <1>3, WebConnAssumption
  <2>6. Numbers(c, r, m)
    <3>1. /\ conn' = [conn EXCEPT ![c] = r]
          /\ log' = [log EXCEPT ![r.connID] = Append(@, m.id)]
          /\ UNCHANGED <<published, missed>>
      BY <1>5, <1>8, <2>1, <2>2, <2>3
    <3>2. \A i \in Slots : r.deadQueue[i] # Nil => r.deadQueue[i] = m
      BY <2>3
    <3>3. /\ r.connID \in 1 .. MaxConnIDs /\ r.connID < nextID'
          /\ r.connID \in {conn[c].connID, nextID} /\ QueueOK(r.queue)
      BY <1>3, <1>6, <2>3, <2>5
    <3>4. /\ m.id \in 0 .. MaxEvents /\ (m.kind # "event" => m.id = 0)
          /\ m.seq = Len(log[r.connID]) /\ K(r) = Len(log[r.connID]) + 1
      BY <1>4, <2>2, <2>3, <2>4
    <3> QED  BY <2>5, <3>1, <3>2, <3>3, <3>4 DEF Numbers
  <2>7. LostAs(c, r, m)
    BY <1>4, <1>8, <2>2, <2>3, <2>6 DEF LostAs
  <2> QED  BY <2>7
<1>9. CASE conn' = [conn EXCEPT ![c] = With("run")] /\ WriteOK(c, hello)
  <2>1. Stays \/ (Listening(c) /\ client' = Receive(hello))
    BY <1>9 DEF WriteOK, Stays
  <2> QED  BY <1>8, <1>9, <2>1
<1>10. CASE conn' = [conn EXCEPT ![c] = With("ended")] /\ SocketFails(c)
  <2>1. Stays
    BY <1>10, FailsStays DEF StreamInv
  <2> QED  BY <1>8, <1>10, <2>1
<1> QED  BY <1>5, <1>9, <1>10

LEMMA StartLossRefines ==
  ASSUME StreamInv, NEW c \in Chains, StartLoss(c)
  PROVE  LogOK' /\ Covered' /\ Stream!Next
<1>1. PICK r, m : LostAs(c, r, m)
  BY StartLossIs
<1>2. Numbers(c, r, m) /\ r.connID = nextID /\ m \in DeadEvent
  BY <1>1 DEF LostAs
<1>3. /\ LogOK'
      /\ conn'[c] = r
      /\ log'[nextID] = Append(log[nextID], m.id)
      /\ log[nextID] \in Seq(Nat)
      /\ \E h \in 1 .. MaxConnIDs, e \in 0 .. MaxEvents : Stream!Number(h, e)
  BY <1>2, NumbersLog
<1>4. /\ client.connID # nextID /\ nextID \in 1 .. MaxConnIDs /\ nextID \in Nat
      /\ published' = published
  BY <1>2, Types DEF StreamInv, Numbers
<1>5. CASE Stays
  <2>1. Covered'
    <3> SUFFICES ASSUME NEW d \in Chains, client.connID # 0,
                        conn'[d].connID = client.connID, Alive(conn'[d])
                 PROVE  Owes(conn'[d], log'[client.connID], client', published', missed')
      BY <1>5 DEF Covered, Stays
    <3>1. d # c
      BY <1>2, <1>3, <1>4
    <3> QED  BY <1>2, <1>5, <3>1, OthersOwe
  <2>2. Stream!Next
    BY <1>3, <1>5 DEF Stream!Next, Stays
  <2> QED  BY <1>3, <2>1, <2>2
<1>6. CASE client' = Receive(m)
  <2>1. m.kind = "hello" /\ m.connID = nextID /\ m.seq = 0 /\ m.id \in Nat
    BY <1>1 DEF LostAs, DeadEvent
  <2>2. /\ client'.connID = nextID /\ client'.want = 0 + 1 /\ client'.last = m.id
        /\ client'.known = 1 .. published
    BY <1>2, <1>4, <1>6, <2>1, ReceiveIs DEF StreamInv
  <2>3. Len(log[nextID]) = 0
    BY <1>1, <1>2, <2>1 DEF Numbers
  <2>4. Stream!Follow(nextID)
    <3>1. Len(log'[nextID]) > 0 /\ log'[nextID][1] = m.id
      BY <1>3, <2>1, <2>3, AppendIs
    <3> QED  BY <1>4, <2>2, <3>1 DEF Stream!Follow
  <2>5. Stream!Next
    BY <1>3, <1>4, <2>4 DEF Stream!Next
  <2>6. Covered'
    BY <1>4, <2>2 DEF Covered, Owes
  <2> QED  BY <1>3, <2>5, <2>6
<1> QED  BY <1>1, <1>5, <1>6 DEF LostAs

LEMMA DrainStepRefines ==
  ASSUME StreamInv, NEW c \in Chains, DrainStep(c)
  PROVE  LogOK' /\ Covered' /\ Stream!Next
<1> DEFINE cn == conn[c]
           m == cn.deadQueue[cn.drain]
           g == cn.connID
<1>1. /\ conn[c] \in ConnState /\ ChainOK(conn[c]) /\ K(conn[c]) \in Nat
      /\ Ring(conn[c].deadQueue) /\ client \in ClientState
      /\ Listening(c) => ListenOK(conn[c], client)
  BY InvOf DEF StreamInv
<1>2. /\ cn.pump = "drain" /\ cn.drain \in Slots
      /\ cn.deadQueuePointer \in Slots
      /\ m \in DeadEvent /\ m.seq = cn.sequence
      /\ m.kind = "hello" => m.connID = g
      /\ HoldsLast(cn.deadQueue, cn.deadQueuePointer, K(cn))
      /\ m # Nil /\ g \in Nat /\ g # 0
  BY <1>1 DEF DrainStep, ConnState, ChainOK
<1>3. m.seq \in Nat /\ m.seq < K(cn)
  BY <1>1, <1>2, EntryBelow
<1>4. UNCHANGED <<nextID, published, missed, log>>
  BY DEF DrainStep
<1>5. /\ g \in 1 .. MaxConnIDs /\ Len(log[g]) = K(cn)
      /\ m.id = log[g][m.seq + 1] /\ (m.kind # "event" => m.id = 0)
  BY <1>2, LogOf DEF Logged
<1>6. PICK r : /\ conn' = [conn EXCEPT ![c] = r]
               /\ KeepsRing(r, cn) /\ r.queue = cn.queue
               /\ r.index = cn.index /\ r.pump # "new"
  <2> DEFINE With(p) == [cn EXCEPT !.pump = p, !.sequence = @ + 1,
                                   !.drain = Advance(cn.drain)]
  <2>1. PICK p \in {"run", "drain", "ended"} : conn' = [conn EXCEPT ![c] = With(p)]
    BY DEF DrainStep
  <2>2. /\ KeepsRing(With(p), cn) /\ With(p).queue = cn.queue
        /\ With(p).index = cn.index /\ With(p).pump # "new"
    BY <1>1 DEF ConnState, KeepsRing
  <2> HIDE DEF With
  <2> QED  BY <2>1, <2>2
<1>7. Stays \/ (Listening(c) /\ client' = Receive(m))
  BY FailsStays DEF DrainStep, WriteOK, Stays, StreamInv
<1>8. Alive(r) => Alive(cn)
  BY <1>6 DEF Alive
<1>9. CASE Stays
  BY <1>4, <1>6, <1>8, <1>9, SameQueue, OneKeeps DEF Stays
<1>10. CASE Listening(c) /\ client' = Receive(m)
  <2>1. client.connID = g /\ m.seq = client.want
    BY <1>1, <1>2, <1>10 DEF ListenOK, Fresh
  <2> HIDE DEF m, g
  <2>2. /\ client'.connID = g /\ client'.want = m.seq + 1 /\ client'.last = m.id
        /\ client'.known = IF m.kind = "event" THEN client.known \cup {m.id}
                           ELSE client.known
    BY <1>2, <1>10, <2>1, ReceiveIs DEF StreamInv
  <2>3. Stream!Deliver
    BY <1>2, <1>3, <1>4, <1>5, <2>1, <2>2 DEF Stream!Deliver
  <2>4. Stream!Next
    BY <1>4, <2>3 DEF Stream!Next
  <2>5. conn'[c] = r /\ \A d \in Chains \ {c} : conn'[d] = conn[d]
    BY <1>6 DEF StreamInv, Inv, TypeOK
  <2>6. LogOK'
    BY <1>4, <1>6, <1>8, <2>5 DEF StreamInv, LogOK, KeepsRing, Logged, K
  <2>7. ASSUME Alive(r), NEW e \in 1 .. published
        PROVE  \/ e \in Droppable \/ e \in missed \/ e \in client'.known
               \/ Queued(cn.queue, e) \/ Unseen(log[g], client'.want, e)
    <3>1. \/ e \in Droppable \/ e \in missed \/ e \in client.known
          \/ Queued(cn.queue, e) \/ Unseen(log[g], client.want, e)
      BY <1>2, <1>8, <2>1, <2>7 DEF StreamInv, Covered, Owes, g
    <3>2. ASSUME Unseen(log[g], client.want, e), e \notin client'.known
          PROVE  Unseen(log[g], client'.want, e)
      <4>1. PICK s \in client.want + 1 .. Len(log[g]) : log[g][s] = e
        BY <3>2 DEF Unseen
      <4>2. m.id # e
        BY <1>5, <2>2, <3>2, Types DEF StreamInv
      <4>3. s # m.seq + 1
        BY <1>5, <4>1, <4>2
      <4>4. s \in client'.want + 1 .. Len(log[g])
        BY <1>1, <1>3, <1>5, <2>1, <2>2, <4>1, <4>3
      <4> QED  BY <4>1, <4>4 DEF Unseen
    <3> QED  BY <2>2, <3>1, <3>2
  <2>8. Covered'
    <3> SUFFICES ASSUME NEW d \in Chains, conn'[d].connID = g, Alive(conn'[d])
                 PROVE  Owes(conn'[d], log[g], client', published, missed)
      BY <1>4, <2>2 DEF Covered
    <3>1. d = c
      <4> SUFFICES ASSUME d # c PROVE FALSE
        OBVIOUS
      <4>1. conn[d].connID = conn[c].connID
        BY <2>5 DEF g
      <4> QED  BY <1>2, <4>1 DEF StreamInv, Inv, IDsOK, g
    <3> QED  BY <1>6, <2>5, <2>7, <3>1 DEF Owes
  <2> QED  BY <2>4, <2>6, <2>8
<1> QED  BY <1>7, <1>9, <1>10

-----------------------------------------------------------------------------

(* The theorems. *)

LEMMA InitStream ==
  ASSUME Init
  PROVE  LogOK /\ Covered /\ Stream!Init
<1>1. \A c \in Chains : conn[c] = FreeConn
  BY DEF Init
<1>2. LogOK
  BY <1>1, FreeFacts, WebConnAssumption DEF Init, LogOK, QueueOK
<1>3. Covered
  BY DEF Init, Covered
<1>4. Stream!Init
  BY DEF Init, Stream!Init
<1> QED  BY <1>2, <1>3, <1>4

LEMMA NextStream ==
  ASSUME MaxEncodeErrors = 0, StreamInv, [Next]_vars
  PROVE  StreamInv' /\ Stream!Next
<1>1. Inv'
  BY NextInv DEF StreamInv
<1>2. ASSUME NEW c \in Chains, Connect(c) \/ HubStep(c) \/ DirectMsg(c)
      PROVE  LogOK' /\ Covered' /\ Stream!Next
  BY <1>2, ConnectRefines, RegisterRefines, UnregisterRefines, DirectMsgRefines
     DEF HubStep
<1>3. ASSUME NEW c \in Chains, EncodeFails(c)
      PROVE  FALSE
  BY <1>3 DEF EncodeFails, StreamInv, Inv, TypeOK
<1>4. ASSUME NEW c \in Chains, PumpStep(c) \/ PumpEnds(c)
      PROVE  LogOK' /\ Covered' /\ Stream!Next
  BY <1>3, <1>4, StartRefines, StartLossRefines, DrainStepRefines, TakenRefines,
     SendEventRefines, PumpEndsRefines DEF PumpStep
<1>5. LogOK' /\ Covered' /\ Stream!Next
  BY <1>2, <1>4, BroadcastRefines, SocketRefines DEF Next
<1> QED  BY <1>1, <1>5 DEF StreamInv

(* A ring that still has the event numbered m has every later one. *)
LEMMA LaterKept ==
  ASSUME NEW q, NEW ptr \in Slots, NEW k \in Nat, Ring(q), HoldsLast(q, ptr, k),
         NEW i \in Slots, q[i] # Nil, NEW n \in Nat, q[i].seq <= n, n < k
  PROVE  \E j \in Slots : q[j] # Nil /\ q[j].seq = n
<1> DEFINE N == deadQueueSize
<1>1. N \in Nat /\ N >= 2 /\ ptr \in Nat /\ ptr < N /\ i \in Nat /\ i < N
  BY DeadQueueSizeAssumption DEF Slots
<1>2. \A j \in Slots : j < ptr => q[j] # Nil /\ q[j].seq = (k - ptr) + j
  BY <1>1 DEF HoldsLast, Slots
<1>3. CASE k < N
  <2>1. ptr = k /\ n \in Slots
    BY <1>1, <1>3 DEF HoldsLast, Slots
  <2> QED  BY <1>2, <2>1
<1>4. CASE ~(k < N)
  <2>1. \A j \in Slots : ~(j < ptr) => q[j] # Nil /\ q[j].seq = ((k - N) - ptr) + j
    BY <1>1, <1>4 DEF HoldsLast, Slots
  <2>2. n >= k - N
    BY <1>1, <1>2, <1>4, <2>1
  <2>3. CASE n >= k - ptr
    <3>1. PICK j : j = n - (k - ptr)
      OBVIOUS
    <3>2. j \in Slots /\ j < ptr /\ (k - ptr) + j = n
      BY <1>1, <2>3, <3>1 DEF Slots
    <3> QED  BY <1>2, <3>2
  <2>4. CASE ~(n >= k - ptr)
    <3>1. PICK j : j = n - ((k - N) - ptr)
      OBVIOUS
    <3>2. j \in Slots /\ ~(j < ptr) /\ ((k - N) - ptr) + j = n
      BY <1>1, <2>2, <2>4, <3>1 DEF Slots
    <3> QED  BY <2>1, <3>2
  <2> QED  BY <2>3, <2>4
<1> QED  BY <1>3, <1>4

LEMMA StreamInvMeans ==
  ASSUME StreamInv
  PROVE  NoSilentLoss
<1> SUFFICES ASSUME NEW e \in 1 .. published, e \notin Droppable \cup missed,
                    e \notin client.known, ~LossWillBeAnnounced
             PROVE  Deliverable(e)
  BY DEF NoSilentLoss, SilentlyLost
<1>1. PICK c \in Chains :
        /\ conn[c].connID = client.connID
        /\ Indexed(c) \/ conn[c].pump = "new"
        /\ ~(client.want < K(conn[c])
             /\ IsInDeadQueue(conn[c].deadQueue, client.want) = {})
  BY DEF LossWillBeAnnounced, K
<1> DEFINE cn == conn[c]
           lg == log[client.connID]
<1>2. Alive(cn) /\ client.connID # 0
  BY <1>1 DEF Alive, Indexed, StreamInv, LogOK
<1>3. Queued(cn.queue, e) \/ Unseen(lg, client.want, e)
  BY <1>1, <1>2 DEF StreamInv, Covered, Owes
<1>4. CASE Queued(cn.queue, e)
  BY <1>1, <1>4 DEF Queued, Deliverable
<1>5. CASE Unseen(lg, client.want, e)
  <2>1. /\ cn \in ConnState /\ Ring(cn.deadQueue) /\ K(cn) \in Nat
        /\ HoldsLast(cn.deadQueue, cn.deadQueuePointer, K(cn))
        /\ cn.deadQueuePointer \in Slots /\ client.want \in Nat
    BY InvOf, Types DEF StreamInv, ChainOK, ConnState
  <2>2. Len(lg) = K(cn) /\ Logged(cn, lg)
    BY <1>1, <1>2, LogOf
  <2>3. PICK s \in client.want + 1 .. Len(lg) : lg[s] = e
    BY <1>5 DEF Unseen
  <2> HIDE DEF lg
  <2>4. /\ s - 1 \in Nat /\ client.want <= s - 1 /\ s - 1 < K(cn)
        /\ (s - 1) + 1 = s /\ client.want < K(cn)
    BY <2>1, <2>2, <2>3
  <2>5. PICK i \in Slots : cn.deadQueue[i] # Nil /\ cn.deadQueue[i].seq = client.want
    BY <1>1, <2>4 DEF IsInDeadQueue
  <2>6. PICK j \in Slots : cn.deadQueue[j] # Nil /\ cn.deadQueue[j].seq = s - 1
    BY <2>1, <2>4, <2>5, LaterKept
  <2>7. cn.deadQueue[j].id = e /\ cn.deadQueue[j].seq >= client.want
    BY <2>1, <2>2, <2>3, <2>4, <2>6 DEF Logged
  <2> QED  BY <1>1, <2>6, <2>7 DEF Deliverable
<1> QED  BY <1>3, <1>4, <1>5

(* No event published while the client's chain is in the hub's index is     *)
(* lost silently, whatever sockets fail and whenever the client resumes     *)
(* (web_conn.go:393-425, 600-635; web_hub.go:429-461): the client knows it, *)
(* it is on its way, or the client will be given another connection ID.     *)
THEOREM NoEventLostSilently ==
  ASSUME MaxEncodeErrors = 0
  PROVE  Spec => []NoSilentLoss
<1>1. Init => StreamInv
  BY InitInv, InitStream DEF StreamInv
<1>2. StreamInv /\ [Next]_vars => StreamInv'
  BY NextStream
<1>3. StreamInv => NoSilentLoss
  BY StreamInvMeans
<1> QED  BY <1>1, <1>2, <1>3, PTL DEF Spec

(* WebConn implements EventStream: through any reconnections and losses the *)
(* client sees each log from its hello, in order, without gap, repetition   *)
(* or event of another connection ID (web_conn.go:393-425, 463-501).        *)
THEOREM WebConnImplementsStream ==
  ASSUME MaxEncodeErrors = 0
  PROVE  Spec => StreamSpec
<1>1. Init => StreamInv /\ Stream!Init
  BY InitInv, InitStream DEF StreamInv
<1>2. StreamInv /\ [Next]_vars => StreamInv' /\ [Stream!Next]_(Stream!vars)
  BY NextStream
<1> QED  BY <1>1, <1>2, PTL DEF Spec, StreamSpec, Stream!Spec

=============================================================================
