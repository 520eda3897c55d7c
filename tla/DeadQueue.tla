----------------------------- MODULE DeadQueue -----------------------------
(***************************************************************************)
(* The dead queue of a WebConn (app/web_conn.go): the ring of the last     *)
(* deadQueueSize events written to the socket, kept so that a client that  *)
(* reconnects with the next sequence number it wants can be sent the       *)
(* events it missed.  This module holds the ring's operations, as          *)
(* operators on a slot function q and a write position ptr                 *)
(* (wc.deadQueue and wc.deadQueuePointer).  A slot holds Nil or an event,  *)
(* a record with a field seq.                                              *)
(***************************************************************************)
EXTENDS Integers

CONSTANTS deadQueueSize,  \* slots of the ring (128 in the code)
          Nil             \* the empty slot

(* drainDeadQueue compares the sequence numbers of neighbouring slots to find *)
(* where the ring wraps, so a ring has at least two slots.                    *)
ASSUME DeadQueueSizeAssumption == deadQueueSize \in Nat /\ deadQueueSize >= 2

Slots == 0 .. deadQueueSize - 1

EmptyDeadQueue == [i \in Slots |-> Nil]

(* Mutant of Advance: the wrap-around is missing. *)
AdvanceNoWrap(i) == i + 1

Advance(i) == (i + 1) % deadQueueSize

AddToDeadQueue(q, ptr, msg) == [q EXCEPT ![ptr] = msg]

(* The scan stops at the first empty slot; the set has at most one member,  *)
(* the index that isInDeadQueue returns, and is empty when it says false.   *)
IsInDeadQueue(q, seq) ==
  {i \in Slots : /\ q[i] # Nil
                 /\ q[i].seq = seq
                 /\ \A j \in 0 .. i - 1 : q[j] # Nil /\ q[j].seq # seq}

(* Mutant of HasMsgLoss: compares with the wanted number, not the one before. *)
HasMsgLossOffByOne(q, ptr, seq) ==
  IF ptr = 0
    THEN q[deadQueueSize - 1] # Nil /\ q[deadQueueSize - 1].seq # seq
    ELSE q[ptr - 1].seq # seq

HasMsgLoss(q, ptr, seq) ==
  IF ptr = 0
    THEN q[deadQueueSize - 1] # Nil /\ q[deadQueueSize - 1].seq # seq - 1
    ELSE q[ptr - 1].seq # seq - 1

(* Mutant of ClearDeadQueue: the loop ends one slot early. *)
ClearDeadQueueButLast(q) ==
  [i \in Slots |-> IF i < deadQueueSize - 1 /\ \A j \in 0 .. i : q[j] # Nil
                     THEN Nil ELSE q[i]]

(* clearDeadQueue returns at the first empty slot, before it resets the     *)
(* pointer.                                                                 *)
ClearDeadQueue(q) ==
  [i \in Slots |-> IF \A j \in 0 .. i : q[j] # Nil THEN Nil ELSE q[i]]

(* Mutant of ClearDeadQueuePointer: the pointer is never reset. *)
ClearDeadQueuePointerKept(q, ptr) == ptr

ClearDeadQueuePointer(q, ptr) ==
  IF \A i \in Slots : q[i] # Nil THEN 0 ELSE ptr

(* drainDeadQueue(index): whether the loop writes slot index at all, and    *)
(* whether it ends once slot i has been written.                            *)
DrainsFrom(q, ptr, index) == q[0] # Nil /\ (q[ptr] = Nil => index < ptr)

(* Mutant of DrainedAfter: the loop ends with the slice, before it wraps. *)
DrainedAfterEarly(q, ptr, i) ==
  IF q[ptr] = Nil THEN i + 1 >= ptr ELSE i = deadQueueSize - 1

DrainedAfter(q, ptr, i) ==
  IF q[ptr] = Nil THEN i + 1 >= ptr ELSE q[i].seq > q[Advance(i)].seq

-----------------------------------------------------------------------------

(* What the ring stands for when it is well formed. *)

(* The sequence number after that of the last event added. *)
NextSeq(q, ptr) ==
  IF ptr = 0
    THEN IF q[deadQueueSize - 1] = Nil THEN 0 ELSE q[deadQueueSize - 1].seq + 1
    ELSE IF q[ptr - 1] = Nil THEN 0 ELSE q[ptr - 1].seq + 1

Full(q) == \A i \in Slots : q[i] # Nil

(* With k events added since the ring was empty, the ring holds the last    *)
(* deadQueueSize of them, each in the slot its number determines.           *)
HoldsLast(q, ptr, k) ==
  /\ \A i \in 0 .. ptr - 1 : q[i] # Nil /\ q[i].seq = (k - ptr) + i
  /\ k < deadQueueSize => ptr = k
  /\ \A i \in ptr .. deadQueueSize - 1 :
       IF k < deadQueueSize
         THEN q[i] = Nil
         ELSE q[i] # Nil /\ q[i].seq = ((k - deadQueueSize) - ptr) + i
=============================================================================
