----------------------------- MODULE EventStream -----------------------------
(***************************************************************************)
(* What a reliable websocket promises its client, with the sockets, queues *)
(* and pumps left out.  Every connection ID names a log of numbered        *)
(* events.  The client follows one log at a time, from its first entry (the *)
(* hello), and consumes it entry by entry: nothing is skipped, repeated or *)
(* taken from another log.  The only other thing that may happen to it is   *)
(* that it is told to follow a new log, from the start: that is how a loss  *)
(* is announced.                                                            *)
(***************************************************************************)
EXTENDS Naturals, Sequences

CONSTANTS ConnIDs,      \* the connection IDs, numbers from 1
          Entries       \* what a log is made of

VARIABLES log,          \* log[g]: the events numbered under connection ID g
          epoch,        \* the connection ID the client follows, 0 for none
          pos,          \* how many entries of that log it has consumed
          last          \* the last entry it consumed

vars == <<log, epoch, pos, last>>

Init == /\ log = [g \in ConnIDs |-> <<>>]
        /\ epoch = 0
        /\ pos = 0
        /\ last = 0

Number(g, e) == log' = [log EXCEPT ![g] = Append(@, e)]

(* The next entry of the log; it may have been numbered in the same step. *)
Deliver == /\ epoch # 0
           /\ pos < Len(log'[epoch])
           /\ pos' = pos + 1
           /\ last' = log'[epoch][pos + 1]
           /\ UNCHANGED epoch

Follow(g) == /\ g # epoch
             /\ Len(log'[g]) > 0
             /\ epoch' = g
             /\ pos' = 1
             /\ last' = log'[g][1]

Next == /\ \/ UNCHANGED log
           \/ \E g \in ConnIDs, e \in Entries : Number(g, e)
        /\ \/ UNCHANGED <<epoch, pos, last>>
           \/ Deliver
           \/ \E g \in ConnIDs : Follow(g)

Spec == Init /\ [][Next]_vars
=============================================================================
