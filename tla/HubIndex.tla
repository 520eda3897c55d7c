------------------------------ MODULE HubIndex ------------------------------
(***************************************************************************)
(* hubConnectionIndex (app/web_hub.go): the connections of a hub, by user  *)
(* and by connection.  byUserId[u] is the slice of u's connections;        *)
(* byConnection[c] is the position of c in its user's slice, counted from  *)
(* 0, and Absent when c is not in the map.  The operators take the index   *)
(* ix and return the one the Go method leaves.                             *)
(***************************************************************************)
EXTENDS Integers, Sequences

CONSTANTS Conns,  \* the WebConn objects
          Users   \* the user IDs

Absent == -1

NewIndex == [byUserId     |-> [u \in Users |-> <<>>],
             byConnection |-> [c \in Conns |-> Absent]]

Has(ix, c) == ix.byConnection[c] # Absent

ForUser(ix, u) == ix.byUserId[u]

All(ix) == {c \in Conns : Has(ix, c)}

Add(ix, c, u) ==
  [byUserId     |-> [ix.byUserId EXCEPT ![u] = Append(@, c)],
   byConnection |-> [ix.byConnection EXCEPT ![c] = Len(ix.byUserId[u])]]

LastFor(ix, u) == ix.byUserId[u][Len(ix.byUserId[u])]

(* The slice s once position i has been overwritten by the last element     *)
(* and the slice shortened by one.                                          *)
SwapOut(s, i) ==
  [j \in 1 .. Len(s) - 1 |-> IF j = i + 1 THEN s[Len(s)] ELSE s[j]]

(* Mutant of Aliased: removal shifts the elements after c to the left. *)
AliasedShift(s, ix, c, u) ==
  [j \in DOMAIN s |-> IF j > ix.byConnection[c] /\ j < Len(ix.byUserId[u])
                        THEN s[j + 1] ELSE s[j]]

(* The backing array is written in place, so a slice header s that was read *)
(* before the removal, in a loop that is still ranging over it, sees the    *)
(* moved element and keeps its length.                                      *)
Aliased(s, ix, c, u) ==
  [s EXCEPT ![ix.byConnection[c] + 1] = LastFor(ix, u)]

(* Mutant of Remove: the moved connection keeps its old position. *)
RemoveForgets(ix, c, u) ==
  [byUserId     |-> [ix.byUserId EXCEPT ![u] = SwapOut(@, ix.byConnection[c])],
   byConnection |-> [ix.byConnection EXCEPT ![c] = Absent]]

Remove(ix, c, u) ==
  IF ~Has(ix, c)
    THEN ix
    ELSE [byUserId     |-> [ix.byUserId EXCEPT
                              ![u] = SwapOut(@, ix.byConnection[c])],
          byConnection |-> [ix.byConnection EXCEPT
                              ![LastFor(ix, u)] = ix.byConnection[c],
                              ![c] = Absent]]

(* Remove indexes the slice out of its range, a run-time panic. *)
RemovePanics(ix, c, u) ==
  Has(ix, c) /\ ix.byConnection[c] >= Len(ix.byUserId[u])

-----------------------------------------------------------------------------

(* The two maps describe the same set of connections: userOf[c] is the user *)
(* of c, every connection in byConnection is in its user's slice at the     *)
(* position recorded, and the slices hold nothing else.                     *)
Agrees(ix, userOf) ==
  /\ \A c \in Conns : Has(ix, c) =>
       /\ userOf[c] \in Users
       /\ ix.byConnection[c] \in 0 .. Len(ix.byUserId[userOf[c]]) - 1
       /\ ix.byUserId[userOf[c]][ix.byConnection[c] + 1] = c
  /\ \A u \in Users : \A i \in 1 .. Len(ix.byUserId[u]) :
       /\ userOf[ix.byUserId[u][i]] = u
       /\ ix.byConnection[ix.byUserId[u][i]] = i - 1
=============================================================================
