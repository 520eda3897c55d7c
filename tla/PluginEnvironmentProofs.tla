---------------------- MODULE PluginEnvironmentProofs ----------------------
(***************************************************************************)
(* Proofs about PluginEnvironment, for any number of requests and all      *)
(* limits and bounds: the health check's restarts are bounded whatever is  *)
(* interleaved, and no process is left behind if the operations come one   *)
(* at a time.                                                              *)
(***************************************************************************)
EXTENDS PluginEnvironment, TLAPS

(* ts has the end of s: as many times as the limit, or all of them. *)
EndOf(ts, s) ==
  /\ Len(ts) <= Len(s) /\ (Len(ts) < Limit => Len(ts) = Len(s))
  /\ \A j \in 1 .. Len(ts) : ts[j] = s[(Len(s) - Len(ts)) + j]

(* Between two checks the health check remembers its last restarts; while   *)
(* it restarts the plugin it has them, and this one, in hand.               *)
Remembers ==
  /\ \A a \in Syncers : op[a].then = "return"
  /\ IF op[Health].then = "restart"
       THEN EndOf(timestamps, restarts) /\ Len(timestamps) <= Limit + 1
       ELSE EndOf(failureTimestamps, restarts)
  /\ op[Health].pc \in {"idle", "check"} => op[Health].then = "return"

RestartInv == TypeOK /\ Remembers /\ RestartsBounded

-----------------------------------------------------------------------------

(* The process that will be found, and the one that Deactivate has in hand. *)
Kept == IF IsActive THEN {registered.sup} ELSE {}
InHand(o) == IF o.active THEN {o.p.sup} ELSE {}

Off == ~enabled /\ changes > 0

(* What holds at each place of the one operation that is going on. *)
OpOK(o) ==
  /\ o.pc = "idle" => o = Idle
  /\ o.pc \in {"idle", "sync", "check", "deactivate", "isActive", "activate"}
       => procs \subseteq Kept
  /\ o.pc = "isActive" => registered # None /\ o.p = registered
  /\ o.pc \in {"setPluginState", "store"} =>
       CASE o.set = "NotRunning" -> registered # None /\ procs \subseteq InHand(o)
         [] o.set = "Running" -> registered # None /\ procs \subseteq {registered.sup}
         [] OTHER -> procs = {}
  /\ o.pc = "store" => registered # None /\ o.sup = registered.sup
  /\ o.pc = "shutdown" => procs \subseteq InHand(o) /\ ~IsActive
  /\ o.pc \in {"register", "start"} => procs = {}
  /\ o.pc = "onActivate" => procs \subseteq {o.sup}
  /\ Off => /\ o.pc \in {"idle", "sync", "deactivate", "isActive",
                         "setPluginState", "store", "shutdown"}
            /\ o.then = "return"
            /\ o.pc \in {"setPluginState", "store"} => o.set = "NotRunning"
            /\ o.pc = "idle" => ~IsActive

OthersIdle(a) == \A b \in Actors \ {a} : op[b].pc = "idle"

Alone == /\ \E a \in Actors : OthersIdle(a)
         /\ \A a \in Actors : op[a].pc = "idle" => op[a] = Idle
         /\ \A a \in Actors : OthersIdle(a) => OpOK(op[a])

ProcInv == RestartInv /\ Alone

-----------------------------------------------------------------------------

(* Types of the operations. *)

PCs == {"idle", "sync", "deactivate", "isActive", "setPluginState", "store",
        "shutdown", "activate", "register", "start", "onActivate", "check"}

LEMMA OpSets ==
  ASSUME NEW o \in Operation, NEW pc \in PCs
  PROVE  /\ [o EXCEPT !.pc = pc] \in Operation
         /\ \A e \in Entries : [o EXCEPT !.p = e, !.pc = pc] \in Operation
         /\ \A b \in BOOLEAN, s \in States :
              [o EXCEPT !.active = b, !.set = s, !.pc = pc] \in Operation
         /\ \A n \in 0 .. MaxProcs : [o EXCEPT !.sup = n, !.pc = pc] \in Operation
         /\ \A s \in States : [o EXCEPT !.set = s, !.pc = pc] \in Operation
         /\ \A t \in {"return", "restart", "giveUp"} :
              [o EXCEPT !.pc = pc, !.then = t] \in Operation
         /\ \A s \in States, t \in {"return", "restart", "giveUp"} :
              [o EXCEPT !.pc = pc, !.set = s, !.then = t] \in Operation
  BY ZenonT(60) DEF Operation, PCs

LEMMA IdleType ==
  ASSUME PluginAssumption
  PROVE  Idle \in Operation
<1>1. 0 \in 0 .. MaxProcs
  BY DEF PluginAssumption
<1> QED  BY <1>1 DEF Idle, Operation, Entries, States

(* What the fields of an operation are after a step of it. *)
LEMMA OpIs ==
  ASSUME TypeOK, NEW a \in Actors, NEW r, op' = [op EXCEPT ![a] = r]
  PROVE  op'[a] = r /\ op' = [op EXCEPT ![a] = op'[a]]
  BY DEF TypeOK

LEMMA GoIs ==
  ASSUME TypeOK, NEW a \in Actors, NEW pc \in PCs, Go(a, pc)
  PROVE  /\ op'[a] \in Operation /\ op' = [op EXCEPT ![a] = op'[a]]
         /\ op'[a].pc = pc /\ op'[a].p = op[a].p /\ op'[a].active = op[a].active
         /\ op'[a].sup = op[a].sup /\ op'[a].set = op[a].set
         /\ op'[a].then = op[a].then
<1>1. op[a] \in Operation
  BY DEF TypeOK
<1> DEFINE r == [op[a] EXCEPT !.pc = pc]
<1>2. op' = [op EXCEPT ![a] = r]
  BY DEF Go
<1>3. r \in Operation
  BY <1>1, OpSets
<1>4. /\ r.pc = pc /\ r.p = op[a].p /\ r.active = op[a].active
      /\ r.sup = op[a].sup /\ r.set = op[a].set /\ r.then = op[a].then
  BY <1>1 DEF Operation
<1> HIDE DEF r
<1> QED  BY <1>2, <1>3, <1>4, OpIs

(* A step of operation a: what it may do to the types and the restarts. *)
Moves(a) ==
  /\ op'[a] \in Operation /\ op' = [op EXCEPT ![a] = op'[a]]
  /\ UNCHANGED <<timestamps, restarts, now, crashes>>
  /\ enabled' \in BOOLEAN /\ changes' \in 0 .. MaxChanges
  /\ registered' \in Entries
  /\ started' \in 0 .. MaxProcs /\ procs' \subseteq 1 .. started' /\ hung' \subseteq procs'
  /\ \/ /\ op'[a].then = op[a].then /\ UNCHANGED failureTimestamps
        /\ op'[a].pc # "idle" /\ (op'[a].pc = "check" => op[a].pc = "idle")
     \/ /\ op'[a] = Idle
        /\ failureTimestamps' = IF op[a].then = "restart"
                                  THEN removeStaleTimestamps(timestamps)
                                  ELSE failureTimestamps

(* Its end. *)
LEMMA EndIs ==
  ASSUME PluginAssumption, TypeOK, NEW a \in Actors, op' = [op EXCEPT ![a] = Idle]
  PROVE  op'[a] = Idle /\ op'[a] \in Operation /\ op' = [op EXCEPT ![a] = op'[a]]
  BY OpIs, IdleType

LEMMA SaveConfigMoves ==
  ASSUME PluginAssumption, TypeOK, NEW a \in Actors, NEW e \in BOOLEAN,
         SaveConfig(a, e)
  PROVE  Moves(a) /\ (OneAtATime /\ OpOK(op[a]) => OpOK(op[a])')
<1>1. /\ Go(a, "sync") /\ op[a].pc = "idle" /\ "sync" \in PCs
      /\ UNCHANGED <<registered, procs, hung, started, failureTimestamps,
                     timestamps, restarts, now, crashes>>
      /\ enabled' = e /\ changes' = changes + 1 /\ changes < MaxChanges
  BY DEF SaveConfig, MayBegin, PCs
<1>2. /\ op'[a] \in Operation /\ op' = [op EXCEPT ![a] = op'[a]]
      /\ op'[a].pc = "sync" /\ op'[a].then = op[a].then
  BY <1>1, GoIs
<1>3. Moves(a)
  BY <1>1, <1>2 DEF Moves, TypeOK, PluginAssumption
<1>4. OpOK(op[a]) => OpOK(op[a])'
  BY <1>1, <1>2 DEF OpOK, Idle, Kept, IsActive, Off
<1> QED  BY <1>3, <1>4

LEMMA SyncMoves ==
  ASSUME PluginAssumption, TypeOK, NEW a \in Actors, syncPluginsActiveState(a)
  PROVE  Moves(a) /\ (OpOK(op[a]) => OpOK(op[a])')
<1>1. /\ Go(a, IF enabled THEN "activate" ELSE "deactivate") /\ op[a].pc = "sync"
      /\ UNCHANGED <<enabled, registered, procs, hung, started, failureTimestamps,
                     timestamps, restarts, now, changes, crashes>>
  BY DEF syncPluginsActiveState, At
<1>2. /\ op'[a] \in Operation /\ op' = [op EXCEPT ![a] = op'[a]]
      /\ op'[a].pc = (IF enabled THEN "activate" ELSE "deactivate")
      /\ op'[a].then = op[a].then
  BY <1>1, GoIs DEF PCs
<1>3. Moves(a)
  BY <1>1, <1>2 DEF Moves, TypeOK
<1>4. OpOK(op[a]) => OpOK(op[a])'
  BY <1>1, <1>2 DEF OpOK, Kept, IsActive, Off
<1> QED  BY <1>3, <1>4

(* The end of Deactivate: nothing is alive. *)
LEMMA AfterDeactivateIs ==
  ASSUME PluginAssumption, TypeOK, NEW a \in Actors, AfterDeactivate(a)
  PROVE  /\ op'[a] \in Operation /\ op' = [op EXCEPT ![a] = op'[a]]
         /\ \/ op[a].then = "return" /\ op'[a] = Idle
            \/ /\ op'[a].then = op[a].then /\ op[a].then # "return"
               /\ op'[a].pc \in {"activate", "setPluginState"}
         /\ procs' = {} /\ ~IsActive' /\ (Off' => op[a].then = "return")
              => OpOK(op[a])'
<1>1. op[a].then \in {"return", "restart", "giveUp"} /\ Idle \in Operation
  BY IdleType DEF TypeOK, Operation
<1>2. CASE op[a].then = "return"
  <2>1. op' = [op EXCEPT ![a] = Idle]
    BY <1>2 DEF AfterDeactivate
  <2>2. op'[a] = Idle /\ op'[a] \in Operation /\ op' = [op EXCEPT ![a] = op'[a]]
    BY <2>1, EndIs
  <2>3. procs' = {} /\ ~IsActive' => OpOK(op[a])'
    BY <2>2 DEF OpOK, Idle
  <2> QED  BY <1>2, <2>2, <2>3
<1>3. CASE op[a].then = "restart"
  <2> DEFINE r == [Idle EXCEPT !.pc = "activate", !.then = "restart"]
  <2>1. op' = [op EXCEPT ![a] = r]
    BY <1>3 DEF AfterDeactivate
  <2>2. r \in Operation
    BY <1>1, OpSets DEF PCs
  <2>3. r.pc = "activate" /\ r.then = "restart"
    BY DEF Idle
  <2> HIDE DEF r
  <2>4. op'[a] = r /\ op' = [op EXCEPT ![a] = op'[a]]
    BY <2>1, OpIs
  <2>5. procs' = {} /\ ~Off' => OpOK(op[a])'
    BY <2>3, <2>4 DEF OpOK
  <2> QED  BY <1>3, <2>2, <2>3, <2>4, <2>5
<1>4. CASE op[a].then = "giveUp"
  <2> DEFINE r == [Idle EXCEPT !.pc = "setPluginState",
                               !.set = "FailedToStayRunning", !.then = "giveUp"]
  <2>1. op' = [op EXCEPT ![a] = r]
    BY <1>4 DEF AfterDeactivate
  <2>2. r \in Operation
    BY <1>1, OpSets DEF PCs, States
  <2>3. r.pc = "setPluginState" /\ r.then = "giveUp" /\ r.set = "FailedToStayRunning"
    BY DEF Idle
  <2> HIDE DEF r
  <2>4. op'[a] = r /\ op' = [op EXCEPT ![a] = op'[a]]
    BY <2>1, OpIs
  <2>5. procs' = {} /\ ~Off' => OpOK(op[a])'
    BY <2>3, <2>4 DEF OpOK
  <2> QED  BY <1>4, <2>2, <2>3, <2>4, <2>5
<1> QED  BY <1>1, <1>2, <1>3, <1>4

LEMMA DeactivateLoadMoves ==
  ASSUME PluginAssumption, TypeOK, NEW a \in Actors, DeactivateLoad(a)
  PROVE  Moves(a) /\ (OpOK(op[a]) => OpOK(op[a])')
<1>1. /\ op[a].pc = "deactivate" /\ op[a] \in Operation /\ registered \in Entries
      /\ UNCHANGED <<enabled, registered, procs, hung, started, failureTimestamps,
                     timestamps, restarts, now, changes, crashes>>
  BY DEF DeactivateLoad, At, TypeOK
<1>2. CASE registered = None /\ AfterDeactivate(a)
  <2>1. Moves(a)
    BY <1>1, <1>2, AfterDeactivateIs DEF Moves, TypeOK
  <2>2. OpOK(op[a]) => procs' = {} /\ ~IsActive' /\ (Off' => op[a].then = "return")
    BY <1>1, <1>2 DEF OpOK, Kept, IsActive, Off
  <2> QED  BY <1>2, <2>1, <2>2, AfterDeactivateIs
<1>3. CASE /\ registered # None
           /\ op' = [op EXCEPT ![a].p = registered, ![a].pc = "isActive"]
  <2> DEFINE r == [op[a] EXCEPT !.p = registered, !.pc = "isActive"]
  <2>1. op' = [op EXCEPT ![a] = r]
    BY <1>3
  <2>2. r \in Operation
    BY <1>1, OpSets DEF PCs
  <2>3. r.pc = "isActive" /\ r.p = registered /\ r.then = op[a].then
    BY <1>1 DEF Operation
  <2> HIDE DEF r
  <2>4. op'[a] = r /\ op' = [op EXCEPT ![a] = op'[a]]
    BY <2>1, OpIs
  <2>5. Moves(a)
    BY <1>1, <2>2, <2>3, <2>4 DEF Moves, TypeOK
  <2>6. OpOK(op[a]) => OpOK(op[a])'
    BY <1>1, <1>3, <2>3, <2>4 DEF OpOK, Kept, IsActive, Off
  <2> QED  BY <2>5, <2>6
<1> QED  BY <1>2, <1>3 DEF DeactivateLoad

LEMMA DeactivateIsActiveMoves ==
  ASSUME PluginAssumption, TypeOK, NEW a \in Actors, DeactivateIsActive(a)
  PROVE  Moves(a) /\ (OpOK(op[a]) => OpOK(op[a])')
<1>1. /\ op[a].pc = "isActive" /\ op[a] \in Operation
      /\ UNCHANGED <<enabled, registered, procs, hung, started, failureTimestamps,
                     timestamps, restarts, now, changes, crashes>>
  BY DEF DeactivateIsActive, At, TypeOK
<1> DEFINE r == [op[a] EXCEPT !.active = IsActive, !.set = "NotRunning",
                              !.pc = "setPluginState"]
<1>2. op' = [op EXCEPT ![a] = r]
  BY DEF DeactivateIsActive
<1>3. r \in Operation
  <2>1. IsActive \in BOOLEAN /\ "NotRunning" \in States /\ "setPluginState" \in PCs
    BY DEF IsActive, States, PCs
  <2> QED  BY <1>1, <2>1, OpSets
<1>4. /\ r.pc = "setPluginState" /\ r.set = "NotRunning" /\ r.active = IsActive
      /\ r.then = op[a].then /\ r.p = op[a].p
  BY <1>1 DEF Operation
<1> HIDE DEF r
<1>5. op'[a] = r /\ op' = [op EXCEPT ![a] = op'[a]]
  BY <1>2, OpIs
<1>6. Moves(a)
  BY <1>1, <1>3, <1>4, <1>5 DEF Moves, TypeOK
<1>7. OpOK(op[a]) => OpOK(op[a])'
  BY <1>1, <1>4, <1>5 DEF OpOK, Kept, InHand, IsActive, Off
<1> QED  BY <1>6, <1>7

LEMMA DeactivateShutdownMoves ==
  ASSUME PluginAssumption, TypeOK, NEW a \in Actors, DeactivateShutdown(a)
  PROVE  Moves(a) /\ (OpOK(op[a]) => OpOK(op[a])')
<1>1. /\ op[a].pc = "shutdown" /\ AfterDeactivate(a)
      /\ procs' = procs \ InHand(op[a]) /\ hung' = hung \ InHand(op[a])
      /\ UNCHANGED <<enabled, registered, started, failureTimestamps,
                     timestamps, restarts, now, changes, crashes>>
  BY DEF DeactivateShutdown, At, InHand
<1>2. Moves(a)
  BY <1>1, AfterDeactivateIs DEF Moves, TypeOK
<1>3. OpOK(op[a]) => procs' = {} /\ ~IsActive' /\ (Off' => op[a].then = "return")
  BY <1>1 DEF OpOK, IsActive, Off
<1> QED  BY <1>1, <1>2, <1>3, AfterDeactivateIs

(* The end of setPluginState. *)
LEMMA AfterSetIs ==
  ASSUME PluginAssumption, TypeOK, NEW a \in Actors, AfterSet(a)
  PROVE  /\ op'[a] \in Operation /\ op' = [op EXCEPT ![a] = op'[a]]
         /\ \/ /\ op[a].set = "NotRunning" /\ UNCHANGED failureTimestamps
               /\ op'[a].pc = "shutdown" /\ op'[a].then = op[a].then
               /\ op'[a].active = op[a].active /\ op'[a].p = op[a].p
            \/ /\ op[a].set # "NotRunning" /\ op'[a] = Idle
               /\ failureTimestamps' = IF op[a].then = "restart"
                                         THEN removeStaleTimestamps(timestamps)
                                         ELSE failureTimestamps
<1>1. CASE op[a].set = "NotRunning" /\ Go(a, "shutdown") /\ UNCHANGED failureTimestamps
  BY <1>1, GoIs DEF PCs
<1>2. CASE /\ op[a].set # "NotRunning" /\ op' = [op EXCEPT ![a] = Idle]
           /\ failureTimestamps' = IF op[a].then = "restart"
                                     THEN removeStaleTimestamps(timestamps)
                                     ELSE failureTimestamps
  BY <1>2, EndIs
<1> QED  BY <1>1, <1>2 DEF AfterSet

LEMMA SetLoadMoves ==
  ASSUME PluginAssumption, TypeOK, NEW a \in Actors, setPluginStateLoad(a)
  PROVE  Moves(a) /\ (OpOK(op[a]) => OpOK(op[a])')
<1>1. /\ op[a].pc = "setPluginState" /\ op[a] \in Operation /\ registered \in Entries
      /\ UNCHANGED <<enabled, registered, procs, hung, started,
                     timestamps, restarts, now, changes, crashes>>
  BY DEF setPluginStateLoad, At, TypeOK
<1>2. CASE registered = None /\ AfterSet(a)
  <2>1. Moves(a)
    BY <1>1, <1>2, AfterSetIs DEF Moves, TypeOK
  <2>2. ASSUME OpOK(op[a])
        PROVE  op'[a] = Idle /\ procs = {} /\ ~Off
    BY <1>1, <1>2, <2>2, AfterSetIs DEF OpOK
  <2>3. OpOK(op[a]) => OpOK(op[a])'
    BY <1>1, <2>2 DEF OpOK, Idle, Off
  <2> QED  BY <2>1, <2>3
<1>3. CASE /\ registered # None
           /\ op' = [op EXCEPT ![a].sup = registered.sup, ![a].pc = "store"]
           /\ UNCHANGED failureTimestamps
  <2> DEFINE r == [op[a] EXCEPT !.sup = registered.sup, !.pc = "store"]
  <2>1. op' = [op EXCEPT ![a] = r]
    BY <1>3
  <2>2. registered.sup \in 0 .. MaxProcs
    BY <1>1, <1>3 DEF Entries
  <2>3. r \in Operation
    BY <1>1, <2>2, OpSets DEF PCs
  <2>4. /\ r.pc = "store" /\ r.sup = registered.sup /\ r.then = op[a].then
        /\ r.set = op[a].set /\ r.active = op[a].active /\ r.p = op[a].p
    BY <1>1 DEF Operation
  <2> HIDE DEF r
  <2>5. op'[a] = r /\ op' = [op EXCEPT ![a] = op'[a]]
    BY <2>1, OpIs
  <2>6. Moves(a)
    BY <1>1, <1>3, <2>3, <2>4, <2>5 DEF Moves, TypeOK
  <2>7. OpOK(op[a]) => OpOK(op[a])'
    BY <1>1, <1>3, <2>4, <2>5 DEF OpOK, InHand, Off
  <2> QED  BY <2>6, <2>7
<1> QED  BY <1>2, <1>3 DEF setPluginStateLoad

LEMMA SetStoreMoves ==
  ASSUME PluginAssumption, TypeOK, NEW a \in Actors, setPluginStateStore(a)
  PROVE  Moves(a) /\ (OpOK(op[a]) => OpOK(op[a])')
<1>1. /\ op[a].pc = "store" /\ op[a] \in Operation /\ AfterSet(a)
      /\ registered' = [state |-> op[a].set, sup |-> op[a].sup]
      /\ UNCHANGED <<enabled, procs, hung, started,
                     timestamps, restarts, now, changes, crashes>>
  BY DEF setPluginStateStore, At, TypeOK
<1>2. /\ registered' \in Entries /\ registered' # None
      /\ registered'.state = op[a].set /\ registered'.sup = op[a].sup
  BY <1>1 DEF Operation, Entries, PluginAssumption
<1>3. Moves(a)
  BY <1>1, <1>2, AfterSetIs DEF Moves, TypeOK
<1>4. OpOK(op[a]) => OpOK(op[a])'
  <2>1. CASE op[a].set = "NotRunning"
    <3>1. /\ op'[a].pc = "shutdown" /\ op'[a].then = op[a].then
          /\ op'[a].active = op[a].active /\ op'[a].p = op[a].p
      BY <1>1, <2>1, AfterSetIs
    <3> QED  BY <1>1, <1>2, <2>1, <3>1 DEF OpOK, InHand, IsActive, Off
  <2>2. CASE op[a].set # "NotRunning"
    <3>1. op'[a] = Idle
      BY <1>1, <2>2, AfterSetIs
    <3> QED  BY <1>1, <1>2, <2>2, <3>1 DEF OpOK, Idle, Kept, IsActive, Off
  <2> QED  BY <2>1, <2>2
<1> QED  BY <1>3, <1>4

LEMMA ActivateCheckMoves ==
  ASSUME PluginAssumption, TypeOK, NEW a \in Actors, ActivateCheck(a)
  PROVE  Moves(a) /\ (OpOK(op[a]) => OpOK(op[a])')
<1>1. /\ op[a].pc = "activate"
      /\ UNCHANGED <<enabled, registered, procs, hung, started,
                     timestamps, restarts, now, changes, crashes>>
  BY DEF ActivateCheck, At
<1>2. CASE /\ IsActive /\ op' = [op EXCEPT ![a] = Idle]
           /\ failureTimestamps' = IF op[a].then = "restart"
                                     THEN removeStaleTimestamps(timestamps)
                                     ELSE failureTimestamps
  <2>1. op'[a] = Idle /\ op'[a] \in Operation /\ op' = [op EXCEPT ![a] = op'[a]]
    BY <1>2, EndIs
  <2>2. Moves(a)
    BY <1>1, <1>2, <2>1 DEF Moves, TypeOK
  <2>3. OpOK(op[a]) => OpOK(op[a])'
    BY <1>1, <2>1 DEF OpOK, Idle, Kept, IsActive, Off
  <2> QED  BY <2>2, <2>3
<1>3. CASE ~IsActive /\ Go(a, "register") /\ UNCHANGED failureTimestamps
  <2>1. /\ op'[a] \in Operation /\ op' = [op EXCEPT ![a] = op'[a]]
        /\ op'[a].pc = "register" /\ op'[a].then = op[a].then
    BY <1>3, GoIs DEF PCs
  <2>2. Moves(a)
    BY <1>1, <1>3, <2>1 DEF Moves, TypeOK
  <2>3. OpOK(op[a]) => OpOK(op[a])'
    BY <1>1, <1>3, <2>1 DEF OpOK, Kept, Off
  <2> QED  BY <2>2, <2>3
<1> QED  BY <1>2, <1>3 DEF ActivateCheck

LEMMA ActivateRegisterMoves ==
  ASSUME PluginAssumption, TypeOK, NEW a \in Actors, ActivateRegister(a)
  PROVE  Moves(a) /\ (OpOK(op[a]) => OpOK(op[a])')
<1>1. /\ op[a].pc = "register" /\ Go(a, "start")
      /\ registered' = [state |-> "NotRunning", sup |-> 0]
      /\ UNCHANGED <<enabled, procs, hung, started, failureTimestamps,
                     timestamps, restarts, now, changes, crashes>>
  BY DEF ActivateRegister, At
<1>2. /\ op'[a] \in Operation /\ op' = [op EXCEPT ![a] = op'[a]]
      /\ op'[a].pc = "start" /\ op'[a].then = op[a].then
  BY <1>1, GoIs DEF PCs
<1>3. registered' \in Entries
  BY <1>1 DEF Entries, States, PluginAssumption
<1>4. Moves(a)
  BY <1>1, <1>2, <1>3 DEF Moves, TypeOK
<1>5. OpOK(op[a]) => OpOK(op[a])'
  BY <1>1, <1>2 DEF OpOK, Off
<1> QED  BY <1>4, <1>5

LEMMA ActivateFailsIs ==
  ASSUME TypeOK, NEW a \in Actors, ActivateFails(a)
  PROVE  /\ op'[a] \in Operation /\ op' = [op EXCEPT ![a] = op'[a]]
         /\ op'[a].pc = "setPluginState" /\ op'[a].set = "FailedToStart"
         /\ op'[a].then = op[a].then
<1>1. op[a] \in Operation
  BY DEF TypeOK
<1> DEFINE r == [op[a] EXCEPT !.set = "FailedToStart", !.pc = "setPluginState"]
<1>2. op' = [op EXCEPT ![a] = r]
  BY DEF ActivateFails
<1>3. r \in Operation
  BY <1>1, OpSets DEF PCs, States
<1>4. r.pc = "setPluginState" /\ r.set = "FailedToStart" /\ r.then = op[a].then
  BY <1>1 DEF Operation
<1> HIDE DEF r
<1> QED  BY <1>2, <1>3, <1>4, OpIs

LEMMA NewSupervisorMoves ==
  ASSUME PluginAssumption, TypeOK, NEW a \in Actors, newSupervisor(a)
  PROVE  Moves(a) /\ (OpOK(op[a]) => OpOK(op[a])')
<1>1. /\ op[a].pc = "start" /\ op[a] \in Operation
      /\ UNCHANGED <<enabled, registered, hung, failureTimestamps,
                     timestamps, restarts, now, changes, crashes>>
  BY DEF newSupervisor, At, TypeOK
<1>2. CASE /\ started < MaxProcs
           /\ started' = started + 1 /\ procs' = procs \cup {started + 1}
           /\ op' = [op EXCEPT ![a].sup = started + 1, ![a].pc = "onActivate"]
  <2> DEFINE r == [op[a] EXCEPT !.sup = started + 1, !.pc = "onActivate"]
  <2>1. op' = [op EXCEPT ![a] = r]
    BY <1>2
  <2>2. started + 1 \in 0 .. MaxProcs
    BY <1>2 DEF TypeOK, PluginAssumption
  <2>3. r \in Operation
    BY <1>1, <2>2, OpSets DEF PCs
  <2>4. r.pc = "onActivate" /\ r.sup = started + 1 /\ r.then = op[a].then
    BY <1>1 DEF Operation
  <2> HIDE DEF r
  <2>5. op'[a] = r /\ op' = [op EXCEPT ![a] = op'[a]]
    BY <2>1, OpIs
  <2>6. procs' \subseteq 1 .. started' /\ hung' \subseteq procs'
    BY <1>1, <1>2 DEF TypeOK, PluginAssumption
  <2>7. Moves(a)
    BY <1>1, <1>2, <2>2, <2>3, <2>4, <2>5, <2>6 DEF Moves, TypeOK
  <2>8. OpOK(op[a]) => OpOK(op[a])'
    BY <1>1, <1>2, <2>4, <2>5 DEF OpOK, Off
  <2> QED  BY <2>7, <2>8
<1>3. CASE ActivateFails(a) /\ UNCHANGED <<started, procs>>
  <2>1. Moves(a)
    BY <1>1, <1>3, ActivateFailsIs DEF Moves, TypeOK
  <2>2. OpOK(op[a]) => OpOK(op[a])'
    BY <1>1, <1>3, ActivateFailsIs DEF OpOK, Off
  <2> QED  BY <2>1, <2>2
<1> QED  BY <1>2, <1>3 DEF newSupervisor

LEMMA OnActivateMoves ==
  ASSUME PluginAssumption, TypeOK, NEW a \in Actors, OnActivate(a)
  PROVE  Moves(a) /\ (OpOK(op[a]) => OpOK(op[a])')
<1>1. /\ op[a].pc = "onActivate" /\ op[a] \in Operation
      /\ UNCHANGED <<enabled, started, failureTimestamps,
                     timestamps, restarts, now, changes, crashes>>
  BY DEF OnActivate, At, TypeOK
<1>2. CASE /\ registered' = [state |-> "NotRunning", sup |-> op[a].sup]
           /\ op' = [op EXCEPT ![a].set = "Running", ![a].pc = "setPluginState"]
           /\ UNCHANGED <<procs, hung>>
  <2> DEFINE r == [op[a] EXCEPT !.set = "Running", !.pc = "setPluginState"]
  <2>1. op' = [op EXCEPT ![a] = r]
    BY <1>2
  <2>2. r \in Operation
    BY <1>1, OpSets DEF PCs, States
  <2>3. r.pc = "setPluginState" /\ r.set = "Running" /\ r.then = op[a].then
    BY <1>1 DEF Operation
  <2> HIDE DEF r
  <2>4. op'[a] = r /\ op' = [op EXCEPT ![a] = op'[a]]
    BY <2>1, OpIs
  <2>5. registered' \in Entries /\ registered' # None /\ registered'.sup = op[a].sup
    BY <1>1, <1>2 DEF Operation, Entries, States, PluginAssumption
  <2>6. Moves(a)
    BY <1>1, <1>2, <2>2, <2>3, <2>4, <2>5 DEF Moves, TypeOK
  <2>7. OpOK(op[a]) => OpOK(op[a])'
    BY <1>1, <1>2, <2>3, <2>4, <2>5 DEF OpOK, Off
  <2> QED  BY <2>6, <2>7
<1>3. CASE /\ procs' = procs \ {op[a].sup} /\ hung' = hung \ {op[a].sup}
           /\ ActivateFails(a) /\ UNCHANGED registered
  <2>1. Moves(a)
    BY <1>1, <1>3, ActivateFailsIs DEF Moves, TypeOK
  <2>2. OpOK(op[a]) => OpOK(op[a])'
    BY <1>1, <1>3, ActivateFailsIs DEF OpOK, Off
  <2> QED  BY <2>1, <2>2
<1> QED  BY <1>2, <1>3 DEF OnActivate

(* Off and idle, nothing is active: the ticker has nothing to look at. *)
LEMMA HealthTickMoves ==
  ASSUME PluginAssumption, TypeOK, HealthTick
  PROVE  Moves(Health) /\ (OpOK(op[Health]) => OpOK(op[Health])')
<1>1. /\ op[Health].pc = "idle" /\ IsActive /\ Go(Health, "check") /\ Health \in Actors
      /\ UNCHANGED <<enabled, registered, procs, hung, started, failureTimestamps,
                     timestamps, restarts, now, changes, crashes>>
  BY DEF HealthTick, MayBegin, Actors
<1>2. /\ op'[Health] \in Operation /\ op' = [op EXCEPT ![Health] = op'[Health]]
      /\ op'[Health].pc = "check" /\ op'[Health].then = op[Health].then
  BY <1>1, GoIs DEF PCs
<1>3. Moves(Health)
  BY <1>1, <1>2 DEF Moves, TypeOK
<1>4. OpOK(op[Health]) => OpOK(op[Health])'
  BY <1>1, <1>2 DEF OpOK, Idle, Kept, IsActive, Off
<1> QED  BY <1>3, <1>4

LEMMA StepMoves ==
  ASSUME PluginAssumption, TypeOK, NEW a \in Actors, Step(a)
  PROVE  Moves(a) /\ (OpOK(op[a]) => OpOK(op[a])')
  BY SyncMoves, DeactivateLoadMoves, DeactivateIsActiveMoves, DeactivateShutdownMoves,
     SetLoadMoves, SetStoreMoves, ActivateCheckMoves, ActivateRegisterMoves,
     NewSupervisorMoves, OnActivateMoves
     DEF Step

-----------------------------------------------------------------------------

(* The times of the restarts. *)

(* removeStaleTimestamps keeps the end. *)
LEMMA TrimEnd ==
  ASSUME PluginAssumption, NEW ts \in Seq(Nat), NEW s \in Seq(Nat), EndOf(ts, s)
  PROVE  /\ removeStaleTimestamps(ts) \in Seq(Nat)
         /\ Len(removeStaleTimestamps(ts)) <= Limit
         /\ EndOf(removeStaleTimestamps(ts), s)
<1>1. Len(ts) \in Nat /\ Len(s) \in Nat /\ Limit \in Nat \ {0}
  BY DEF PluginAssumption
<1>2. CASE Len(ts) > Limit
  <2> DEFINE t == SubSeq(ts, Len(ts) - Limit + 1, Len(ts))
  <2>1. /\ t \in Seq(Nat) /\ Len(t) = Limit
        /\ \A j \in 1 .. Limit : t[j] = ts[(Len(ts) - Limit) + j]
    BY <1>1, <1>2
  <2> HIDE DEF t
  <2>2. \A j \in 1 .. Len(t) : t[j] = s[(Len(s) - Len(t)) + j]
    <3> SUFFICES ASSUME NEW j \in 1 .. Len(t)
                 PROVE  t[j] = s[(Len(s) - Len(t)) + j]
      OBVIOUS
    <3>1. (Len(ts) - Limit) + j \in 1 .. Len(ts)
      <4>1. j \in 1 .. Limit /\ Limit \in Nat
        BY <1>1, <2>1
      <4> QED  BY <1>1, <1>2, <4>1
    <3>2. ts[(Len(ts) - Limit) + j] = s[(Len(s) - Len(ts)) + ((Len(ts) - Limit) + j)]
      BY <3>1 DEF EndOf
    <3>3. (Len(s) - Len(ts)) + ((Len(ts) - Limit) + j) = (Len(s) - Len(t)) + j
      BY <1>1, <2>1
    <3> QED  BY <2>1, <3>2, <3>3
  <2>3. EndOf(t, s)
    BY <1>1, <1>2, <2>1, <2>2 DEF EndOf
  <2>4. removeStaleTimestamps(ts) = t
    BY <1>2 DEF removeStaleTimestamps, t
  <2> QED  BY <1>1, <2>1, <2>3, <2>4
<1>3. CASE ~(Len(ts) > Limit)
  BY <1>1, <1>3 DEF removeStaleTimestamps
<1> QED  BY <1>2, <1>3

LEMMA AppendEnd ==
  ASSUME NEW ts \in Seq(Nat), NEW s \in Seq(Nat), NEW n \in Nat, EndOf(ts, s),
         Limit \in Nat
  PROVE  EndOf(Append(ts, n), Append(s, n))
<1> DEFINE t == Append(ts, n)
           u == Append(s, n)
<1>1. /\ Len(ts) \in Nat /\ Len(s) \in Nat /\ Len(t) = Len(ts) + 1 /\ Len(u) = Len(s) + 1
      /\ t[Len(t)] = n /\ u[Len(u)] = n
      /\ \A j \in 1 .. Len(ts) : t[j] = ts[j]
      /\ \A j \in 1 .. Len(s) : u[j] = s[j]
  OBVIOUS
<1> HIDE DEF t, u
<1>2. \A j \in 1 .. Len(t) : t[j] = u[(Len(u) - Len(t)) + j]
  <2> SUFFICES ASSUME NEW j \in 1 .. Len(t)
               PROVE  t[j] = u[(Len(u) - Len(t)) + j]
    OBVIOUS
  <2>1. CASE j = Len(t)
    <3>1. (Len(u) - Len(t)) + j = Len(u)
      BY <1>1, <2>1
    <3> QED  BY <1>1, <2>1, <3>1
  <2>2. CASE j # Len(t)
    <3>1. j \in 1 .. Len(ts)
      BY <1>1, <2>2
    <3>2. ts[j] = s[(Len(s) - Len(ts)) + j]
      BY <3>1 DEF EndOf
    <3>3. /\ (Len(u) - Len(t)) + j = (Len(s) - Len(ts)) + j
          /\ (Len(s) - Len(ts)) + j \in 1 .. Len(s)
      BY <1>1, <3>1 DEF EndOf
    <3> QED  BY <1>1, <3>1, <3>2, <3>3
  <2> QED  BY <2>1, <2>2
<1>3. EndOf(t, u)
  BY <1>1, <1>2 DEF EndOf
<1> QED  BY <1>3 DEF t, u

(* A restart that shouldDeactivatePlugin lets through is far from the one   *)
(* that is Limit - 1 restarts before it.                                    *)
LEMMA RestartApart ==
  ASSUME PluginAssumption, RestartsBounded, restarts \in Seq(Nat), now \in Nat,
         NEW ts \in Seq(Nat), EndOf(ts, restarts),
         ~shouldDeactivatePlugin(Append(ts, now)), restarts' = Append(restarts, now)
  PROVE  RestartsBounded'
<1> DEFINE t == Append(ts, now)
<1>1. /\ Len(restarts) \in Nat /\ Len(restarts') = Len(restarts) + 1
      /\ restarts'[Len(restarts')] = now
      /\ \A j \in 1 .. Len(restarts) : restarts'[j] = restarts[j]
      /\ Limit \in Nat \ {0} /\ Window \in Nat /\ Len(t) \in Nat
  BY DEF PluginAssumption
<1>2. EndOf(t, restarts')
  BY AppendEnd DEF PluginAssumption
<1>3. ~(Len(t) >= Limit /\ now - t[Len(t) - Limit + 1] <= Window)
  BY DEF shouldDeactivatePlugin
<1> HIDE DEF t
<1> SUFFICES ASSUME NEW i \in 1 .. Len(restarts') - Limit + 1
             PROVE  restarts'[i + Limit - 1] - restarts'[i] > Window
  BY DEF RestartsBounded
<1>0. i \in Nat /\ 1 <= i /\ i <= Len(restarts) + 1 - Limit + 1
  BY <1>1
<1>4. CASE i <= Len(restarts) - Limit + 1
  <2>1. /\ i \in 1 .. Len(restarts) - Limit + 1 /\ i \in 1 .. Len(restarts)
        /\ i + Limit - 1 \in 1 .. Len(restarts)
    BY <1>0, <1>1, <1>4
  <2>2. restarts[i + Limit - 1] - restarts[i] > Window
    BY <2>1 DEF RestartsBounded
  <2> QED  BY <1>1, <2>1, <2>2
<1>5. CASE i > Len(restarts) - Limit + 1
  <2>1. i = Len(restarts') - Limit + 1 /\ i + Limit - 1 = Len(restarts')
    <3>1. \A l, m, k \in Nat : k <= l + 1 - m + 1 /\ k > l - m + 1
            => k = (l + 1) - m + 1 /\ k + m - 1 = l + 1
      OBVIOUS
    <3>2. Limit \in Nat
      BY <1>1
    <3>3. i = (Len(restarts) + 1) - Limit + 1 /\ i + Limit - 1 = Len(restarts) + 1
      BY <1>0, <1>1, <1>5, <3>1, <3>2
    <3> QED  BY <1>1, <3>3
  <2>2. Len(t) >= Limit
    BY <1>1, <1>2, <2>1 DEF EndOf
  <2>3. Len(t) - Limit + 1 \in 1 .. Len(t)
    BY <1>1, <2>2
  <2>4. t[Len(t) - Limit + 1] = restarts'[(Len(restarts') - Len(t)) + (Len(t) - Limit + 1)]
    BY <1>2, <2>3 DEF EndOf
  <2>5. (Len(restarts') - Len(t)) + (Len(t) - Limit + 1) = i
    BY <1>1, <2>1
  <2>6. restarts'[i] = t[Len(t) - Limit + 1] /\ restarts'[i + Limit - 1] = now
    BY <1>1, <2>1, <2>4, <2>5
  <2>7. restarts'[i] \in Nat
    <3>1. i \in 1 .. Len(restarts') /\ restarts' \in Seq(Nat)
      BY <1>1
    <3> QED  BY <3>1
  <2> QED  BY <1>1, <1>3, <2>2, <2>6, <2>7
<1> QED  BY <1>0, <1>1, <1>4, <1>5

(* A step of an operation keeps them. *)
LEMMA MovesInv ==
  ASSUME PluginAssumption, RestartInv, NEW a \in Actors, Moves(a)
  PROVE  RestartInv'
<1>1. /\ op \in [Actors -> Operation] /\ timestamps \in Seq(Nat) /\ restarts \in Seq(Nat)
      /\ Health \in Actors /\ (a \in Syncers \/ a = Health) /\ Health \notin Syncers
      /\ op'[a] \in Operation /\ op' = [op EXCEPT ![a] = op'[a]]
      /\ UNCHANGED <<timestamps, restarts, now, crashes>>
  BY DEF RestartInv, TypeOK, Moves, Actors, PluginAssumption
<1>2. op' \in [Actors -> Operation] /\ \A b \in Actors \ {a} : op'[b] = op[b]
  BY <1>1
<1>3. RestartsBounded'
  BY <1>1 DEF RestartInv, RestartsBounded
<1>5. a \in Syncers => op[a].then = "return" /\ op'[a].then = "return"
  BY DEF RestartInv, Remembers, Moves, Idle
<1>6. CASE op'[a].then = op[a].then /\ UNCHANGED failureTimestamps
  <2>1. Remembers'
    <3>1. \A b \in Syncers : op'[b].then = "return"
      BY <1>1, <1>2, <1>6 DEF RestartInv, Remembers, Actors
    <3>2. op'[Health].then = op[Health].then
      BY <1>1, <1>2, <1>6
    <3>3. op'[Health].pc \in {"idle", "check"} => op'[Health].then = "return"
      BY <1>1, <1>2, <1>6, <3>2 DEF RestartInv, Remembers, Moves, Idle
    <3> QED  BY <1>1, <1>6, <3>1, <3>2, <3>3 DEF RestartInv, Remembers, EndOf
  <2>2. TypeOK'
    BY <1>1, <1>2, <1>6 DEF RestartInv, TypeOK, Moves
  <2> QED  BY <1>3, <2>1, <2>2 DEF RestartInv
<1>7. CASE ~(op'[a].then = op[a].then /\ UNCHANGED failureTimestamps)
  <2>1. /\ op'[a] = Idle
        /\ failureTimestamps' = IF op[a].then = "restart"
                                  THEN removeStaleTimestamps(timestamps)
                                  ELSE failureTimestamps
    BY <1>7 DEF Moves
  <2>2. a = Health
    BY <1>1, <1>5, <1>7, <2>1
  <2>3. op'[Health].pc = "idle" /\ op'[Health].then = "return"
    BY <2>1, <2>2 DEF Idle
  <2>4. /\ failureTimestamps' \in Seq(Nat) /\ Len(failureTimestamps') <= Limit
        /\ EndOf(failureTimestamps', restarts)
    <3>1. CASE op[a].then = "restart"
      <4>1. EndOf(timestamps, restarts)
        BY <2>2, <3>1 DEF RestartInv, Remembers
      <4> QED  BY <1>1, <2>1, <3>1, <4>1, TrimEnd
    <3>2. CASE op[a].then # "restart"
      BY <2>1, <2>2, <3>2 DEF RestartInv, Remembers, TypeOK
    <3> QED  BY <3>1, <3>2
  <2>5. \A b \in Syncers : op'[b].then = "return"
    BY <1>1, <1>2, <2>2 DEF RestartInv, Remembers, Actors
  <2>6. Remembers'
    BY <1>1, <2>3, <2>4, <2>5 DEF Remembers, EndOf
  <2>7. TypeOK'
    BY <1>1, <1>2, <2>4 DEF RestartInv, TypeOK, Moves
  <2> QED  BY <1>3, <2>6, <2>7 DEF RestartInv
<1> QED  BY <1>6, <1>7

LEMMA CheckPluginInv ==
  ASSUME PluginAssumption, RestartInv, CheckPlugin
  PROVE  /\ RestartInv'
         /\ op'[Health] \in Operation /\ op' = [op EXCEPT ![Health] = op'[Health]]
         /\ OpOK(op[Health]) => OpOK(op[Health])'
<1> DEFINE ts == Append(failureTimestamps, now)
<1>1. /\ op[Health].pc = "check" /\ op[Health] \in Operation /\ Health \in Actors
      /\ Health \notin Syncers /\ op \in [Actors -> Operation]
      /\ UNCHANGED <<enabled, registered, procs, hung, started, now, changes, crashes>>
  BY DEF CheckPlugin, At, RestartInv, TypeOK, Actors, PluginAssumption
<1>2. /\ failureTimestamps \in Seq(Nat) /\ restarts \in Seq(Nat) /\ now \in Nat
      /\ Len(failureTimestamps) \in Nat /\ Len(failureTimestamps) <= Limit /\ Limit \in Nat \ {0}
      /\ ts \in Seq(Nat) /\ Len(ts) = Len(failureTimestamps) + 1
  BY DEF RestartInv, TypeOK, PluginAssumption
<1>3. op[Health].then = "return" /\ EndOf(failureTimestamps, restarts)
  BY <1>1 DEF RestartInv, Remembers
<1>4. ASSUME op'[Health] \in Operation, op' = [op EXCEPT ![Health] = op'[Health]]
      PROVE  /\ op' \in [Actors -> Operation]
             /\ \A a \in Syncers : op'[a].then = "return"
  BY <1>1, <1>4 DEF RestartInv, Remembers, Actors
<1>5. CASE /\ Healthy /\ op' = [op EXCEPT ![Health] = Idle]
           /\ UNCHANGED <<failureTimestamps, timestamps, restarts>>
  <2>1. TypeOK
    BY DEF RestartInv
  <2>2. /\ op'[Health] = Idle /\ op'[Health] \in Operation
        /\ op' = [op EXCEPT ![Health] = op'[Health]]
    BY <1>1, <1>5, <2>1, EndIs
  <2>3. TypeOK'
    BY <1>1, <1>4, <1>5, <2>1, <2>2 DEF TypeOK
  <2>4. Remembers'
    BY <1>3, <1>4, <1>5, <2>2 DEF Remembers, Idle, EndOf
  <2>5. RestartsBounded'
    BY <1>5 DEF RestartInv, RestartsBounded
  <2>6. OpOK(op[Health]) => OpOK(op[Health])'
    BY <1>1, <2>2 DEF OpOK, Idle, Kept, IsActive, Off
  <2> QED  BY <2>2, <2>3, <2>4, <2>5, <2>6 DEF RestartInv
<1>6. ASSUME NEW t \in {"giveUp", "restart"},
             op' = [op EXCEPT ![Health].pc = "deactivate", ![Health].then = t]
      PROVE  /\ op'[Health] \in Operation /\ op' = [op EXCEPT ![Health] = op'[Health]]
             /\ op'[Health].pc = "deactivate" /\ op'[Health].then = t
             /\ OpOK(op[Health]) => OpOK(op[Health])'
  <2> DEFINE r == [op[Health] EXCEPT !.pc = "deactivate", !.then = t]
  <2>1. op' = [op EXCEPT ![Health] = r]
    BY <1>6
  <2>2. r \in Operation
    BY <1>1, OpSets DEF PCs
  <2>3. r.pc = "deactivate" /\ r.then = t
    BY <1>1 DEF Operation
  <2> HIDE DEF r
  <2>4. op'[Health] = r /\ op' = [op EXCEPT ![Health] = op'[Health]]
    BY <1>1, <2>1, OpIs DEF RestartInv
  <2>5. OpOK(op[Health]) => OpOK(op[Health])'
    BY <1>1, <2>3, <2>4 DEF OpOK, Kept, IsActive, Off
  <2> QED  BY <2>2, <2>3, <2>4, <2>5
<1>7. CASE /\ op' = [op EXCEPT ![Health].pc = "deactivate", ![Health].then = "giveUp"]
           /\ failureTimestamps' = <<>> /\ timestamps' = ts /\ restarts' = <<>>
  <2>1. /\ op'[Health] \in Operation /\ op' = [op EXCEPT ![Health] = op'[Health]]
        /\ op'[Health].pc = "deactivate" /\ op'[Health].then = "giveUp"
    BY <1>6, <1>7
  <2>2. /\ failureTimestamps' \in Seq(Nat) /\ Len(failureTimestamps') = 0
        /\ restarts' \in Seq(Nat) /\ Len(restarts') = 0 /\ timestamps' \in Seq(Nat)
    BY <1>2, <1>7
  <2> HIDE DEF ts
  <2>3. TypeOK'
    BY <1>1, <1>2, <1>4, <2>1, <2>2 DEF RestartInv, TypeOK
  <2>4. Remembers'
    BY <1>4, <2>1, <2>2 DEF Remembers, EndOf
  <2>5. RestartsBounded'
    BY <1>2, <2>2 DEF RestartsBounded
  <2> QED  BY <1>6, <1>7, <2>1, <2>3, <2>4, <2>5 DEF RestartInv
<1>8. CASE /\ ~shouldDeactivatePlugin(ts)
           /\ op' = [op EXCEPT ![Health].pc = "deactivate", ![Health].then = "restart"]
           /\ timestamps' = ts /\ restarts' = Append(restarts, now)
           /\ UNCHANGED failureTimestamps
  <2>1. /\ op'[Health] \in Operation /\ op' = [op EXCEPT ![Health] = op'[Health]]
        /\ op'[Health].pc = "deactivate" /\ op'[Health].then = "restart"
    BY <1>6, <1>8
  <2>2. restarts' \in Seq(Nat) /\ timestamps' \in Seq(Nat)
    BY <1>2, <1>8
  <2>3. EndOf(timestamps', restarts') /\ Len(timestamps') <= Limit + 1
    BY <1>2, <1>3, <1>8, AppendEnd
  <2>4. RestartsBounded'
    BY <1>2, <1>3, <1>8, RestartApart DEF RestartInv
  <2> HIDE DEF ts
  <2>5. TypeOK'
    BY <1>1, <1>2, <1>4, <1>8, <2>1, <2>2 DEF RestartInv, TypeOK
  <2>6. Remembers'
    BY <1>4, <2>1, <2>3 DEF Remembers, EndOf
  <2> QED  BY <1>6, <1>8, <2>1, <2>4, <2>5, <2>6 DEF RestartInv
<1> QED  BY <1>5, <1>7, <1>8 DEF CheckPlugin

LEMMA CrashInv ==
  ASSUME PluginAssumption, RestartInv, NEW k \in procs, Crash(k)
  PROVE  RestartInv'
<1>1. /\ k \in procs \ hung /\ crashes < MaxCrashes /\ crashes' = crashes + 1
      /\ \/ procs' = procs \ {k} /\ hung' = hung
         \/ hung' = hung \cup {k} /\ procs' = procs
      /\ UNCHANGED <<enabled, registered, started, op, failureTimestamps, timestamps,
                     restarts, now, changes>>
  BY DEF Crash
<1>2. hung \subseteq procs /\ crashes' \in 0 .. MaxCrashes
  BY <1>1 DEF RestartInv, TypeOK, PluginAssumption
<1>3. procs' \subseteq procs /\ hung' \subseteq procs'
  BY <1>1, <1>2
<1> QED  BY <1>1, <1>2, <1>3 DEF RestartInv, TypeOK, Remembers, EndOf, RestartsBounded

LEMMA TickInv ==
  ASSUME PluginAssumption, RestartInv, Tick
  PROVE  RestartInv'
<1>1. /\ now' \in 0 .. MaxClock
      /\ UNCHANGED <<enabled, registered, procs, hung, started, op, failureTimestamps,
                     timestamps, restarts, changes, crashes>>
  BY DEF Tick, RestartInv, TypeOK, PluginAssumption
<1> QED  BY <1>1 DEF RestartInv, TypeOK, Remembers, EndOf, RestartsBounded

LEMMA RestartInit ==
  ASSUME PluginAssumption, Init
  PROVE  RestartInv
<1>1. TypeOK
  BY IdleType DEF Init, TypeOK, Entries, PluginAssumption
<1>2. Remembers
  BY DEF Init, Remembers, EndOf, Idle, Actors, PluginAssumption
<1>3. RestartsBounded
  BY DEF Init, RestartsBounded, PluginAssumption
<1> QED  BY <1>1, <1>2, <1>3 DEF RestartInv

LEMMA RestartNext ==
  ASSUME PluginAssumption, RestartInv, [Next]_vars
  PROVE  RestartInv'
<1>0. TypeOK /\ Health \in Actors
  BY DEF RestartInv, Actors
<1>1. ASSUME NEW a \in Actors, Step(a)
      PROVE  RestartInv'
  BY <1>0, <1>1, StepMoves, MovesInv
<1>2. ASSUME NEW a \in Actors, NEW enable \in BOOLEAN, SaveConfig(a, enable)
      PROVE  RestartInv'
  BY <1>0, <1>2, SaveConfigMoves, MovesInv
<1>3. CASE HealthTick
  BY <1>0, <1>3, HealthTickMoves, MovesInv
<1>4. CASE CheckPlugin
  BY <1>4, CheckPluginInv
<1>5. ASSUME NEW k \in procs, Crash(k)
      PROVE  RestartInv'
  BY <1>5, CrashInv
<1>6. CASE Tick
  BY <1>6, TickInv
<1>7. CASE UNCHANGED vars
  BY <1>7 DEF RestartInv, TypeOK, Remembers, EndOf, RestartsBounded, vars
<1> QED  BY <1>1, <1>2, <1>3, <1>4, <1>5, <1>6, <1>7 DEF Next

LEMMA RestartInvariant ==
  ASSUME PluginAssumption
  PROVE  Spec => []RestartInv
<1>1. Init => RestartInv
  BY RestartInit
<1>2. RestartInv /\ [Next]_vars => RestartInv'
  BY RestartNext
<1> QED  BY <1>1, <1>2, PTL DEF Spec

(* The types, whatever is interleaved. *)
THEOREM PluginTypeCorrect ==
  ASSUME PluginAssumption
  PROVE  Spec => []TypeOK
<1>1. RestartInv => TypeOK
  BY DEF RestartInv
<1> QED  BY <1>1, RestartInvariant, PTL

(* RestartsBounded: shouldDeactivatePlugin gives a plugin up before the     *)
(* health check has restarted it Limit times within the window, although    *)
(* CheckPlugin takes its timestamps before the restart and stores them      *)
(* after it, and removeStaleTimestamps drops the old ones.                  *)
THEOREM PluginRestartsBounded ==
  ASSUME PluginAssumption
  PROVE  Spec => []RestartsBounded
<1>1. RestartInv => RestartsBounded
  BY DEF RestartInv
<1> QED  BY <1>1, RestartInvariant, PTL

-----------------------------------------------------------------------------

(* The processes, if the operations come one at a time. *)

(* Whoever is working is alone. *)
LEMMA WorksAlone ==
  ASSUME Alone, NEW a \in Actors, op[a].pc # "idle"
  PROVE  OthersIdle(a) /\ OpOK(op[a])
<1>1. PICK c \in Actors : OthersIdle(c)
  BY DEF Alone
<1>2. c = a
  BY <1>1 DEF OthersIdle
<1> QED  BY <1>1, <1>2 DEF Alone

LEMMA BeginsAlone ==
  ASSUME Alone, OneAtATime, NEW a \in Actors, MayBegin(a)
  PROVE  OthersIdle(a) /\ OpOK(op[a])
  BY DEF Alone, MayBegin, Settled, OthersIdle

LEMMA AloneKept ==
  ASSUME TypeOK, Alone, NEW a \in Actors, OthersIdle(a),
         op'[a] \in Operation, op' = [op EXCEPT ![a] = op'[a]], OpOK(op[a])'
  PROVE  Alone'
<1>1. /\ op \in [Actors -> Operation]
      /\ \A b \in Actors \ {a} : op'[b] = op[b] /\ op[b].pc = "idle" /\ op[b] = Idle
  BY DEF TypeOK, OthersIdle, Alone
<1>2. op'[a].pc = "idle" => op'[a] = Idle
  BY DEF OpOK
<1>3. OthersIdle(a)'
  BY <1>1 DEF OthersIdle
<1>4. ASSUME NEW b \in Actors, OthersIdle(b)'
      PROVE  OpOK(op[b])'
  <2>1. op'[b] = op'[a]
    BY <1>1, <1>2, <1>4 DEF OthersIdle
  <2> QED  BY <2>1 DEF OpOK, InHand
<1>5. \A b \in Actors : op'[b].pc = "idle" => op'[b] = Idle
  BY <1>1, <1>2
<1> QED  BY <1>3, <1>4, <1>5 DEF Alone

LEMMA ProcInit ==
  ASSUME PluginAssumption, Init
  PROVE  ProcInv
<1>1. \A a \in Actors : op[a] = Idle
  BY DEF Init
<1>2. Health \in Actors
  BY DEF Actors
<1>3. OpOK(Idle)
  BY DEF Init, OpOK, Idle, IsActive, Off
<1>4. \A a \in Actors : OthersIdle(a) /\ OpOK(op[a])
  <2>1. Idle.pc = "idle"
    BY DEF Idle
  <2> QED  BY <1>1, <1>3, <2>1 DEF OthersIdle
<1>5. Alone
  BY <1>1, <1>2, <1>4 DEF Alone
<1> QED  BY <1>5, RestartInit DEF ProcInv

LEMMA ProcNext ==
  ASSUME PluginAssumption, OneAtATime, ProcInv, [Next]_vars
  PROVE  ProcInv'
<1>0. TypeOK /\ RestartInv /\ Alone /\ Health \in Actors
  BY DEF ProcInv, RestartInv, Actors
<1> SUFFICES Alone'
  BY <1>0, RestartNext DEF ProcInv
<1>1. ASSUME NEW a \in Actors, Step(a)
      PROVE  Alone'
  <2>1. op[a].pc # "idle"
    BY <1>1 DEF Step, At, syncPluginsActiveState, DeactivateLoad, DeactivateIsActive,
                DeactivateShutdown, setPluginStateLoad, setPluginStateStore, ActivateCheck,
                ActivateRegister, newSupervisor, OnActivate
  <2>2. OthersIdle(a) /\ OpOK(op[a])
    BY <1>0, <2>1, WorksAlone
  <2>3. /\ op'[a] \in Operation /\ op' = [op EXCEPT ![a] = op'[a]]
        /\ OpOK(op[a])'
    BY <1>0, <1>1, <2>2, StepMoves DEF Moves
  <2> QED  BY <1>0, <2>2, <2>3, AloneKept
<1>2. ASSUME NEW a \in Actors, NEW enable \in BOOLEAN, SaveConfig(a, enable)
      PROVE  Alone'
  <2>1. OthersIdle(a) /\ OpOK(op[a])
    BY <1>0, <1>2, BeginsAlone DEF SaveConfig
  <2>2. /\ op'[a] \in Operation /\ op' = [op EXCEPT ![a] = op'[a]]
        /\ OpOK(op[a])'
    BY <1>0, <1>2, <2>1, SaveConfigMoves DEF Moves
  <2> QED  BY <1>0, <2>1, <2>2, AloneKept
<1>3. CASE HealthTick
  <2>1. OthersIdle(Health) /\ OpOK(op[Health])
    BY <1>0, <1>3, BeginsAlone DEF HealthTick
  <2>2. /\ op'[Health] \in Operation /\ op' = [op EXCEPT ![Health] = op'[Health]]
        /\ OpOK(op[Health])'
    BY <1>0, <1>3, <2>1, HealthTickMoves DEF Moves
  <2> QED  BY <1>0, <2>1, <2>2, AloneKept
<1>4. CASE CheckPlugin
  <2>1. OthersIdle(Health) /\ OpOK(op[Health])
    BY <1>0, <1>4, WorksAlone DEF CheckPlugin, At
  <2>2. /\ op'[Health] \in Operation /\ op' = [op EXCEPT ![Health] = op'[Health]]
        /\ OpOK(op[Health])'
    BY <1>0, <1>4, <2>1, CheckPluginInv
  <2> QED  BY <1>0, <2>1, <2>2, AloneKept
<1>5. ASSUME NEW k \in procs, Crash(k)
      PROVE  Alone'
  <2>1. procs' \subseteq procs /\ UNCHANGED <<enabled, registered, op, changes>>
    BY <1>5 DEF Crash
  <2>2. \A a \in Actors : OpOK(op[a]) => OpOK(op[a])'
    BY <2>1 DEF OpOK, Kept, InHand, IsActive, Off
  <2> QED  BY <1>0, <2>1, <2>2 DEF Alone, OthersIdle
<1>6. ASSUME UNCHANGED <<enabled, registered, procs, op, changes>>
      PROVE  Alone'
  <2>1. \A a \in Actors : OpOK(op[a]) => OpOK(op[a])'
    BY <1>6 DEF OpOK, Kept, InHand, IsActive, Off
  <2> QED  BY <1>0, <1>6, <2>1 DEF Alone, OthersIdle
<1>7. CASE Tick
  <2>1. UNCHANGED <<enabled, registered, procs, op, changes>>
    BY <1>7 DEF Tick
  <2> QED  BY <1>6, <2>1
<1>8. CASE UNCHANGED vars
  <2>1. UNCHANGED <<enabled, registered, procs, op, changes>>
    BY <1>8 DEF vars
  <2> QED  BY <1>6, <2>1
<1> QED  BY <1>1, <1>2, <1>3, <1>4, <1>5, <1>7, <1>8 DEF Next

(* ProcessesStopped: if no operation begins before the last has ended, no   *)
(* activation that fails, restart or deactivation leaves a process behind,  *)
(* and a plugin that is disabled has none. Without OneAtATime it is false:  *)
(* Activate and Deactivate take no lock.                                    *)
THEOREM PluginProcessesStopped ==
  ASSUME PluginAssumption, OneAtATime
  PROVE  Spec => []ProcessesStopped
<1>1. Init => ProcInv
  BY ProcInit
<1>2. ProcInv /\ [Next]_vars => ProcInv'
  BY ProcNext
<1>3. ProcInv => ProcessesStopped
  <2> SUFFICES ASSUME ProcInv, Settled
               PROVE  procs \subseteq Kept /\ (Off => procs = {})
    BY DEF ProcessesStopped, NoOrphan, DisabledStops, Kept, Off
  <2>1. Health \in Actors /\ OthersIdle(Health) /\ op[Health].pc = "idle"
    BY DEF Actors, Settled, OthersIdle
  <2>2. OpOK(op[Health])
    BY <2>1 DEF ProcInv, Alone
  <2> QED  BY <2>1, <2>2 DEF OpOK, Kept
<1> QED  BY <1>1, <1>2, <1>3, PTL DEF Spec

=============================================================================
