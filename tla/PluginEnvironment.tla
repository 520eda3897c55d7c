------------------------- MODULE PluginEnvironment -------------------------
(***************************************************************************)
(* One plugin with a server part in the plugin environment                 *)
(* (plugin/environment.go): its entry in registeredPlugins, its processes, *)
(* the requests that change the configuration and then bring the plugin's  *)
(* state in line with it (app/plugin.go), and the health check, which      *)
(* restarts a plugin that does not answer and gives it up when it fails    *)
(* too often (plugin/health_check.go). registeredPlugins is a sync.Map:    *)
(* its calls are atomic, and nothing else is.                              *)
(***************************************************************************)
EXTENDS Integers, Sequences

CONSTANTS Syncers,     \* the requests that save a configuration
          Health,      \* the goroutine of the health check
          None,
          Limit,       \* HealthCheckNumRestartsLimit
          Window,      \* HealthCheckDeactivationWindow
          OneAtATime,  \* no operation begins before the last has ended
          MaxProcs,    \* bound on the processes started
          MaxChanges,  \* bound on the configurations saved
          MaxCrashes,  \* bound on the processes that crash or hang
          MaxClock     \* bound on the clock

States == {"NotRunning", "Running", "FailedToStart", "FailedToStayRunning"}

PluginAssumption ==
  /\ Health \notin Syncers /\ Limit \in Nat \ {0} /\ Window \in Nat
  /\ OneAtATime \in BOOLEAN /\ MaxProcs \in Nat /\ MaxClock \in Nat
  /\ MaxChanges \in Nat /\ MaxCrashes \in Nat
  /\ None \notin [state : States, sup : Nat]

VARIABLES enabled,    \* PluginSettings.PluginStates[id].Enable
          registered, \* the entry in registeredPlugins: its State and supervisor
          procs,      \* the processes that are alive
          hung,       \* those that do not answer
          started,    \* the processes started so far
          op,         \* op[a]: where a is, and its local variables
          failureTimestamps, timestamps,
          restarts,   \* when the health check has restarted the plugin since it gave it up
          now, changes, crashes

vars == <<enabled, registered, procs, hung, started, op, failureTimestamps,
          timestamps, restarts, now, changes, crashes>>

Actors == Syncers \cup {Health}

Entries == [state : States, sup : 0 .. MaxProcs] \cup {None}

(* A call: where it is, and its local variables. *)
Operation ==
  [pc : {"idle", "sync", "deactivate", "isActive", "setPluginState", "store",
         "shutdown", "activate", "register", "start", "onActivate", "check"},
   p : Entries, active : BOOLEAN, sup : 0 .. MaxProcs, set : States,
   then : {"return", "restart", "giveUp"}]

TypeOK ==
  /\ enabled \in BOOLEAN /\ registered \in Entries
  /\ started \in 0 .. MaxProcs /\ procs \subseteq 1 .. started /\ hung \subseteq procs
  /\ op \in [Actors -> Operation]
  /\ failureTimestamps \in Seq(Nat) /\ Len(failureTimestamps) <= Limit
  /\ timestamps \in Seq(Nat) /\ restarts \in Seq(Nat)
  /\ now \in 0 .. MaxClock /\ changes \in 0 .. MaxChanges /\ crashes \in 0 .. MaxCrashes

Idle == [pc |-> "idle", p |-> None, active |-> FALSE, sup |-> 0,
         set |-> "NotRunning", then |-> "return"]

Init ==
  /\ enabled \in BOOLEAN /\ registered = None
  /\ procs = {} /\ hung = {} /\ started = 0
  /\ op = [a \in Actors |-> Idle]
  /\ failureTimestamps = <<>> /\ timestamps = <<>> /\ restarts = <<>>
  /\ now = 0 /\ changes = 0 /\ crashes = 0

Settled == \A a \in Actors : op[a].pc = "idle"

MayBegin(a) == op[a].pc = "idle" /\ (OneAtATime => Settled)

At(a, pc) == op[a].pc = pc

Go(a, pc) == op' = [op EXCEPT ![a].pc = pc]

IsActive == registered # None /\ registered.state = "Running"

-----------------------------------------------------------------------------

(* enablePlugin, disablePlugin, or any other change of the configuration:   *)
(* the listeners are called without a lock.                                 *)
SaveConfig(a, enable) ==
  /\ a \in Syncers /\ MayBegin(a) /\ changes < MaxChanges
  /\ enabled' = enable /\ changes' = changes + 1
  /\ Go(a, "sync")
  /\ UNCHANGED <<registered, procs, hung, started, failureTimestamps, timestamps, restarts, now, crashes>>

syncPluginsActiveState(a) ==
  /\ At(a, "sync")
  /\ Go(a, IF enabled THEN "activate" ELSE "deactivate")
  /\ UNCHANGED <<enabled, registered, procs, hung, started, failureTimestamps, timestamps, restarts, now, changes, crashes>>

-----------------------------------------------------------------------------

(* Deactivate. *)

AfterDeactivate(a) ==
  CASE op[a].then = "return"  -> op' = [op EXCEPT ![a] = Idle]
    [] op[a].then = "restart" -> op' = [op EXCEPT ![a] = [Idle EXCEPT !.pc = "activate", !.then = "restart"]]
    [] op[a].then = "giveUp"  -> op' = [op EXCEPT ![a] = [Idle EXCEPT !.pc = "setPluginState",
                                                                     !.set = "FailedToStayRunning", !.then = "giveUp"]]

DeactivateLoad(a) ==
  /\ At(a, "deactivate")
  /\ \/ registered = None /\ AfterDeactivate(a)
     \/ registered # None /\ op' = [op EXCEPT ![a].p = registered, ![a].pc = "isActive"]
  /\ UNCHANGED <<enabled, registered, procs, hung, started, failureTimestamps, timestamps, restarts, now, changes, crashes>>

DeactivateIsActive(a) ==
  /\ At(a, "isActive")
  /\ op' = [op EXCEPT ![a].active = IsActive, ![a].set = "NotRunning", ![a].pc = "setPluginState"]
  /\ UNCHANGED <<enabled, registered, procs, hung, started, failureTimestamps, timestamps, restarts, now, changes, crashes>>

(* OnDeactivate and Shutdown, of the supervisor loaded at the beginning. *)
DeactivateShutdown(a) ==
  /\ At(a, "shutdown")
  /\ LET stopped == IF op[a].active THEN {op[a].p.sup} ELSE {}
     IN  procs' = procs \ stopped /\ hung' = hung \ stopped
  /\ AfterDeactivate(a)
  /\ UNCHANGED <<enabled, registered, started, failureTimestamps, timestamps, restarts, now, changes, crashes>>

-----------------------------------------------------------------------------

(* setPluginState, called by Deactivate, by Activate's deferred function    *)
(* and by CheckPlugin: a load and a store. op[a].sup is what was loaded.    *)

removeStaleTimestamps(ts) ==
  IF Len(ts) > Limit THEN SubSeq(ts, Len(ts) - Limit + 1, Len(ts)) ELSE ts

AfterSet(a) ==
  \/ /\ op[a].set = "NotRunning"
     /\ Go(a, "shutdown")
     /\ UNCHANGED failureTimestamps
  \/ /\ op[a].set # "NotRunning"
     /\ op' = [op EXCEPT ![a] = Idle]
     /\ failureTimestamps' = IF op[a].then = "restart" THEN removeStaleTimestamps(timestamps)
                             ELSE failureTimestamps

setPluginStateLoad(a) ==
  /\ At(a, "setPluginState")
  /\ \/ /\ registered = None
        /\ AfterSet(a)
     \/ /\ registered # None
        /\ op' = [op EXCEPT ![a].sup = registered.sup, ![a].pc = "store"]
        /\ UNCHANGED failureTimestamps
  /\ UNCHANGED <<enabled, registered, procs, hung, started, timestamps, restarts, now, changes, crashes>>

setPluginStateStore(a) ==
  /\ At(a, "store")
  /\ registered' = [state |-> op[a].set, sup |-> op[a].sup]
  /\ AfterSet(a)
  /\ UNCHANGED <<enabled, procs, hung, started, timestamps, restarts, now, changes, crashes>>

-----------------------------------------------------------------------------

(* Activate. *)

ActivateCheck(a) ==
  /\ At(a, "activate")
  /\ \/ /\ IsActive
        /\ op' = [op EXCEPT ![a] = Idle]
        /\ failureTimestamps' = IF op[a].then = "restart" THEN removeStaleTimestamps(timestamps)
                                ELSE failureTimestamps
     \/ ~IsActive /\ Go(a, "register") /\ UNCHANGED failureTimestamps
  /\ UNCHANGED <<enabled, registered, procs, hung, started, timestamps, restarts, now, changes, crashes>>

ActivateRegister(a) ==
  /\ At(a, "register")
  /\ registered' = [state |-> "NotRunning", sup |-> 0]
  /\ Go(a, "start")
  /\ UNCHANGED <<enabled, procs, hung, started, failureTimestamps, timestamps, restarts, now, changes, crashes>>

ActivateFails(a) ==
  op' = [op EXCEPT ![a].set = "FailedToStart", ![a].pc = "setPluginState"]

(* The version, the web part or newSupervisor may be why nothing starts. *)
newSupervisor(a) ==
  /\ At(a, "start")
  /\ \/ /\ started < MaxProcs
        /\ started' = started + 1 /\ procs' = procs \cup {started + 1}
        /\ op' = [op EXCEPT ![a].sup = started + 1, ![a].pc = "onActivate"]
     \/ ActivateFails(a) /\ UNCHANGED <<started, procs>>
  /\ UNCHANGED <<enabled, registered, hung, failureTimestamps, timestamps, restarts, now, changes, crashes>>

(* A plugin that refuses to be activated is not shut down. *)
OnActivateForgets(a) ==
  /\ At(a, "onActivate")
  /\ \/ /\ registered' = [state |-> "NotRunning", sup |-> op[a].sup]
        /\ op' = [op EXCEPT ![a].set = "Running", ![a].pc = "setPluginState"]
     \/ ActivateFails(a) /\ UNCHANGED registered
  /\ UNCHANGED <<enabled, procs, hung, started, failureTimestamps, timestamps, restarts, now, changes, crashes>>

OnActivate(a) ==
  /\ At(a, "onActivate")
  /\ \/ /\ registered' = [state |-> "NotRunning", sup |-> op[a].sup]
        /\ op' = [op EXCEPT ![a].set = "Running", ![a].pc = "setPluginState"]
        /\ UNCHANGED <<procs, hung>>
     \/ /\ procs' = procs \ {op[a].sup} /\ hung' = hung \ {op[a].sup}
        /\ ActivateFails(a)
        /\ UNCHANGED registered
  /\ UNCHANGED <<enabled, started, failureTimestamps, timestamps, restarts, now, changes, crashes>>

-----------------------------------------------------------------------------

(* The health check. *)

(* The ticker: the plugin is in the list of the active ones. *)
HealthTick ==
  /\ MayBegin(Health) /\ IsActive
  /\ Go(Health, "check")
  /\ UNCHANGED <<enabled, registered, procs, hung, started, failureTimestamps, timestamps, restarts, now, changes, crashes>>

(* PerformHealthCheck. *)
Healthy == \/ registered = None
           \/ registered.sup = 0
           \/ registered.sup \in procs \ hung

(* One failure too many. *)
shouldDeactivatePluginLate(ts) == Len(ts) > Limit /\ now - ts[Len(ts) - Limit] <= Window

shouldDeactivatePlugin(ts) == Len(ts) >= Limit /\ now - ts[Len(ts) - Limit + 1] <= Window

CheckPlugin ==
  /\ At(Health, "check")
  /\ LET ts == Append(failureTimestamps, now) IN
     \/ /\ Healthy
        /\ op' = [op EXCEPT ![Health] = Idle]
        /\ UNCHANGED <<failureTimestamps, timestamps, restarts>>
     \/ /\ ~Healthy /\ shouldDeactivatePlugin(ts)
        /\ op' = [op EXCEPT ![Health].pc = "deactivate", ![Health].then = "giveUp"]
        /\ failureTimestamps' = <<>> /\ timestamps' = ts /\ restarts' = <<>>
     \/ /\ ~Healthy /\ ~shouldDeactivatePlugin(ts)
        /\ op' = [op EXCEPT ![Health].pc = "deactivate", ![Health].then = "restart"]
        /\ timestamps' = ts /\ restarts' = Append(restarts, now)
        /\ UNCHANGED failureTimestamps
  /\ UNCHANGED <<enabled, registered, procs, hung, started, now, changes, crashes>>

-----------------------------------------------------------------------------

(* A process ends, or does not answer any more. *)
Crash(k) ==
  /\ k \in procs \ hung /\ crashes < MaxCrashes
  /\ crashes' = crashes + 1
  /\ \/ procs' = procs \ {k} /\ UNCHANGED hung
     \/ hung' = hung \cup {k} /\ UNCHANGED procs
  /\ UNCHANGED <<enabled, registered, started, op, failureTimestamps, timestamps, restarts, now, changes>>

Tick ==
  /\ now < MaxClock
  /\ now' = now + 1
  /\ UNCHANGED <<enabled, registered, procs, hung, started, op, failureTimestamps, timestamps, restarts, changes, crashes>>

Step(a) ==
  \/ syncPluginsActiveState(a)
  \/ DeactivateLoad(a) \/ DeactivateIsActive(a) \/ DeactivateShutdown(a)
  \/ setPluginStateLoad(a) \/ setPluginStateStore(a)
  \/ ActivateCheck(a) \/ ActivateRegister(a) \/ newSupervisor(a) \/ OnActivate(a)

Next ==
  \/ \E a \in Actors : Step(a) \/ \E enable \in BOOLEAN : SaveConfig(a, enable)
  \/ HealthTick \/ CheckPlugin
  \/ \E k \in procs : Crash(k)
  \/ Tick

Spec == Init /\ [][Next]_vars

(* Operations end: a plugin's process and its hooks have timeouts. The      *)
(* health check has a ticker.                                               *)
Fairness == /\ \A a \in Actors : WF_vars(Step(a))
            /\ WF_vars(CheckPlugin) /\ SF_vars(HealthTick)

FairSpec == Spec /\ Fairness

-----------------------------------------------------------------------------

(* No process is left behind by an activation that fails, a restart or a    *)
(* deactivation: whatever is alive can be found to be stopped.              *)
NoOrphan == Settled => procs \subseteq (IF IsActive THEN {registered.sup} ELSE {})

(* "DisablePlugin will set the config for an installed plugin to disabled,  *)
(* triggering deactivation if active".                                      *)
DisabledStops == (Settled /\ ~enabled /\ changes > 0) => procs = {}

(* Both: every process is stopped in the end by somebody. *)
ProcessesStopped == NoOrphan /\ DisabledStops

(* The health check does not restart a plugin Limit times within the        *)
(* window; it gives it up first.                                            *)
RestartsBounded ==
  \A i \in 1 .. Len(restarts) - Limit + 1 : restarts[i + Limit - 1] - restarts[i] > Window

(* A plugin that is thought to be running and whose process has gone is     *)
(* noticed, although other operations come in between.                      *)
Noticed ==
  (IsActive /\ registered.sup \notin procs) ~> ~(IsActive /\ registered.sup \notin procs)
=============================================================================
