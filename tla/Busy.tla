-------------------------------- MODULE Busy --------------------------------
(***************************************************************************)
(* The busy flag of the nodes of a cluster (app/busy.go): a flag, the time *)
(* it expires, a timer that clears it, and a message to the other nodes at *)
(* every change. All operations hold the node's mutex, also the function   *)
(* of the timer, which may have to wait for it when the timer has gone off.*)
(* Time is counted in ticks, and the messages carry whole seconds.         *)
(***************************************************************************)
EXTENDS Integers, Sequences

CONSTANTS Servers,
          Callers,    \* the nodes at which an administrator calls the API
          Second,     \* the ticks of a second
          Durations,  \* the durations asked for, in ticks
          MaxTicks,   \* bound on the clock
          MaxCalls    \* bound on the calls of Set and Clear

BusyAssumption ==
  /\ Callers \subseteq Servers
  /\ Second \in Nat \ {0} /\ MaxTicks \in Nat /\ MaxCalls \in Nat
  /\ Durations \subseteq Nat

VARIABLES clock, calls,
          busy, expires,  \* expires[n] is 0 for the zero time
          armed,          \* armed[n]: when the timers of n that run go off
          fired,          \* fired[n]: the functions of timers that wait for the mutex
          net,            \* net[<<n, m>>]: the messages from n to m
          last,           \* the expiry that the last call asked for, 0 for Clear
          late            \* history: a call or a tick came before the timers that
                          \* were due and the messages on their way were served

busyVars == <<clock, calls, busy, expires, armed, fired, net, last, late>>

Messages == [busy : BOOLEAN, expires : 0 .. MaxTicks \div Second]

BusyTypeOK ==
  /\ clock \in 0 .. MaxTicks /\ calls \in 0 .. MaxCalls /\ last \in 0 .. MaxTicks
  /\ late \in BOOLEAN
  /\ busy \in [Servers -> BOOLEAN]
  /\ expires \in [Servers -> 0 .. MaxTicks]
  /\ armed \in [Servers -> SUBSET (0 .. MaxTicks)]
  /\ fired \in [Servers -> Nat]
  /\ net \in [Servers \X Servers -> Seq(Messages)]

BusyInit ==
  /\ clock = 0 /\ calls = 0 /\ last = 0 /\ late = FALSE
  /\ busy = [n \in Servers |-> FALSE]
  /\ expires = [n \in Servers |-> 0]
  /\ armed = [n \in Servers |-> {}]
  /\ fired = [n \in Servers |-> 0]
  /\ net = [p \in Servers \X Servers |-> <<>>]

Due(n) == {at \in armed[n] : at <= clock}

Served == /\ \A n \in Servers : fired[n] = 0 /\ Due(n) = {}
           /\ \A p \in Servers \X Servers : net[p] = <<>>

Notes == late' = (late \/ ~Served)

-----------------------------------------------------------------------------

(* The timer that runs is not stopped. *)
setWithoutNotifyOrStop(n, at) ==
  /\ busy' = [busy EXCEPT ![n] = TRUE]
  /\ expires' = [expires EXCEPT ![n] = at]
  /\ armed' = [armed EXCEPT ![n] = @ \cup {at}]

setWithoutNotify(n, at) ==
  /\ busy' = [busy EXCEPT ![n] = TRUE]
  /\ expires' = [expires EXCEPT ![n] = at]
  /\ armed' = [armed EXCEPT ![n] = {at}]

(* A timer that has gone off cannot be stopped. *)
clearWithoutNotify(n) ==
  /\ busy' = [busy EXCEPT ![n] = FALSE]
  /\ expires' = [expires EXCEPT ![n] = 0]
  /\ armed' = [armed EXCEPT ![n] = {}]

notifyServerBusyChange(n, sbs) ==
  net' = [p \in Servers \X Servers |->
            IF p[1] = n /\ p[2] # n THEN Append(net[p], sbs) ELSE net[p]]

Set(n, dur) ==
  LET at == clock + (IF dur < Second THEN Second ELSE dur) IN
  /\ Notes /\ n \in Callers /\ calls < MaxCalls /\ at <= MaxTicks
  /\ setWithoutNotify(n, at)
  /\ notifyServerBusyChange(n, [busy |-> TRUE, expires |-> at \div Second])
  /\ calls' = calls + 1 /\ last' = at
  /\ UNCHANGED <<clock, fired>>

Clear(n) ==
  /\ Notes /\ n \in Callers /\ calls < MaxCalls
  /\ clearWithoutNotify(n)
  /\ notifyServerBusyChange(n, [busy |-> FALSE, expires |-> 0])
  /\ calls' = calls + 1 /\ last' = 0
  /\ UNCHANGED <<clock, fired>>

(* The timer goes off: its function runs in a goroutine of its own. *)
Fire(n) ==
  /\ \E at \in Due(n) : armed' = [armed EXCEPT ![n] = @ \ {at}]
  /\ fired' = [fired EXCEPT ![n] = @ + 1]
  /\ UNCHANGED <<clock, calls, busy, expires, net, last, late>>

(* The function gets the mutex. *)
Expire(n) ==
  /\ fired[n] > 0
  /\ clearWithoutNotify(n)
  /\ fired' = [fired EXCEPT ![n] = @ - 1]
  /\ UNCHANGED <<clock, calls, net, last, late>>

ClusterEventChanged(n, m) ==
  /\ net[<<n, m>>] # <<>>
  /\ net' = [net EXCEPT ![<<n, m>>] = Tail(@)]
  /\ LET sbs == Head(net[<<n, m>>])
         at  == sbs.expires * Second
     IN  \/ sbs.busy /\ at > clock /\ setWithoutNotify(m, at)
         \/ sbs.busy /\ at <= clock /\ UNCHANGED <<busy, expires, armed>>
         \/ ~sbs.busy /\ clearWithoutNotify(m)
  /\ UNCHANGED <<clock, calls, fired, last, late>>

ClockTick ==
  /\ Notes /\ clock < MaxTicks
  /\ clock' = clock + 1
  /\ UNCHANGED <<calls, busy, expires, armed, fired, net, last>>

BusyNext ==
  \/ \E n \in Servers :
       \/ \E dur \in Durations : Set(n, dur)
       \/ Clear(n) \/ Fire(n) \/ Expire(n)
       \/ \E m \in Servers : ClusterEventChanged(n, m)
  \/ ClockTick

BusySpec == BusyInit /\ [][BusyNext]_busyVars

(* Time passes, timers go off and a goroutine gets the mutex in the end. *)
BusyFairness ==
  WF_busyVars(ClockTick) /\ \A n \in Servers :
    /\ WF_busyVars(Fire(n)) /\ WF_busyVars(Expire(n))
    /\ \A m \in Servers : WF_busyVars(ClusterEventChanged(n, m))

BusyFairSpec == BusySpec /\ BusyFairness

-----------------------------------------------------------------------------

(* No node stays busy for ever: calls and messages replace the timer that   *)
(* ends the busy state, and each leaves one behind.                         *)
BusyEnds == \A n \in Servers : busy[n] ~> ~busy[n]

(* Once the messages are in, no node is busy for longer than the last call  *)
(* asked for, nor shorter by more than the fraction of a second that the    *)
(* messages lose: "any changes will be propagated to each node". That is so *)
(* as long as nothing is late.                                              *)
Follows ==
  Served /\ ~late => \A n \in Servers :
    /\ expires[n] <= last
    /\ last > clock + Second => expires[n] > last - Second

(* "Set marks the server as busy for dur duration": no timer ends a busy    *)
(* state before its expiry, as long as nothing is late.                     *)
NotEarly ==
  [][~late => \A n \in Servers : fired'[n] < fired[n] => clock >= expires[n]]_busyVars

(* A busy state ends as the last call of Set asked for: no timer ends it    *)
(* before its expiry (setWithoutNotify), and once the messages are in no    *)
(* node is busy for longer (busy.go, ClusterEventChanged).                  *)
BusyAsAsked == NotEarly /\ []Follows
=============================================================================
