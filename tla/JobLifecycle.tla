---------------------------- MODULE JobLifecycle ----------------------------
(***************************************************************************)
(* What the job server promises about one job after another: a job is run  *)
(* at most once, by one worker, which alone decides how it ends; what      *)
(* others may do is cancel it before it runs, ask for its cancellation     *)
(* while it runs, and give it up when no worker runs it.  A job that has   *)
(* ended stays as it is.                                                   *)
(***************************************************************************)
CONSTANTS Jobs, Workers, None

VARIABLES status,  \* status[j]: the status of job j in the Jobs table
          runner   \* runner[j]: the worker that runs j, or None

Ended == {"success", "error", "canceled"}

Init == /\ status = [j \in Jobs |-> "none"]
        /\ runner = [j \in Jobs |-> None]

Becomes(j, from, to) == /\ status[j] = from
                        /\ status' = [status EXCEPT ![j] = to]

Create(j) == Becomes(j, "none", "pending") /\ UNCHANGED runner

Cancel(j) == Becomes(j, "pending", "canceled") /\ UNCHANGED runner

Claim(j, w) == /\ Becomes(j, "pending", "in_progress")
               /\ runner' = [runner EXCEPT ![j] = w]

RequestCancel(j) ==
  Becomes(j, "in_progress", "cancel_requested") /\ UNCHANGED runner

(* The job's own worker ends it. *)
End(j, w) ==
  /\ runner[j] = w /\ status[j] \in {"in_progress", "cancel_requested"}
  /\ \E s \in Ended : status' = [status EXCEPT ![j] = s]
  /\ runner' = [runner EXCEPT ![j] = None]

(* Workers stop without a word: a crash, or a database that fails twice. *)
Abandon(S) == /\ runner' = [j \in Jobs |-> IF j \in S THEN None ELSE runner[j]]
              /\ UNCHANGED status

GiveUp(j) == /\ runner[j] = None
             /\ \/ Becomes(j, "in_progress", "error")
                \/ Becomes(j, "cancel_requested", "error")
             /\ UNCHANGED runner

Next == \/ \E j \in Jobs : \/ Create(j) \/ Cancel(j) \/ RequestCancel(j)
                           \/ GiveUp(j)
                           \/ \E w \in Workers : Claim(j, w) \/ End(j, w)
        \/ \E S \in SUBSET Jobs : Abandon(S)

Spec == Init /\ [][Next]_<<status, runner>>
=============================================================================
