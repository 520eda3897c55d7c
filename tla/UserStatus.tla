----------------------------- MODULE UserStatus -----------------------------
(***************************************************************************)
(* The status of one user on one node (app/status.go): a cached status, a  *)
(* row of the Status table, and the goroutines and handlers that read one, *)
(* change it in hand and write it back, without a lock: those of the       *)
(* websocket hub and the connections, of the REST API and the slash        *)
(* commands, and the recurring task that ends "do not disturb".            *)
(*                                                                         *)
(* Times are kept as what is asked of them: whether the user was active    *)
(* lately, and whether the end of "do not disturb" has come.               *)
(***************************************************************************)
EXTENDS Integers, FiniteSets

CONSTANTS Tasks,            \* bound: calls of the operations below
          Conns,            \* websocket connections of the user
          MaxFailedWrites,  \* bound: writes to the database that fail
          InTurn            \* whether an event comes after the last one has
                            \* been dealt with

UserStatusAssumption == MaxFailedWrites \in Nat /\ InTurn \in BOOLEAN

VARIABLES cache, row,  \* the status in statusCache and in the table
          task,        \* task[t]: a call, and the status it has in hand
          conn,        \* conn[c]: where connection c is
          failedWrites

statusVars == <<cache, row, task, conn, failedWrites>>

Statuses == {"online", "away", "dnd", "ooo", "offline"}

Ends == {"none", "later", "past"}  \* DNDEndTime

StatusRec == [status : Statuses, manual : BOOLEAN, recent : BOOLEAN,
              ends : Ends, prev : Statuses \cup {"none"}]

Fresh(s, m, r) == [status |-> s, manual |-> m, recent |-> r, ends |-> "none",
                   prev |-> "none"]

(* What takes the place of a status that is not there. *)
Missing == [Fresh("offline", FALSE, FALSE) EXCEPT !.status = "missing"]

Ops == {"online", "offline", "away"} \X BOOLEAN
         \cup {"timed", "dnd", "ooo"} \X {TRUE}
         \cup {"activity", "expire", "fill"} \X {FALSE}

NoCall == [op |-> <<"fill", FALSE>>, pc |-> "none", st |-> Missing,
           save |-> "none"]

Done == [NoCall EXCEPT !.pc = "done"]

StatusTypeOK ==
  /\ cache \in StatusRec \cup {Missing} /\ row \in StatusRec \cup {Missing}
  /\ task \in [Tasks -> [op : Ops, pc : {"none", "read", "cache", "row", "done"},
                         st : StatusRec \cup {Missing},
                         save : {"none", "touch", "save"}]]
  /\ conn \in [Conns -> {"none", "made", "registered", "gone"}]
  /\ failedWrites \in 0 .. MaxFailedWrites

StatusInit ==
  /\ cache = Missing /\ row = Missing
  /\ task = [t \in Tasks |-> NoCall]
  /\ conn = [c \in Conns |-> "none"]
  /\ failedWrites = 0

Quiet == /\ \A t \in Tasks : task[t].pc \in {"none", "done"}
         /\ \A c \in Conns : conn[c] # "made"

-----------------------------------------------------------------------------

(* Events that begin a call. *)

Begins(op) ==
  \E t \in Tasks : /\ task[t].pc = "none"
                   /\ task' = [task EXCEPT ![t].op = op, ![t].pc = "read"]

Timely == InTurn => Quiet

(* A request of the user, a pong of a connection, a post, the recurring     *)
(* task, a request for statuses.                                            *)
Request(op) == /\ Timely
               /\ op \notin {<<"offline", FALSE>>, <<"activity", FALSE>>}
               /\ op = <<"fill", FALSE>> => cache = Missing
               /\ Begins(op)
               /\ UNCHANGED <<cache, row, conn, failedWrites>>

NewWebConn(c) == /\ Timely /\ conn[c] = "none"
                 /\ conn' = [conn EXCEPT ![c] = "made"]
                 /\ Begins(<<"online", FALSE>>)
                 /\ UNCHANGED <<cache, row, failedWrites>>

Register(c) == /\ conn[c] = "made"
               /\ conn' = [conn EXCEPT ![c] = "registered"]
               /\ UNCHANGED <<cache, row, task, failedWrites>>

(* The hub's unregister case: offline after the last connection; if the     *)
(* others have long been inactive, their activity counts.                   *)
Unregister(c) ==
  /\ Timely /\ conn[c] = "registered"
  /\ conn' = [conn EXCEPT ![c] = "gone"]
  /\ IF \E d \in Conns \ {c} : conn[d] = "registered"
       THEN Begins(<<"activity", FALSE>>) \/ UNCHANGED task
       ELSE Begins(<<"offline", FALSE>>)
  /\ UNCHANGED <<cache, row, failedWrites>>

-----------------------------------------------------------------------------

(* What the operations make of the status they read.                        *)

GetStatus == IF cache # Missing THEN cache ELSE row

(* Mutant of Overridden: a manual status is not looked for. *)
OverriddenNever(s, manual) == FALSE /\ s.manual /\ ~manual

(* "manually set status always overrides non-manual one" *)
Overridden(s, manual) == s.manual /\ ~manual

(* The status to write and what is written of it to the row: everything,    *)
(* the time of the last activity, or nothing.                               *)
SetStatusOnline(s, manual) ==
  IF s = Missing THEN {<<Fresh("online", FALSE, TRUE), "save">>}
  ELSE IF Overridden(s, manual) THEN {}
  ELSE LET t == [s EXCEPT !.status = "online", !.manual = FALSE,
                          !.recent = TRUE]
       IN  IF s.status # "online" THEN {<<t, "save">>}
           ELSE {<<t, "touch">>, <<t, "none">>}

SetStatusOffline(s, manual) ==
  IF Overridden(s, manual) THEN {}
  ELSE {<<Fresh("offline", manual, TRUE), "save">>}

SetStatusAwayIfNeeded(s, manual) ==
  LET t == IF s = Missing THEN Fresh("offline", manual, FALSE) ELSE s
  IN  IF \/ Overridden(t, manual)
         \/ ~manual /\ (t.status = "away" \/ t.recent)
        THEN {}
        ELSE {<<[t EXCEPT !.status = "away", !.manual = manual], "save">>}

Found(s) == IF s = Missing THEN Fresh("offline", FALSE, FALSE) ELSE s

SetStatusDoNotDisturbTimed(s) ==
  {<<[Found(s) EXCEPT !.prev = Found(s).status, !.status = "dnd",
                      !.manual = TRUE, !.ends = "later"], "save">>}

SetStatusDoNotDisturb(s) ==
  {<<[Found(s) EXCEPT !.status = "dnd", !.manual = TRUE], "save">>}

SetStatusOutOfOffice(s) ==
  {<<[Found(s) EXCEPT !.status = "ooo", !.manual = TRUE], "save">>}

(* SetStatusLastActivityAt, its first half. *)
SetStatusLastActivityAt(s) ==
  IF s = Missing THEN {} ELSE {<<[s EXCEPT !.recent = FALSE], "none">>}

(* GetStatusesByIds of a user who is not in the cache: the query leaves out *)
(* the columns of "do not disturb".                                         *)
GetStatusesByIds ==
  IF row = Missing THEN {}
  ELSE {<<Fresh(row.status, row.manual, row.recent), "none">>}

Result(op) ==
  CASE op[1] = "online"   -> SetStatusOnline(GetStatus, op[2])
    [] op[1] = "offline"  -> SetStatusOffline(GetStatus, op[2])
    [] op[1] = "away"     -> SetStatusAwayIfNeeded(GetStatus, op[2])
    [] op[1] = "timed"    -> SetStatusDoNotDisturbTimed(GetStatus)
    [] op[1] = "dnd"      -> SetStatusDoNotDisturb(GetStatus)
    [] op[1] = "ooo"      -> SetStatusOutOfOffice(GetStatus)
    [] op[1] = "activity" -> SetStatusLastActivityAt(GetStatus)
    [] op[1] = "fill"     -> GetStatusesByIds

Read(t) ==
  /\ task[t].pc = "read" /\ task[t].op[1] # "expire"
  /\ IF Result(task[t].op) = {}
       THEN task' = [task EXCEPT ![t] = Done]
       ELSE \E r \in Result(task[t].op) :
              task' = [task EXCEPT ![t].pc = "cache", ![t].st = r[1],
                                   ![t].save = r[2]]
  /\ UNCHANGED <<cache, row, conn, failedWrites>>

(* UpdateExpiredDNDStatuses: one statement. *)
UpdateExpiredDNDStatuses(t) ==
  /\ task[t].pc = "read" /\ task[t].op[1] = "expire"
  /\ IF row.status = "dnd" /\ row.ends = "past"
       THEN /\ row' = [row EXCEPT !.status = row.prev, !.prev = "dnd",
                                  !.ends = "none", !.manual = FALSE]
            /\ task' = [task EXCEPT ![t].pc = "cache", ![t].st = row',
                                    ![t].save = "none"]
       ELSE /\ task' = [task EXCEPT ![t] = Done]
            /\ UNCHANGED row
  /\ UNCHANGED <<cache, conn, failedWrites>>

(* AddStatusCache.  SetStatusLastActivityAt goes on with                    *)
(* SetStatusAwayIfNeeded.                                                   *)
AddStatusCache(t) ==
  /\ task[t].pc = "cache"
  /\ cache' = task[t].st
  /\ task' = IF task[t].op[1] = "activity"
               THEN [task EXCEPT ![t].op = <<"away", FALSE>>, ![t].pc = "read"]
             ELSE IF task[t].save = "none" THEN [task EXCEPT ![t] = Done]
             ELSE [task EXCEPT ![t].pc = "row"]
  /\ UNCHANGED <<row, conn, failedWrites>>

(* Mutant of SaveOrUpdate: only the time of the activity is written. *)
SaveOrUpdateTouches(t) ==
  /\ task[t].pc = "row"
  /\ row' = IF row = Missing THEN task[t].st
                             ELSE [row EXCEPT !.recent = task[t].st.recent]
  /\ task' = [task EXCEPT ![t] = Done]
  /\ UNCHANGED <<cache, conn, failedWrites>>

(* SaveOrUpdate or UpdateLastActivityAt, which may fail. *)
SaveOrUpdate(t) ==
  /\ task[t].pc = "row"
  /\ \/ /\ row' = IF task[t].save = "save" THEN task[t].st
                  ELSE IF row = Missing THEN row
                  ELSE [row EXCEPT !.recent = TRUE]
        /\ UNCHANGED failedWrites
     \/ /\ failedWrites < MaxFailedWrites /\ failedWrites' = failedWrites + 1
        /\ UNCHANGED row
  /\ task' = [task EXCEPT ![t] = Done]
  /\ UNCHANGED <<cache, conn>>

-----------------------------------------------------------------------------

(* InvalidateAllCaches. *)
PurgeCache == /\ Timely /\ cache # Missing /\ cache' = Missing
              /\ UNCHANGED <<row, task, conn, failedWrites>>

(* Time passes: the last activity is long ago. *)
Idles == LET Old(s) == [s EXCEPT !.recent = FALSE]
         IN  /\ cache' = Old(cache) /\ row' = Old(row)
             /\ <<cache, row>>' # <<cache, row>>
             /\ UNCHANGED <<task, conn, failedWrites>>

(* The end of "do not disturb" comes. *)
EndTimeComes ==
  LET Over(s) == IF s.ends = "later" THEN [s EXCEPT !.ends = "past"] ELSE s
  IN  /\ cache' = Over(cache) /\ row' = Over(row)
      /\ <<cache, row>>' # <<cache, row>>
      /\ task' = [t \in Tasks |-> [task[t] EXCEPT !.st = Over(task[t].st)]]
      /\ UNCHANGED <<conn, failedWrites>>

TaskStep(t) == \/ Read(t) \/ UpdateExpiredDNDStatuses(t) \/ AddStatusCache(t)
               \/ SaveOrUpdate(t)

StatusNext ==
  \/ \E op \in Ops : Request(op)
  \/ \E c \in Conns : NewWebConn(c) \/ Register(c) \/ Unregister(c)
  \/ \E t \in Tasks : TaskStep(t)
  \/ PurgeCache \/ Idles \/ EndTimeComes

StatusSpec == StatusInit /\ [][StatusNext]_statusVars

-----------------------------------------------------------------------------

(* When all calls have returned and no write failed, cache and row agree on *)
(* the status, although SetStatusOnline writes the row only in part or not  *)
(* at all (status.go:214).                                                  *)
CacheAgreesWithRow ==
  Quiet /\ failedWrites = 0 /\ cache # Missing =>
    row.status = cache.status /\ row.manual = cache.manual

(* "manually set status always overrides non-manual one" (status.go:194):   *)
(* what the websockets do on their own does not touch a manual status.      *)
ManualStands ==
  [][\A t \in Tasks :
       AddStatusCache(t) /\ cache.manual /\ ~task[t].op[2]
         /\ task[t].op[1] # "expire"
       => cache'.status = cache.status /\ cache'.manual]_statusVars

(* A user with a registered connection is not left offline by the end of    *)
(* another one (web_hub.go:478): only the user, or the end of a "do not     *)
(* disturb" that began offline, makes it so.                                *)
ConnectedNotOffline ==
  /\ Quiet /\ failedWrites = 0 /\ cache # Missing
  /\ \E c \in Conns : conn[c] = "registered"
  => cache.status # "offline" \/ cache.manual \/ row.prev = "dnd"

(* What is left when the calls have returned: cache and row agree, and      *)
(* nobody who is connected has been left offline.                           *)
StatusSettles == CacheAgreesWithRow /\ ConnectedNotOffline
=============================================================================
