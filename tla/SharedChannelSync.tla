------------------------- MODULE SharedChannelSync -------------------------
(***************************************************************************)
(* The synchronisation of one shared channel with its remotes              *)
(* (services/sharedchannel/sync_send.go, sync_send_remote.go): tasks in a  *)
(* map, a goroutine that works them off, a cursor per remote that says     *)
(* which posts have been sent, and retries of whole tasks and of posts the *)
(* remote refused.                                                         *)
(*                                                                         *)
(* A post is its place in the order of (UpdateAt, Id); an edit or a        *)
(* deletion is a post of its own here. Of what is sent for a channel this  *)
(* is the posts: users, attachments, reactions and images are left out.    *)
(***************************************************************************)
EXTENDS Integers, Sequences, FiniteSets

CONSTANTS Remotes, MaxRetries, MaxPostsPerSync,
          MaxPosts,    \* bound: posts made
          MaxResumes,  \* bound: terms of the node as leader
          MaxOffline,  \* bound: times a remote goes offline
          MaxRefused,  \* bound: posts a remote answers with an error
          MaxLost,     \* bound: requests that fail
          MaxStoreFaults,
                       \* bound: calls of the store that fail
          MaxFull,     \* bound: messages the send channel has no room for
          Together,    \* bound: the kinds of fault that meet in one behaviour
          InOrder      \* whether posts appear in the order of their UpdateAt

SharedChannelSyncAssumption ==
  /\ MaxRetries \in Nat /\ MaxPostsPerSync \in Nat \ {0} /\ MaxPosts \in Nat
  /\ MaxResumes \in Nat \ {0} /\ MaxOffline \in Nat /\ MaxRefused \in Nat
  /\ MaxLost \in Nat /\ MaxStoreFaults \in Nat /\ MaxFull \in Nat
  /\ InOrder \in BOOLEAN /\ {"all", "local"} \cap Remotes = {}

VARIABLES post,     \* post[p]: where it came from, and whether it is saved
          unsaid,   \* posts saved whose event has not been published
          cursor, online, got, gaveUp,
                    \* per remote: the cursor, whether it is online, the posts
                    \* it has, the posts an error was logged for
          tasks,    \* scs.tasks, in the order of AddedAt
          signal,   \* whether there is a change signal
          loop,     \* loop[n]: the goroutine syncLoop of term n
          active, resumes, used

syncVars == <<post, unsaid, cursor, online, got, gaveUp, tasks, signal, loop,
              active, resumes, used>>

Local == "local"
All == "all"

Terms == 1 .. MaxResumes

(* A task: its id, made of the remote it was made for and of the message it *)
(* repeats, the remote it is for, the post it repeats, if any, its retries, *)
(* and whether its time has come.                                           *)
Task == [id : (Remotes \cup {All}) \X (0 .. MaxRefused), remote : Remotes \cup {All},
         post : 0 .. MaxPosts, retries : 0 .. MaxRetries, ready : BOOLEAN]

newSyncTask(r, p, n) ==
  [id |-> <<r, n>>, remote |-> r, post |-> p, retries |-> 0, ready |-> TRUE]

Delayed(r) == [newSyncTask(r, 0, 0) EXCEPT !.ready = FALSE]

NoLoop == [pc |-> "none", timer |-> FALSE, task |-> newSyncTask(All, 0, 0),
           todo |-> {}, remote |-> All, posts |-> {}, next |-> 0, repeat |-> FALSE]

Saved == {p \in DOMAIN post : post[p].saved}

Faults == {"offline", "refused", "lost", "store", "full", "pause"}

Bound(f) == CASE f = "offline" -> MaxOffline [] f = "refused" -> MaxRefused
              [] f = "lost" -> MaxLost [] f = "store" -> MaxStoreFaults
              [] f = "full" -> MaxFull [] f = "pause" -> MaxResumes - 1

Loop == [pc : {"none", "idle", "left", "pick", "next", "sending", "stuck"},
         timer : BOOLEAN, task : Task, todo : SUBSET Remotes,
         remote : Remotes \cup {All}, posts : SUBSET (1 .. MaxPosts),
         next : 0 .. MaxPosts, repeat : BOOLEAN]

(* Everything is of its type, no two tasks have the same id, and no message *)
(* has more posts than a batch.                                             *)
SyncTypeOK ==
  /\ post \in Seq([from : Remotes \cup {Local}, saved : BOOLEAN])
  /\ Len(post) <= MaxPosts /\ unsaid \subseteq Saved
  /\ cursor \in [Remotes -> 0 .. MaxPosts] /\ online \in [Remotes -> BOOLEAN]
  /\ got \in [Remotes -> SUBSET Saved] /\ gaveUp \in [Remotes -> SUBSET Saved]
  /\ tasks \in Seq(Task) /\ signal \in BOOLEAN
  /\ \A i, j \in DOMAIN tasks : tasks[i].id = tasks[j].id => i = j
  /\ loop \in [Terms -> Loop]
  /\ \A n \in Terms : Cardinality(loop[n].posts) <= MaxPostsPerSync
  /\ active \in BOOLEAN /\ resumes \in Terms
  /\ used \in [Faults -> Nat] /\ \A f \in Faults : used[f] <= Bound(f)

SyncInit ==
  /\ post = <<>> /\ unsaid = {}
  /\ cursor = [r \in Remotes |-> 0] /\ online = [r \in Remotes |-> TRUE]
  /\ got = [r \in Remotes |-> {}] /\ gaveUp = [r \in Remotes |-> {}]
  /\ tasks = <<>> /\ signal = FALSE
  /\ active = TRUE /\ resumes = 1
  /\ loop = [n \in Terms |-> IF n = 1 THEN [NoLoop EXCEPT !.pc = "idle", !.timer = TRUE]
                             ELSE NoLoop]
  /\ used = [f \in Faults |-> 0]

Meet(u) == \E kinds \in Together : {f \in Faults : u[f] > 0} \subseteq kinds

(* n faults of kind f. *)
SyncFault(f, n) == /\ used[f] + n <= Bound(f)
                   /\ used' = [used EXCEPT ![f] = @ + n]
                   /\ Meet(used')

-----------------------------------------------------------------------------

(* addTask leaves a task that has the same id where and as it is. *)
Add(ts, t) == IF \E i \in DOMAIN ts : ts[i].id = t.id THEN ts ELSE Append(ts, t)

addTask(t) == tasks' = Add(tasks, t) /\ signal' = TRUE

Retried(t) == [t EXCEPT !.retries = @ + 1]

(* incRetry, and addTask if it returned true. *)
Retry(ts, t) == IF t.retries < MaxRetries THEN Add(ts, Retried(t)) ELSE ts

-----------------------------------------------------------------------------

(* Posts and remotes. *)

(* PreSave gives a post its UpdateAt; *)
PreSave ==
  /\ Len(post) < MaxPosts
  /\ \E from \in Remotes \cup {Local} :
       post' = Append(post, [from |-> from, saved |-> FALSE])
  /\ UNCHANGED <<unsaid, cursor, online, got, gaveUp, tasks, signal, loop, active,
                 resumes, used>>

(* the transaction that saves it ends later, *)
SavePost(p) ==
  /\ p \in DOMAIN post \ Saved
  /\ InOrder => \A q \in 1 .. p - 1 : q \in Saved
  /\ post' = [post EXCEPT ![p].saved = TRUE]
  /\ unsaid' = unsaid \cup {p}
  /\ UNCHANGED <<cursor, online, got, gaveUp, tasks, signal, loop, active, resumes,
                 used>>

(* and then its event calls NotifyChannelChanged, if the service is active. *)
NotifyChannelChanged(p) ==
  /\ p \in unsaid
  /\ unsaid' = unsaid \ {p}
  /\ IF active THEN addTask(Delayed(All)) ELSE UNCHANGED <<tasks, signal>>
  /\ UNCHANGED <<post, cursor, online, got, gaveUp, loop, active, resumes, used>>

Offline(r) ==
  /\ online[r] /\ SyncFault("offline", 1)
  /\ online' = [online EXCEPT ![r] = FALSE]
  /\ UNCHANGED <<post, unsaid, cursor, got, gaveUp, tasks, signal, loop, active, resumes>>

(* A ping succeeds: onConnectionStateChange, ForceSyncForRemote. *)
BackOnline(r) ==
  /\ ~online[r] /\ active
  /\ online' = [online EXCEPT ![r] = TRUE]
  /\ addTask(Delayed(r))
  /\ UNCHANGED <<post, unsaid, cursor, got, gaveUp, loop, active, resumes, used>>

-----------------------------------------------------------------------------

(* syncLoop, doSync, removeOldestTask. *)

Mature(i) ==
  /\ i \in DOMAIN tasks /\ ~tasks[i].ready
  /\ tasks' = [tasks EXCEPT ![i].ready = TRUE]
  /\ UNCHANGED <<post, unsaid, cursor, online, got, gaveUp, signal, loop, active,
                 resumes, used>>

Wake(n) ==
  /\ loop[n].pc = "idle"
  /\ \/ /\ signal /\ signal' = FALSE
        /\ loop' = [loop EXCEPT ![n].pc = "pick"]
     \/ /\ loop[n].timer
        /\ loop' = [loop EXCEPT ![n].pc = "pick", ![n].timer = FALSE]
        /\ UNCHANGED signal
  /\ UNCHANGED <<post, unsaid, cursor, online, got, gaveUp, tasks, active, resumes, used>>

Closed(n) == n < resumes \/ ~active

Leave(n) ==
  /\ loop[n].pc = "idle" /\ Closed(n)
  /\ loop' = [loop EXCEPT ![n] = [NoLoop EXCEPT !.pc = "left"]]
  /\ UNCHANGED <<post, unsaid, cursor, online, got, gaveUp, tasks, signal, active,
                 resumes, used>>

Ready == {i \in DOMAIN tasks : tasks[i].ready}

Rest(i) == [j \in 1 .. Len(tasks) - 1 |-> IF j < i THEN tasks[j] ELSE tasks[j + 1]]

(* Nothing is ready: the timer is set for the tasks that wait. *)
DoSyncEnds(n) ==
  /\ loop[n].pc = "pick" /\ Ready = {}
  /\ loop' = [loop EXCEPT ![n].pc = "idle", ![n].timer = @ \/ tasks # <<>>]
  /\ UNCHANGED <<post, unsaid, cursor, online, got, gaveUp, tasks, signal, active,
                 resumes, used>>

(* The oldest ready task, and what is left without it. *)
Oldest == CHOOSE i \in Ready : \A j \in Ready : i <= j

(* What an error of the whole task costs, once its retries are used up. *)
Abandoned(t, rs) ==
  [r \in Remotes |-> IF t.post # 0 /\ t.retries = MaxRetries /\ r \in rs
                     THEN gaveUp[r] \cup {t.post} ELSE gaveUp[r]]

(* processTask: the remotes cannot be had, or the one remote is offline. *)
ProcessTaskFails(n) ==
  /\ loop[n].pc = "pick" /\ Ready # {}
  /\ LET t == tasks[Oldest]
     IN /\ \/ SyncFault("store", 1)
           \/ t.remote # All /\ ~online[t.remote] /\ UNCHANGED used
        /\ tasks' = Retry(Rest(Oldest), t)
        /\ signal' = (signal \/ t.retries < MaxRetries)
        /\ gaveUp' = Abandoned(t, {t.remote})
  /\ UNCHANGED <<post, unsaid, cursor, online, got, loop, active, resumes>>

ProcessTask(n) ==
  /\ loop[n].pc = "pick" /\ Ready # {}
  /\ LET t == tasks[Oldest]
     IN /\ t.remote # All => online[t.remote]
        /\ loop' = [loop EXCEPT ![n].pc = "next", ![n].task = t,
                      ![n].todo = IF t.remote = All THEN Remotes ELSE {t.remote}]
        /\ tasks' = Rest(Oldest)
  /\ UNCHANGED <<post, unsaid, cursor, online, got, gaveUp, signal, active, resumes, used>>

ProcessTaskEnds(n) ==
  /\ loop[n].pc = "next" /\ loop[n].todo = {}
  /\ loop' = [loop EXCEPT ![n] = [NoLoop EXCEPT !.pc = "pick", !.timer = loop[n].timer]]
  /\ UNCHANGED <<post, unsaid, cursor, online, got, gaveUp, tasks, signal, active,
                 resumes, used>>

-----------------------------------------------------------------------------

(* syncForRemote. The task for one remote keeps the id of the task for all. *)

For(n, r) == [loop[n].task EXCEPT !.remote = r]

SyncForRemoteFails(n, r) ==
  /\ loop[n].pc = "next" /\ r \in loop[n].todo /\ SyncFault("store", 1)
  /\ tasks' = Retry(tasks, For(n, r))
  /\ signal' = (signal \/ loop[n].task.retries < MaxRetries)
  /\ gaveUp' = Abandoned(loop[n].task, {r})
  /\ loop' = [loop EXCEPT ![n].todo = @ \ {r}]
  /\ UNCHANGED <<post, unsaid, cursor, online, got, active, resumes>>

(* A retry of a post sends it again, with the cursor as it is. *)
ResendPost(n, r) ==
  /\ loop[n].pc = "next" /\ r \in loop[n].todo /\ loop[n].task.post # 0
  /\ loop' = [loop EXCEPT ![n].pc = "sending", ![n].todo = @ \ {r}, ![n].remote = r,
                          ![n].posts = {loop[n].task.post}, ![n].next = cursor[r],
                          ![n].repeat = FALSE]
  /\ UNCHANGED <<post, unsaid, cursor, online, got, gaveUp, tasks, signal, active,
                 resumes, used>>

(* GetPostsSinceForSync: the first posts after the cursor. *)
Since(r) == {p \in Saved : /\ p > cursor[r]
                           /\ Cardinality({q \in Saved : cursor[r] < q /\ q < p})
                                < MaxPostsPerSync}

Last(S, default) == IF S = {} THEN default ELSE CHOOSE p \in S : \A q \in S : q <= p

(* filterPostsForSync: no post goes back to where it came from. *)
Filtered(S, r) == {p \in S : post[p].from # r}

(* A batch that is just full is taken for the last one. *)
RepeatsMore(r) == Cardinality(Since(r)) > MaxPostsPerSync

Repeats(r) == Cardinality(Since(r)) = MaxPostsPerSync

FetchPosts(n, r) ==
  /\ loop[n].pc = "next" /\ r \in loop[n].todo /\ loop[n].task.post = 0
  /\ online[r] /\ Filtered(Since(r), r) # {}
  /\ loop' = [loop EXCEPT ![n].pc = "sending", ![n].todo = @ \ {r}, ![n].remote = r,
                          ![n].posts = Filtered(Since(r), r),
                          ![n].next = Last(Since(r), cursor[r]),
                          ![n].repeat = Repeats(r)]
  /\ UNCHANGED <<post, unsaid, cursor, online, got, gaveUp, tasks, signal, active,
                 resumes, used>>

(* Nothing is sent to an offline remote; when everything was filtered out   *)
(* the cursor moves and a full batch makes another task.                    *)
NothingToSend(n, r) ==
  /\ loop[n].pc = "next" /\ r \in loop[n].todo /\ loop[n].task.post = 0
  /\ IF ~online[r]
     THEN UNCHANGED <<cursor, tasks, signal>>
     ELSE /\ Filtered(Since(r), r) = {}
          /\ cursor' = [cursor EXCEPT ![r] = Last(Since(r), cursor[r])]
          /\ IF Repeats(r) THEN addTask(newSyncTask(r, 0, 0))
                           ELSE UNCHANGED <<tasks, signal>>
  /\ loop' = [loop EXCEPT ![n].todo = @ \ {r}]
  /\ UNCHANGED <<post, unsaid, online, got, gaveUp, active, resumes, used>>

-----------------------------------------------------------------------------

(* sendSyncMsgToRemote and its callback. *)

Sent(n) == [loop EXCEPT ![n].pc = "next"]

AddRepeat(n, ts) ==
  IF loop[n].repeat THEN Add(ts, newSyncTask(loop[n].remote, 0, 0)) ELSE ts

(* The new tasks of handlePostError: a retry of each post that was refused  *)
(* among others.                                                            *)
NewRetries(r, E) ==
  [i \in 1 .. Cardinality(E) |->
     newSyncTask(r, CHOOSE p \in E : Cardinality({q \in E : q <= p}) = i,
                 used["refused"] + i)]

(* The remote answers, with errors for the posts E: a post that was sent    *)
(* alone is tried again as often as MaxRetries says.                        *)
Answered(n) ==
  LET r == loop[n].remote
      t == For(n, r)
  IN /\ loop[n].pc = "sending"
     /\ \E E \in SUBSET loop[n].posts :
          /\ got' = [got EXCEPT ![r] = @ \cup (loop[n].posts \ E)]
          /\ \/ /\ t.post # 0 /\ E # {} /\ SyncFault("refused", 1)
                /\ tasks' = Retry(tasks, t)
                /\ signal' = (signal \/ t.retries < MaxRetries)
                /\ gaveUp' = Abandoned(t, {r})
             \/ /\ t.post = 0 \/ E = {}
                /\ SyncFault("refused", Cardinality(E))
                /\ tasks' = AddRepeat(n, tasks \o NewRetries(r, E))
                /\ signal' = (signal \/ loop[n].repeat \/ E # {})
                /\ UNCHANGED gaveUp
     /\ cursor' = [cursor EXCEPT ![r] = loop[n].next]
     /\ loop' = Sent(n)
     /\ UNCHANGED <<post, unsaid, online, active, resumes>>

(* The cursor moves although nobody answered. *)
UnansweredMoves(n) ==
  /\ loop[n].pc = "sending" /\ SyncFault("lost", 1)
  /\ cursor' = [cursor EXCEPT ![loop[n].remote] = loop[n].next]
  /\ loop' = Sent(n)
  /\ UNCHANGED <<post, unsaid, online, got, gaveUp, tasks, signal, active, resumes>>

(* The request fails, whether or not it got there: the callback finds no    *)
(* payload and returns, and the message counts as sent.                     *)
Unanswered(n) ==
  LET r == loop[n].remote
  IN /\ loop[n].pc = "sending" /\ SyncFault("lost", 1)
     /\ \/ got' = [got EXCEPT ![r] = @ \cup loop[n].posts]
        \/ UNCHANGED got
     /\ tasks' = AddRepeat(n, tasks)
     /\ signal' = (signal \/ loop[n].repeat)
     /\ loop' = Sent(n)
     /\ UNCHANGED <<post, unsaid, cursor, online, gaveUp, active, resumes>>

(* The answer refuses a post that cannot be read again for its retry. *)
RefusedUnread(n) ==
  LET r == loop[n].remote
  IN /\ loop[n].pc = "sending" /\ loop[n].task.post = 0
     /\ \E p \in loop[n].posts :
          /\ got' = [got EXCEPT ![r] = @ \cup (loop[n].posts \ {p})]
          /\ gaveUp' = [gaveUp EXCEPT ![r] = @ \cup {p}]
     /\ used["refused"] < MaxRefused /\ used["store"] < MaxStoreFaults
     /\ used' = [used EXCEPT !["refused"] = @ + 1, !["store"] = @ + 1]
     /\ Meet(used')
     /\ tasks' = AddRepeat(n, tasks)
     /\ signal' = (signal \/ loop[n].repeat)
     /\ cursor' = [cursor EXCEPT ![r] = loop[n].next]
     /\ loop' = Sent(n)
     /\ UNCHANGED <<post, unsaid, online, active, resumes>>

(* The answer comes, and the store does not take the cursor. *)
CursorFails(n) ==
  LET r == loop[n].remote
  IN /\ loop[n].pc = "sending" /\ SyncFault("store", 1)
     /\ got' = [got EXCEPT ![r] = @ \cup loop[n].posts]
     /\ tasks' = AddRepeat(n, tasks)
     /\ signal' = (signal \/ loop[n].repeat)
     /\ loop' = Sent(n)
     /\ UNCHANGED <<post, unsaid, cursor, online, gaveUp, active, resumes>>

(* SendMsg returns BufferFullError: nobody will call the callback that the  *)
(* goroutine waits for.                                                     *)
SendMsgFull(n) ==
  /\ loop[n].pc = "sending" /\ SyncFault("full", 1)
  /\ loop' = [loop EXCEPT ![n].pc = "stuck"]
  /\ UNCHANGED <<post, unsaid, cursor, online, got, gaveUp, tasks, signal, active, resumes>>

-----------------------------------------------------------------------------

(* The leader changes; the bound leaves the node the leader in the end. *)

pause ==
  /\ active /\ SyncFault("pause", 1)
  /\ active' = FALSE
  /\ UNCHANGED <<post, unsaid, cursor, online, got, gaveUp, tasks, signal, loop,
                 resumes>>

resume ==
  /\ ~active
  /\ active' = TRUE /\ resumes' = resumes + 1
  /\ loop' = [loop EXCEPT ![resumes + 1] = [NoLoop EXCEPT !.pc = "idle", !.timer = TRUE]]
  /\ UNCHANGED <<post, unsaid, cursor, online, got, gaveUp, tasks, signal, used>>

Work(n) ==
  \/ Wake(n) \/ Leave(n) \/ DoSyncEnds(n) \/ ProcessTask(n) \/ ProcessTaskFails(n)
  \/ ProcessTaskEnds(n) \/ Answered(n) \/ Unanswered(n) \/ RefusedUnread(n)
  \/ CursorFails(n) \/ SendMsgFull(n)
  \/ \E r \in Remotes : \/ SyncForRemoteFails(n, r) \/ ResendPost(n, r)
                        \/ FetchPosts(n, r) \/ NothingToSend(n, r)

SyncNext ==
  \/ PreSave
  \/ \E p \in 1 .. MaxPosts : SavePost(p) \/ NotifyChannelChanged(p)
  \/ \E r \in Remotes : Offline(r) \/ BackOnline(r)
  \/ \E i \in DOMAIN tasks : Mature(i)
  \/ \E n \in Terms : Work(n)
  \/ pause \/ resume

SyncSpec == SyncInit /\ [][SyncNext]_syncVars

(* A transaction that began ends, an event that is due is published, time   *)
(* passes, the goroutines go on, a remote is back online in the end, and    *)
(* the node is the leader in the end.                                       *)
SyncFairness ==
  /\ \A p \in 1 .. MaxPosts : WF_syncVars(SavePost(p)) /\ WF_syncVars(NotifyChannelChanged(p))
  /\ \A i \in 1 .. MaxPosts + MaxRefused + 3 : WF_syncVars(Mature(i))
  /\ \A n \in Terms : WF_syncVars(Work(n)) /\ WF_syncVars(Leave(n))
  /\ \A r \in Remotes : WF_syncVars(BackOnline(r))
  /\ WF_syncVars(resume)

SyncFairSpec == SyncSpec /\ SyncFairness

-----------------------------------------------------------------------------

(* A retry of post p for remote r is in the map or in hand. *)
Pending(p, r) ==
  \/ \E i \in DOMAIN tasks : tasks[i].post = p /\ tasks[i].remote = r
  \/ \E n \in Terms : /\ loop[n].task.post = p
                      /\ \/ r \in loop[n].todo
                         \/ loop[n].pc = "sending" /\ loop[n].remote = r

(* The cursor of a remote passes no post that the remote does not have,     *)
(* except those that are still to be retried, those given up after          *)
(* MaxRetries, and those that came from it. That is so until a post that    *)
(* was refused meets a request that fails or a send channel that is full.   *)
CursorSafe ==
  used["refused"] = 0 \/ (used["lost"] = 0 /\ used["full"] = 0) =>
  \A r \in Remotes, p \in Saved :
    p <= cursor[r] => p \in got[r] \cup gaveUp[r] \/ post[p].from = r \/ Pending(p, r)

(* A change of the channel is sent to every remote that is online in the    *)
(* end: NotifyChannelChanged "is called to indicate that a shared channel   *)
(* has been modified, thus triggering an update to all remote clusters."    *)
Synced ==
  \A r \in Remotes, p \in 1 .. MaxPosts :
    (p \in Saved) ~> \/ p \in got[r] \cup gaveUp[r]
                     \/ p \in DOMAIN post /\ post[p].from = r
=============================================================================
