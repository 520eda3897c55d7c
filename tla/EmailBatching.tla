--------------------------- MODULE EmailBatching ---------------------------
(***************************************************************************)
(* Notifications that are mailed in batches (app/email/email_batching.go): *)
(* a channel that takes them, a map of what is pending for each user, and  *)
(* a recurring task that empties the channel into the map and then goes    *)
(* through the users: a view of a channel since the first notification     *)
(* drops the batch, and a batch that has waited long enough is mailed.     *)
(* A notification is the number of its post.                               *)
(***************************************************************************)
EXTENDS Integers, Sequences, Functions

CONSTANTS Users, Teams,
          BufferSize,   \* EmailSettings.EmailBatchingBufferSize
          Interval,     \* the user's preference, or the default, in seconds
          MaxPosts,     \* bound on the notifications
          MaxStoreFails,     \* bound on the calls of the store that fail
          MaxSeconds      \* bound on the clock

EmailBatchingAssumption ==
  /\ BufferSize \in Nat /\ Interval \in Nat \ {0}
  /\ MaxPosts \in Nat /\ MaxStoreFails \in Nat /\ MaxSeconds \in Nat

VARIABLES seconds, post,         \* post[i]: the user, team and CreateAt of notification i
          newNotifications, pendingNotifications,
          todo,              \* the users the task still has to look at
          task,              \* "waiting", "receiving" or "checking"
          lastViewedAt,      \* the newest LastViewedAt of a user's channels in a team
          mailed, immediate, deleted,
          storeFails

emailVars == <<seconds, post, newNotifications, pendingNotifications, todo, task,
          lastViewedAt, mailed, immediate, deleted, storeFails>>

EmailTypeOK ==
  /\ seconds \in 0 .. MaxSeconds /\ storeFails \in 0 .. MaxStoreFails
  /\ post \in Seq([user : Users, team : Teams, at : 0 .. MaxSeconds])
  /\ newNotifications \in Seq(DOMAIN post) /\ Len(newNotifications) <= BufferSize
  /\ pendingNotifications \in [Users -> Seq(DOMAIN post)]
  /\ todo \subseteq {u \in Users : pendingNotifications[u] # <<>>}
  /\ task \in {"waiting", "receiving", "checking"}
  /\ lastViewedAt \in [Users -> [Teams -> -1 .. MaxSeconds]]

EmailInit ==
  /\ seconds = 0 /\ post = <<>> /\ newNotifications = <<>> /\ storeFails = 0
  /\ pendingNotifications = [u \in Users |-> <<>>]
  /\ todo = {} /\ task = "waiting"
  /\ lastViewedAt = [u \in Users |-> [t \in Teams |-> -1]]
  /\ mailed = {} /\ immediate = {} /\ deleted = {}

-----------------------------------------------------------------------------

(* A notification that cannot be queued is mailed at once. The post is not  *)
(* always of this second, and posts may be queued out of order.             *)
AddNotificationEmailToBatch(u, t) ==
  /\ Len(post) < MaxPosts /\ seconds + Interval < MaxSeconds
  /\ \E at \in {seconds - 1, seconds} \cap Nat :
       post' = Append(post, [user |-> u, team |-> t, at |-> at])
  /\ \/ /\ Len(newNotifications) < BufferSize
        /\ newNotifications' = Append(newNotifications, Len(post'))
        /\ UNCHANGED immediate
     \/ /\ Len(newNotifications) >= BufferSize
        /\ immediate' = immediate \cup {Len(post')}
        /\ UNCHANGED newNotifications
  /\ UNCHANGED <<seconds, pendingNotifications, todo, task, lastViewedAt, mailed, deleted, storeFails>>

(* The user views a channel of the team. *)
View(u, t) ==
  /\ lastViewedAt' = [lastViewedAt EXCEPT ![u][t] = seconds]
  /\ UNCHANGED <<seconds, post, newNotifications, pendingNotifications, todo, task, mailed, immediate, deleted, storeFails>>

-----------------------------------------------------------------------------

(* The ticker of the recurring task. *)
CheckPendingEmails ==
  /\ task = "waiting"
  /\ task' = "receiving"
  /\ UNCHANGED <<seconds, post, newNotifications, pendingNotifications, todo, lastViewedAt, mailed, immediate, deleted, storeFails>>

handleNewNotifications ==
  /\ task = "receiving" /\ newNotifications # <<>>
  /\ LET n == Head(newNotifications)
     IN  pendingNotifications' = [pendingNotifications EXCEPT ![post[n].user] = Append(@, n)]
  /\ newNotifications' = Tail(newNotifications)
  /\ UNCHANGED <<seconds, post, todo, task, lastViewedAt, mailed, immediate, deleted, storeFails>>

checkPendingNotifications ==
  /\ task = "receiving" /\ newNotifications = <<>>
  /\ task' = "checking"
  /\ todo' = {u \in Users : pendingNotifications[u] # <<>>}
  /\ UNCHANGED <<seconds, post, newNotifications, pendingNotifications, lastViewedAt, mailed, immediate, deleted, storeFails>>

Batch(u) == {post[n] : n \in Range(pendingNotifications[u])}

batchStartTime(u) == post[Head(pendingNotifications[u])].at

(* The views since the last notification of the batch. *)
ViewedSinceLast(u) ==
  lastViewedAt[u][post[Head(pendingNotifications[u])].team] >= post[pendingNotifications[u][Len(pendingNotifications[u])]].at

(* Whatever the team of a notification, the views in the team of the first  *)
(* one are looked at.                                                       *)
Viewed(u) == lastViewedAt[u][post[Head(pendingNotifications[u])].team] >= batchStartTime(u)

(* The interval has passed. *)
LongEnough(u) == seconds - batchStartTime(u) > Interval

Dropped(u) ==
  /\ deleted' = deleted \cup Range(pendingNotifications[u])
  /\ pendingNotifications' = [pendingNotifications EXCEPT ![u] = <<>>]
  /\ UNCHANGED mailed

Mailed(u) ==
  /\ mailed' = mailed \cup Range(pendingNotifications[u])
  /\ pendingNotifications' = [pendingNotifications EXCEPT ![u] = <<>>]
  /\ UNCHANGED deleted

(* One user's turn, when the calls of the store are answered. *)
CheckUser(u) ==
  /\ task = "checking" /\ u \in todo
  /\ \/ Viewed(u) /\ Dropped(u)
     \/ ~Viewed(u) /\ LongEnough(u) /\ Mailed(u)
     \/ ~Viewed(u) /\ ~LongEnough(u) /\ UNCHANGED <<deleted, mailed, pendingNotifications>>
  /\ todo' = todo \ {u}
  /\ UNCHANGED <<seconds, post, newNotifications, task, lastViewedAt, immediate, storeFails>>

(* The team or the user's channels are not found: the views are not known,  *)
(* and the batch is mailed when it has waited long enough.                  *)
CheckUserFails(u) ==
  /\ task = "checking" /\ u \in todo /\ storeFails < MaxStoreFails
  /\ \/ LongEnough(u) /\ Mailed(u)
     \/ ~LongEnough(u) /\ UNCHANGED <<deleted, mailed, pendingNotifications>>
  /\ todo' = todo \ {u}
  /\ storeFails' = storeFails + 1
  /\ UNCHANGED <<seconds, post, newNotifications, task, lastViewedAt, immediate>>

Done ==
  /\ task = "checking" /\ todo = {}
  /\ task' = "waiting"
  /\ UNCHANGED <<seconds, post, newNotifications, pendingNotifications, todo, lastViewedAt, mailed, immediate, deleted, storeFails>>

SecondPasses ==
  /\ seconds < MaxSeconds
  /\ seconds' = seconds + 1
  /\ UNCHANGED <<post, newNotifications, pendingNotifications, todo, task, lastViewedAt, mailed, immediate, deleted, storeFails>>

EmailNext ==
  \/ \E u \in Users : \/ \E t \in Teams : AddNotificationEmailToBatch(u, t) \/ View(u, t)
                      \/ CheckUser(u) \/ CheckUserFails(u)
  \/ CheckPendingEmails \/ handleNewNotifications \/ checkPendingNotifications \/ Done \/ SecondPasses

EmailSpec == EmailInit /\ [][EmailNext]_emailVars

(* Time passes, and the recurring task goes on. *)
EmailFairness ==
  /\ WF_emailVars(SecondPasses)
  /\ WF_emailVars(CheckPendingEmails \/ handleNewNotifications \/ checkPendingNotifications \/ Done)
  /\ \A u \in Users : WF_emailVars(CheckUser(u) \/ CheckUserFails(u))

EmailFairSpec == EmailSpec /\ EmailFairness

-----------------------------------------------------------------------------

Pending == UNION {Range(pendingNotifications[u]) : u \in Users}

Ended == mailed \cup immediate \cup deleted

(* A notification is in exactly one place: none is lost, mailed twice, or   *)
(* mailed and still pending. Only a user who has viewed a channel since the *)
(* first of his notifications has one dropped.                              *)
Accounted ==
  /\ \A n \in DOMAIN post :
       LET places == <<Range(newNotifications), Pending, mailed, immediate, deleted>>
       IN  \E i \in DOMAIN places : \A j \in DOMAIN places : n \in places[j] <=> i = j
  /\ \A n \in deleted : \E m \in DOMAIN post, t \in Teams :
       post[m].user = post[n].user /\ lastViewedAt[post[n].user][t] >= post[m].at

(* "if the user has viewed any channels in this team since the notification *)
(* was queued, delete all queued notifications": what is mailed has no      *)
(* notification of a team in which the user has viewed a channel since the  *)
(* batch began.                                                             *)
ViewedNotMailed ==
  [][\A u \in Users : (mailed' # mailed /\ u \in todo \ todo' /\ storeFails' = storeFails) =>
       \A p \in Batch(u) : lastViewedAt[u][p.team] < batchStartTime(u)]_emailVars

(* A notification to be mailed is in exactly one place; what is mailed has  *)
(* no notification of a team in which the user has viewed a channel since   *)
(* the batch began, and only for such a view is one dropped                 *)
(* (email_batching.go, checkPendingNotifications).                          *)
MailedUnlessViewed == []Accounted /\ ViewedNotMailed

(* Every notification is mailed or dropped in the end, also when nothing    *)
(* more happens.                                                            *)
EventuallyMailed == \A n \in 1 .. MaxPosts : (n \in DOMAIN post) ~> (n \in Ended)
=============================================================================
