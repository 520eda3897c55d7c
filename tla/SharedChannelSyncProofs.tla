----------------------- MODULE SharedChannelSyncProofs ----------------------
(***************************************************************************)
(* Proofs about SharedChannelSync, for any number of remotes, posts and    *)
(* terms, and any bounds of the faults.                                    *)
(***************************************************************************)
EXTENDS SharedChannelSync, FiniteSetTheorems, SequenceTheorems,
        WellFoundedInduction, TLAPS

(* The tasks in the map and in the hands of the goroutines. *)

Elems(ts) == {ts[i] : i \in DOMAIN ts}

Hands == {loop[n].task : n \in Terms}

InUse == Elems(tasks) \cup Hands

UniqueIds(ts) == \A i, j \in DOMAIN ts : ts[i].id = ts[j].id => i = j

(* A task is for posts that are saved and has the id of a refusal that      *)
(* happened, if it repeats a post; then it is for the remote that refused.  *)
GoodTask(t, P, k) ==
  /\ t \in Task /\ t.post \in P \cup {0} /\ t.id[2] <= k
  /\ t.post = 0 <=> t.id[2] = 0
  /\ t.post # 0 => t.remote = t.id[1] /\ t.remote # All

(* Tasks with the same id repeat the same post. *)
Coherent(S) == \A t, u \in S : t.id = u.id => t.post = u.post

SyncTasks ==
  /\ tasks \in Seq(Task) /\ UniqueIds(tasks)
  /\ \A t \in InUse : GoodTask(t, Saved, used["refused"])
  /\ Coherent(InUse)

(* A goroutine sends posts that are saved, to one remote at a time, and has *)
(* remotes to do only while it works at a task.                             *)
LoopGood(l, n, P, s) ==
  /\ l \in Loop /\ l.posts \subseteq P /\ Cardinality(l.posts) <= MaxPostsPerSync
  /\ l.pc \in {"none", "idle", "left", "pick"} => l.todo = {}
  /\ n > s => l.pc = "none"
  /\ l.task.post # 0 => l.todo \subseteq {l.task.remote}
  /\ l.pc = "sending" =>
       /\ l.remote \in Remotes /\ l.next \in P \cup {0}
       /\ l.task.post # 0 => l.remote = l.task.remote /\ l.posts = {l.task.post}

SyncLoops == /\ loop \in [Terms -> Loop]
             /\ \A n \in Terms : LoopGood(loop[n], n, Saved, resumes)

PostRec == [from : Remotes \cup {Local}, saved : BOOLEAN]

SyncPosts ==
  /\ post \in Seq(PostRec) /\ Len(post) <= MaxPosts /\ unsaid \subseteq Saved
  /\ cursor \in [Remotes -> 0 .. MaxPosts]
  /\ \A r \in Remotes : cursor[r] \in Saved \cup {0}
  /\ online \in [Remotes -> BOOLEAN]
  /\ got \in [Remotes -> SUBSET Saved] /\ gaveUp \in [Remotes -> SUBSET Saved]

SyncCounts ==
  /\ signal \in BOOLEAN /\ active \in BOOLEAN
  /\ resumes = IF active THEN used["pause"] + 1 ELSE used["pause"]
  /\ resumes \in Terms
  /\ used \in [Faults -> Nat] /\ \A f \in Faults : used[f] <= Bound(f)

SyncInv == SyncPosts /\ SyncCounts /\ SyncTasks /\ SyncLoops

LEMMA SyncInvTypes ==
  ASSUME SyncInv
  PROVE  SyncTypeOK
  BY DEF SyncInv, SyncPosts, SyncCounts, SyncTasks, SyncLoops, SyncTypeOK, PostRec,
         UniqueIds, LoopGood

-----------------------------------------------------------------------------

(* Finite sets of numbers. *)

LEMMA Smallest ==
  ASSUME NEW S \in SUBSET Nat, S # {}
  PROVE  \E m \in S : \A k \in S : m <= k
<1>1. PICK m \in S : \A k \in S : ~(<<k, m>> \in OpToRel(<, Nat))
  BY NatLessThanWellFounded, WFMin
<1>2. \A k \in S : ~(k < m)
  BY <1>1 DEF OpToRel
<1> QED  BY <1>2

LEMMA Largest ==
  ASSUME NEW N \in Nat, NEW S \in SUBSET (1 .. N), S # {}
  PROVE  \E p \in S : \A q \in S : q <= p
<1> DEFINE T == {N - p : p \in S}
<1>1. \A p \in S : p \in Nat /\ N - p \in Nat /\ N - p \in T
  OBVIOUS
<1>2. T \in SUBSET Nat
  BY <1>1
<1>3. PICK a \in S : TRUE
  OBVIOUS
<1>4. PICK m \in T : \A k \in T : m <= k
  BY <1>1, <1>2, <1>3, Smallest
<1>5. PICK p \in S : m = N - p
  BY <1>4
<1>6. \A q \in S : N - p <= N - q
  BY <1>1, <1>4, <1>5
<1>7. ASSUME NEW q \in S PROVE q <= p
  <2>1. q \in Nat /\ p \in Nat /\ N - p <= N - q
    BY <1>1, <1>5, <1>6
  <2> QED  BY <2>1
<1> QED  BY <1>7

LEMMA FiniteNumbers ==
  ASSUME NEW N \in Nat, NEW S \in SUBSET (1 .. N)
  PROVE  IsFiniteSet(S) /\ Cardinality(S) \in Nat
<1>1. IsFiniteSet(1 .. N)
  BY FS_Interval
<1> QED  BY <1>1, FS_Subset, FS_CardinalityType

LEMMA LastFacts ==
  ASSUME NEW N \in Nat, NEW S \in SUBSET (1 .. N), NEW d
  PROVE  /\ S = {} => Last(S, d) = d
         /\ S # {} => Last(S, d) \in S /\ \A q \in S : q <= Last(S, d)
<1>1. ASSUME S # {} PROVE Last(S, d) \in S /\ \A q \in S : q <= Last(S, d)
  <2>1. \E p \in S : \A q \in S : q <= p
    BY <1>1, Largest
  <2> QED  BY <1>1, <2>1 DEF Last
<1> QED  BY <1>1 DEF Last

(* The k smallest elements are at most k. *)
LEMMA FirstFew ==
  ASSUME NEW N \in Nat, NEW X \in SUBSET (1 .. N), NEW k \in Nat,
         NEW S \in SUBSET X, \A p \in S : Cardinality({q \in X : q < p}) < k
  PROVE  Cardinality(S) <= k
<1>1. CASE S = {}
  BY <1>1, FS_EmptySet
<1>2. CASE S # {}
  <2>1. PICK m \in S : \A q \in S : q <= m
    <3>1. S \in SUBSET (1 .. N)
      OBVIOUS
    <3> QED  BY <1>2, <3>1, Largest
  <2> DEFINE B == {q \in X : q < m}
  <2>2. S \ {m} \in SUBSET B /\ B \in SUBSET (1 .. N) /\ S \in SUBSET (1 .. N)
    <3>1. \A q \in X : q \in Nat
      OBVIOUS
    <3>2. \A q \in S \ {m} : q \in X /\ q < m
      BY <2>1, <3>1
    <3> QED  BY <3>2
  <2>3. IsFiniteSet(B) /\ IsFiniteSet(S) /\ Cardinality(B) \in Nat /\ Cardinality(S) \in Nat
    BY <2>2, FiniteNumbers
  <2>4. Cardinality(S \ {m}) <= Cardinality(B)
    BY <2>2, <2>3, FS_Subset
  <2>5. Cardinality(S \ {m}) = Cardinality(S) - 1
    BY <2>1, <2>3, FS_RemoveElement
  <2>6. Cardinality(B) < k
    BY <2>1
  <2> HIDE DEF B
  <2> QED  BY <2>3, <2>4, <2>5, <2>6
<1> QED  BY <1>1, <1>2

Place(S, p) == Cardinality({q \in S : q <= p})

(* The places of the elements of S are the numbers up to its size. *)
LEMMA Places ==
  ASSUME NEW N \in Nat, NEW S \in SUBSET (1 .. N)
  PROVE  /\ \A p \in S : Place(S, p) \in 1 .. Cardinality(S)
         /\ \A p, q \in S : Place(S, p) = Place(S, q) => p = q
         /\ \A i \in 1 .. Cardinality(S) : \E p \in S : Place(S, p) = i
<1>1. IsFiniteSet(S) /\ Cardinality(S) \in Nat
  BY FiniteNumbers
<1>2. \A p : {q \in S : q <= p} \in SUBSET S /\ {q \in S : q <= p} \in SUBSET (1 .. N)
  OBVIOUS
<1>3. \A p : IsFiniteSet({q \in S : q <= p}) /\ Place(S, p) \in Nat
               /\ Place(S, p) <= Cardinality(S)
  BY <1>1, <1>2, FiniteNumbers, FS_Subset DEF Place
<1>4. ASSUME NEW p \in S PROVE Place(S, p) \in 1 .. Cardinality(S)
  <2>1. p \in {q \in S : q <= p}
    OBVIOUS
  <2>2. Place(S, p) # 0
    BY <1>3, <2>1, FS_EmptySet DEF Place
  <2>3. Place(S, p) \in Nat /\ Place(S, p) <= Cardinality(S)
    BY <1>3
  <2> QED  BY <1>1, <2>2, <2>3
<1>0. \A p \in S : p \in Nat
  OBVIOUS
<1>5. ASSUME NEW p \in S, NEW q \in S, p < q PROVE Place(S, p) # Place(S, q)
  <2> DEFINE A == {u \in S : u <= p}
             B == {u \in S : u <= q}
  <2>1. A \in SUBSET B /\ q \in B /\ q \notin A
    <3>1. p \in Nat /\ q \in Nat /\ p < q
      BY <1>0, <1>5
    <3>2. \A u \in S : u <= p => u <= q
      BY <1>0, <3>1
    <3>3. ~(q <= p) /\ q <= q
      BY <3>1
    <3> QED  BY <3>2, <3>3
  <2>2. IsFiniteSet(B)
    BY <1>3
  <2>3. Cardinality(A) # Cardinality(B)
    BY <2>1, <2>2, FS_Subset
  <2> QED  BY <2>3 DEF Place
<1>6. \A p, q \in S : Place(S, p) = Place(S, q) => p = q
  BY <1>0, <1>5
<1> DEFINE f == [p \in S |-> Place(S, p)]
<1>7. f \in Injection(S, 1 .. Cardinality(S))
  BY <1>4, <1>6 DEF Injection, IsInjective
<1>8. IsFiniteSet(1 .. Cardinality(S)) /\ Cardinality(1 .. Cardinality(S)) = Cardinality(S)
  BY <1>1, FS_Interval
<1>9. f \in Surjection(S, 1 .. Cardinality(S))
  BY <1>7, <1>8, FS_Injection
<1>10. \A i \in 1 .. Cardinality(S) : \E p \in S : Place(S, p) = i
  BY <1>9 DEF Surjection
<1> QED  BY <1>4, <1>6, <1>10
-----------------------------------------------------------------------------

(* Tasks and lists of tasks. *)

LEMMA TaskFacts ==
  ASSUME NEW t \in Task
  PROVE  /\ t.id[1] \in Remotes \cup {All} /\ t.id[2] \in 0 .. MaxRefused
         /\ t.remote \in Remotes \cup {All} /\ t.post \in 0 .. MaxPosts
         /\ t.retries \in 0 .. MaxRetries /\ t.id = <<t.id[1], t.id[2]>>
  BY DEF Task

LEMMA NewTaskFacts ==
  ASSUME SharedChannelSyncAssumption,
         NEW r \in Remotes \cup {All}, NEW p \in 0 .. MaxPosts, NEW n \in 0 .. MaxRefused
  PROVE  /\ newSyncTask(r, p, n) \in Task /\ newSyncTask(r, p, n).id[1] = r
         /\ newSyncTask(r, p, n).id[2] = n /\ newSyncTask(r, p, n).remote = r
         /\ newSyncTask(r, p, n).post = p
<1>1. <<r, n>> \in (Remotes \cup {All}) \X (0 .. MaxRefused)
  OBVIOUS
<1>2. 0 \in 0 .. MaxRetries
  BY DEF SharedChannelSyncAssumption
<1> QED  BY <1>1, <1>2 DEF newSyncTask, Task

LEMMA DelayedFacts ==
  ASSUME SharedChannelSyncAssumption, NEW r \in Remotes \cup {All}
  PROVE  /\ Delayed(r) \in Task /\ Delayed(r).id[2] = 0 /\ Delayed(r).post = 0
<1> DEFINE t == newSyncTask(r, 0, 0)
<1>1. t \in Task /\ t.id[2] = 0 /\ t.post = 0
  <2>1. 0 \in 0 .. MaxPosts /\ 0 \in 0 .. MaxRefused
    BY DEF SharedChannelSyncAssumption
  <2> QED  BY <2>1, NewTaskFacts
<1> HIDE DEF t
<1>2. [t EXCEPT !.ready = FALSE] \in Task /\ [t EXCEPT !.ready = FALSE].id = t.id
        /\ [t EXCEPT !.ready = FALSE].post = t.post
  BY <1>1 DEF Task
<1>3. Delayed(r) = [t EXCEPT !.ready = FALSE]
  BY DEF Delayed, t
<1> QED  BY <1>1, <1>2, <1>3

LEMMA RetriedFacts ==
  ASSUME SharedChannelSyncAssumption, NEW t \in Task, t.retries < MaxRetries
  PROVE  /\ Retried(t) \in Task /\ Retried(t).id = t.id /\ Retried(t).post = t.post
         /\ Retried(t).remote = t.remote
<1>1. t.retries + 1 \in 0 .. MaxRetries
  BY TaskFacts DEF SharedChannelSyncAssumption
<1> QED  BY <1>1 DEF Retried, Task

LEMMA AddFacts ==
  ASSUME NEW ts \in Seq(Task), UniqueIds(ts), NEW t \in Task
  PROVE  /\ Add(ts, t) \in Seq(Task) /\ UniqueIds(Add(ts, t))
         /\ Elems(ts) \subseteq Elems(Add(ts, t))
         /\ Elems(Add(ts, t)) \subseteq Elems(ts) \cup {t}
         /\ \E u \in Elems(Add(ts, t)) : u.id = t.id
<1>1. CASE \E i \in DOMAIN ts : ts[i].id = t.id
  <2>1. Add(ts, t) = ts
    BY <1>1 DEF Add
  <2> QED  BY <1>1, <2>1 DEF Elems
<1>2. CASE ~\E i \in DOMAIN ts : ts[i].id = t.id
  <2> DEFINE us == Add(ts, t)
  <2>1. us = Append(ts, t)
    BY <1>2 DEF Add
  <2>2. /\ us \in Seq(Task) /\ DOMAIN us = 1 .. Len(ts) + 1 /\ DOMAIN ts = 1 .. Len(ts)
        /\ us[Len(ts) + 1] = t /\ Len(ts) \in Nat
        /\ \A i \in 1 .. Len(ts) : us[i] = ts[i]
    BY <2>1
  <2> HIDE DEF us
  <2>3. UniqueIds(us)
    BY <1>2, <2>2 DEF UniqueIds
  <2>4. Elems(us) = Elems(ts) \cup {t}
    BY <2>2 DEF Elems
  <2> QED  BY <2>2, <2>3, <2>4 DEF us
<1> QED  BY <1>1, <1>2

LEMMA RetryFacts ==
  ASSUME SharedChannelSyncAssumption, NEW ts \in Seq(Task), UniqueIds(ts), NEW t \in Task
  PROVE  /\ Retry(ts, t) \in Seq(Task) /\ UniqueIds(Retry(ts, t))
         /\ Elems(ts) \subseteq Elems(Retry(ts, t))
         /\ \A u \in Elems(Retry(ts, t)) :
              \/ u \in Elems(ts)
              \/ u \in Task /\ u.id = t.id /\ u.post = t.post /\ u.remote = t.remote
         /\ t.retries < MaxRetries => \E u \in Elems(Retry(ts, t)) : u.id = t.id
<1>1. CASE t.retries < MaxRetries
  <2>1. Retry(ts, t) = Add(ts, Retried(t))
    BY <1>1 DEF Retry
  <2>2. /\ Retried(t) \in Task /\ Retried(t).id = t.id /\ Retried(t).post = t.post
        /\ Retried(t).remote = t.remote
    BY <1>1, RetriedFacts
  <2>3. /\ Add(ts, Retried(t)) \in Seq(Task) /\ UniqueIds(Add(ts, Retried(t)))
        /\ Elems(ts) \subseteq Elems(Add(ts, Retried(t)))
        /\ Elems(Add(ts, Retried(t))) \subseteq Elems(ts) \cup {Retried(t)}
        /\ \E u \in Elems(Add(ts, Retried(t))) : u.id = Retried(t).id
    BY <2>2, AddFacts
  <2> QED  BY <2>1, <2>2, <2>3
<1>2. CASE ~(t.retries < MaxRetries)
  BY <1>2 DEF Retry
<1> QED  BY <1>1, <1>2

LEMMA RestFacts ==
  ASSUME tasks \in Seq(Task), UniqueIds(tasks), NEW i \in DOMAIN tasks
  PROVE  /\ Rest(i) \in Seq(Task) /\ UniqueIds(Rest(i))
         /\ Elems(Rest(i)) \subseteq Elems(tasks)
         /\ Elems(tasks) \subseteq Elems(Rest(i)) \cup {tasks[i]}
<1> DEFINE N == Len(tasks)
           us == Rest(i)
<1>1. N \in Nat /\ DOMAIN tasks = 1 .. N /\ i \in 1 .. N /\ N - 1 \in Nat
      /\ \A j \in 1 .. N : tasks[j] \in Task
  OBVIOUS
<1>2. us = [j \in 1 .. N - 1 |-> IF j < i THEN tasks[j] ELSE tasks[j + 1]]
  BY DEF Rest
<1> HIDE DEF N, us
<1>3. us \in [1 .. N - 1 -> Task]
  BY <1>1, <1>2
<1>4. us \in Seq(Task) /\ DOMAIN us = 1 .. N - 1
  BY <1>1, <1>3
<1>5. \A j \in 1 .. N - 1 : us[j] = IF j < i THEN tasks[j] ELSE tasks[j + 1]
  BY <1>2
<1>6. UniqueIds(us)
  <2>1. SUFFICES ASSUME NEW j \in 1 .. N - 1, NEW k \in 1 .. N - 1, us[j].id = us[k].id
                 PROVE  j = k
    BY <1>4 DEF UniqueIds
  <2> DEFINE a == IF j < i THEN j ELSE j + 1
             b == IF k < i THEN k ELSE k + 1
  <2>2. us[j] = tasks[a] /\ us[k] = tasks[b] /\ a \in 1 .. N /\ b \in 1 .. N
    BY <1>1, <1>5
  <2>3. a = b
    BY <1>1, <2>1, <2>2 DEF UniqueIds
  <2> QED  BY <1>1, <2>3
<1>7. Elems(us) \subseteq Elems(tasks)
  <2>1. ASSUME NEW j \in 1 .. N - 1 PROVE \E k \in 1 .. N : us[j] = tasks[k]
    <3>1. CASE j < i
      <4>1. j \in 1 .. N /\ us[j] = tasks[j]
        BY <1>1, <1>5, <3>1
      <4> QED  BY <4>1
    <3>2. CASE ~(j < i)
      <4>1. j + 1 \in 1 .. N /\ us[j] = tasks[j + 1]
        BY <1>1, <1>5, <3>2
      <4> QED  BY <4>1
    <3> QED  BY <3>1, <3>2
  <2> QED  BY <1>1, <1>4, <2>1 DEF Elems
<1>8. Elems(tasks) \subseteq Elems(us) \cup {tasks[i]}
  <2>1. ASSUME NEW k \in 1 .. N, k # i PROVE \E j \in 1 .. N - 1 : us[j] = tasks[k]
    <3>1. CASE k < i
      <4>1. k \in 1 .. N - 1 /\ us[k] = tasks[k]
        BY <1>1, <1>5, <3>1
      <4> QED  BY <4>1
    <3>2. CASE ~(k < i)
      <4>1. k - 1 \in 1 .. N - 1 /\ ~(k - 1 < i) /\ (k - 1) + 1 = k
        BY <1>1, <2>1, <3>2
      <4>2. us[k - 1] = tasks[k]
        BY <1>5, <4>1
      <4> QED  BY <4>1, <4>2
    <3> QED  BY <3>1, <3>2
  <2> QED  BY <1>1, <1>4, <2>1 DEF Elems
<1> QED  BY <1>4, <1>6, <1>7, <1>8 DEF us

(* handlePostError: a retry of each post, with an id of its own. *)
LEMMA NewRetriesFacts ==
  ASSUME SharedChannelSyncAssumption, NEW r \in Remotes, NEW E \in SUBSET (1 .. MaxPosts),
         used["refused"] \in Nat, used["refused"] + Cardinality(E) <= MaxRefused
  PROVE  /\ NewRetries(r, E) \in Seq(Task) /\ Len(NewRetries(r, E)) = Cardinality(E)
         /\ \A i \in 1 .. Cardinality(E) :
              /\ NewRetries(r, E)[i].id[2] = used["refused"] + i
              /\ NewRetries(r, E)[i].id[1] = r /\ NewRetries(r, E)[i].remote = r
              /\ NewRetries(r, E)[i].post \in E
         /\ \A p \in E : \E i \in 1 .. Cardinality(E) : NewRetries(r, E)[i].post = p
<1> DEFINE K == Cardinality(E)
           c(i) == CHOOSE p \in E : Cardinality({q \in E : q <= p}) = i
           us == NewRetries(r, E)
<1>1. MaxPosts \in Nat /\ MaxRefused \in Nat
  BY DEF SharedChannelSyncAssumption
<1>2. K \in Nat
  BY <1>1, FiniteNumbers
<1>3. /\ \A p \in E : Place(E, p) \in 1 .. K
      /\ \A p, q \in E : Place(E, p) = Place(E, q) => p = q
      /\ \A i \in 1 .. K : \E p \in E : Place(E, p) = i
  BY <1>1, Places
<1>4. \A i \in 1 .. K : c(i) \in E /\ Place(E, c(i)) = i
  BY <1>3 DEF Place
<1>5. us = [i \in 1 .. K |-> newSyncTask(r, c(i), used["refused"] + i)]
  BY DEF NewRetries
<1> HIDE DEF c, K, us
<1>6. ASSUME NEW i \in 1 .. K
      PROVE  /\ us[i] \in Task /\ us[i].id[2] = used["refused"] + i /\ us[i].id[1] = r
             /\ us[i].remote = r /\ us[i].post = c(i)
  <2>1. c(i) \in 0 .. MaxPosts
    <3>1. c(i) \in E
      BY <1>4
    <3>2. \A p \in E : p \in 0 .. MaxPosts
      BY <1>1
    <3> QED  BY <3>1, <3>2
  <2>2. used["refused"] + i \in 0 .. MaxRefused
    BY <1>1, <1>2 DEF K
  <2>3. us[i] = newSyncTask(r, c(i), used["refused"] + i)
    BY <1>5
  <2> QED  BY <2>1, <2>2, <2>3, NewTaskFacts
<1>7. us \in [1 .. K -> Task]
  BY <1>5, <1>6
<1>8. us \in Seq(Task) /\ Len(us) = K
  BY <1>2, <1>7
<1>9. ASSUME NEW p \in E PROVE \E i \in 1 .. K : us[i].post = p
  <2>1. Place(E, p) \in 1 .. K
    BY <1>3
  <2>2. c(Place(E, p)) = p
    BY <1>3, <1>4, <2>1
  <2> QED  BY <1>6, <2>1, <2>2
<1> QED  BY <1>4, <1>6, <1>8, <1>9 DEF us, K
-----------------------------------------------------------------------------

(* What a step may do to the parts of the invariant. *)

LEMMA SavedFacts ==
  ASSUME SharedChannelSyncAssumption, SyncPosts
  PROVE  /\ Saved \subseteq 1 .. MaxPosts /\ DOMAIN post = 1 .. Len(post)
         /\ Saved \subseteq DOMAIN post
  BY DEF SharedChannelSyncAssumption, SyncPosts, Saved

(* t is a task that is in use, but for its time, its retries and, if it     *)
(* repeats no post, its remote; or a task that repeats no post.             *)
Kept(t) ==
  /\ t \in Task
  /\ \/ \E u \in InUse : /\ t.id = u.id /\ t.post = u.post
                         /\ t.post # 0 => t.remote = u.remote
     \/ t.post = 0 /\ t.id[2] = 0

LEMMA KeptInUse ==
  ASSUME SyncTasks
  PROVE  \A u \in InUse : Kept(u)
  BY DEF SyncTasks, Kept, GoodTask

LEMMA InUseFacts ==
  /\ \A i \in DOMAIN tasks : tasks[i] \in InUse
  /\ \A t \in Elems(tasks) : t \in InUse
  /\ \A n \in Terms : loop[n].task \in InUse
  BY DEF InUse, Elems, Hands

(* t is the first retry of a post that has just been refused. *)
SyncFresh(t) ==
  /\ t \in Task /\ t.post \in Saved \ {0} /\ t.remote = t.id[1] /\ t.remote # All
  /\ used["refused"] < t.id[2] /\ t.id[2] <= used'["refused"]

LEMMA TasksStepFresh ==
  ASSUME SyncTasks, Saved \subseteq Saved', used["refused"] \in Nat,
         used'["refused"] \in Nat, used["refused"] <= used'["refused"],
         tasks' \in Seq(Task), UniqueIds(tasks'),
         \A t \in Elems(tasks') : Kept(t) \/ SyncFresh(t), \A n \in Terms : Kept(loop'[n].task)
  PROVE  SyncTasks'
<1>1. \A t \in InUse' : Kept(t) \/ (SyncFresh(t) /\ t \in Elems(tasks'))
  BY DEF InUse, Hands
<1>2. \A t \in Task : t.id[2] \in Nat
  BY TaskFacts
<1>3. ASSUME NEW t, Kept(t)
      PROVE  GoodTask(t, Saved', used'["refused"]) /\ t.id[2] <= used["refused"]
  <2>1. CASE t.post = 0 /\ t.id[2] = 0
    BY <1>2, <1>3, <2>1 DEF Kept, GoodTask
  <2>2. ASSUME NEW u \in InUse, t.id = u.id, t.post = u.post,
               t.post # 0 => t.remote = u.remote
        PROVE  GoodTask(t, Saved', used'["refused"]) /\ t.id[2] <= used["refused"]
    <3>1. GoodTask(u, Saved, used["refused"]) /\ t \in Task
      BY <1>3, <2>2 DEF SyncTasks, Kept
    <3>2. t.id[2] <= used'["refused"] /\ t.id[2] <= used["refused"]
      BY <1>2, <2>2, <3>1 DEF GoodTask
    <3> QED  BY <2>2, <3>1, <3>2 DEF GoodTask
  <2> QED  BY <1>3, <2>1, <2>2 DEF Kept
<1>4. ASSUME NEW t, NEW u, Kept(t), Kept(u), t.id = u.id PROVE t.post = u.post
  <2>1. \A v \in InUse : v.post = 0 <=> v.id[2] = 0
    BY DEF SyncTasks, GoodTask
  <2>2. \/ t.post = 0 /\ t.id[2] = 0
        \/ \E v \in InUse : t.id = v.id /\ t.post = v.post
    BY <1>4 DEF Kept
  <2>3. \/ u.post = 0 /\ u.id[2] = 0
        \/ \E v \in InUse : u.id = v.id /\ u.post = v.post
    BY <1>4 DEF Kept
  <2> QED  BY <1>4, <2>1, <2>2, <2>3 DEF SyncTasks, Coherent
<1>5. ASSUME NEW t, SyncFresh(t) PROVE GoodTask(t, Saved', used'["refused"])
  BY <1>2, <1>5 DEF SyncFresh, GoodTask
<1>6. ASSUME NEW t, NEW u, Kept(t), SyncFresh(u) PROVE t.id # u.id
  <2>1. t \in Task /\ u \in Task /\ t.id[2] <= used["refused"] /\ used["refused"] < u.id[2]
    BY <1>3, <1>6 DEF Kept, SyncFresh
  <2> QED  BY <1>2, <2>1
<1>7. ASSUME NEW t \in Elems(tasks'), NEW u \in Elems(tasks'), t.id = u.id PROVE t = u
  BY <1>7 DEF Elems, UniqueIds
<1>8. \A t \in InUse' : GoodTask(t, Saved', used'["refused"])
  BY <1>1, <1>3, <1>5
<1>9. Coherent(InUse')
  BY <1>1, <1>4, <1>6, <1>7 DEF Coherent
<1> QED  BY <1>8, <1>9 DEF SyncTasks

LEMMA TasksStep ==
  ASSUME SyncTasks, Saved \subseteq Saved', used["refused"] \in Nat,
         used'["refused"] \in Nat, used["refused"] <= used'["refused"],
         tasks' \in Seq(Task), UniqueIds(tasks'),
         \A t \in Elems(tasks') : Kept(t), \A n \in Terms : Kept(loop'[n].task)
  PROVE  SyncTasks'
<1>1. \A t \in Elems(tasks') : Kept(t) \/ SyncFresh(t)
  OBVIOUS
<1> QED  BY <1>1, TasksStepFresh

(* A step that leaves the tasks alone. *)
LEMMA TasksStay ==
  ASSUME SyncTasks, Saved \subseteq Saved', used["refused"] \in Nat,
         used'["refused"] \in Nat, used["refused"] <= used'["refused"],
         UNCHANGED tasks, \A n \in Terms : loop'[n].task = loop[n].task
  PROVE  SyncTasks'
<1>1. /\ \A t \in Elems(tasks') : Kept(t)
      /\ \A n \in Terms : Kept(loop'[n].task)
  BY KeptInUse, InUseFacts
<1>2. tasks' \in Seq(Task) /\ UniqueIds(tasks')
  BY DEF SyncTasks
<1> QED  BY <1>1, <1>2, TasksStep

LEMMA LoopGrows ==
  ASSUME NEW l, NEW n \in Nat, NEW P, NEW Q, NEW s \in Nat, NEW u \in Nat,
         P \subseteq Q, s <= u, LoopGood(l, n, P, s)
  PROVE  LoopGood(l, n, Q, u)
  BY DEF LoopGood

LEMMA TermFacts ==
  ASSUME SharedChannelSyncAssumption, NEW n \in Terms
  PROVE  n \in Nat \ {0}
  BY DEF SharedChannelSyncAssumption, Terms

(* Goroutine n is now as l says. *)
LEMMA LoopsStep ==
  ASSUME SharedChannelSyncAssumption, SyncLoops, Saved \subseteq Saved',
         resumes \in Nat, resumes' \in Nat, resumes <= resumes',
         NEW n \in Terms, NEW l, LoopGood(l, n, Saved', resumes'),
         loop' = [loop EXCEPT ![n] = l]
  PROVE  /\ SyncLoops' /\ loop'[n] = l
         /\ \A m \in Terms \ {n} : loop'[m] = loop[m]
<1>1. /\ loop' \in [Terms -> Loop] /\ loop'[n] = l
      /\ \A m \in Terms \ {n} : loop'[m] = loop[m]
  BY DEF SyncLoops, LoopGood
<1>2. \A m \in Terms \ {n} : LoopGood(loop'[m], m, Saved', resumes')
  BY <1>1, LoopGrows, TermFacts DEF SyncLoops
<1> QED  BY <1>1, <1>2 DEF SyncLoops

LEMMA LoopsStay ==
  ASSUME SharedChannelSyncAssumption, SyncLoops, Saved \subseteq Saved',
         resumes \in Nat, UNCHANGED <<resumes, loop>>
  PROVE  SyncLoops'
<1>1. \A m \in Terms : LoopGood(loop[m], m, Saved', resumes)
  BY LoopGrows, TermFacts DEF SyncLoops
<1> QED  BY <1>1 DEF SyncLoops

LEMMA BoundFacts ==
  ASSUME SharedChannelSyncAssumption
  PROVE  /\ \A f \in Faults : Bound(f) \in Nat
         /\ Bound("refused") = MaxRefused /\ Bound("pause") = MaxResumes - 1
         /\ Bound("store") = MaxStoreFaults
  BY DEF SharedChannelSyncAssumption, Faults, Bound

LEMMA FaultFacts ==
  ASSUME SharedChannelSyncAssumption, SyncCounts, NEW f \in Faults, NEW k \in Nat,
         SyncFault(f, k)
  PROVE  /\ used' \in [Faults -> Nat] /\ \A g \in Faults : used'[g] <= Bound(g)
         /\ used'[f] = used[f] + k /\ \A g \in Faults \ {f} : used'[g] = used[g]
         /\ \A g \in Faults : used[g] \in Nat /\ used[g] <= used'[g]
<1>1. used \in [Faults -> Nat] /\ \A g \in Faults : used[g] <= Bound(g)
  BY DEF SyncCounts
<1>2. used' = [used EXCEPT ![f] = @ + k] /\ used[f] + k <= Bound(f)
  BY DEF SyncFault
<1> QED  BY <1>1, <1>2

LEMMA KindFacts ==
  /\ "refused" \in Faults /\ "pause" \in Faults /\ "store" \in Faults
  /\ "lost" \in Faults /\ "full" \in Faults /\ "offline" \in Faults
  BY DEF Faults

LEMMA CountsFacts ==
  ASSUME SharedChannelSyncAssumption, SyncCounts
  PROVE  /\ resumes \in Nat \ {0} /\ resumes \in Terms
         /\ \A f \in Faults : used[f] \in Nat
  BY TermFacts DEF SyncCounts

(* Faults but a pause. *)
LEMMA CountsStep ==
  ASSUME SyncCounts, UNCHANGED <<active, resumes>>, signal' \in BOOLEAN,
         used' \in [Faults -> Nat], \A g \in Faults : used'[g] <= Bound(g),
         used'["pause"] = used["pause"]
  PROVE  SyncCounts'
  BY DEF SyncCounts

LEMMA PostsStay ==
  ASSUME SyncPosts, UNCHANGED <<post, unsaid, cursor, online, got, gaveUp>>
  PROVE  SyncPosts' /\ Saved' = Saved
  BY DEF SyncPosts, Saved
-----------------------------------------------------------------------------

(* Posts and remotes. *)

LEMMA PreSaveInv ==
  ASSUME SharedChannelSyncAssumption, SyncInv, PreSave
  PROVE  SyncInv' /\ Saved' = Saved
<1>1. /\ SyncPosts /\ SyncCounts /\ SyncTasks /\ SyncLoops /\ Len(post) < MaxPosts
      /\ UNCHANGED <<unsaid, cursor, online, got, gaveUp, tasks, signal, loop, active,
                     resumes, used>>
  BY DEF SyncInv, PreSave
<1>2. PICK from \in Remotes \cup {Local} :
        post' = Append(post, [from |-> from, saved |-> FALSE])
  BY DEF PreSave
<1> DEFINE x == [from |-> from, saved |-> FALSE]
<1>3. x \in PostRec /\ x.saved = FALSE
  BY DEF PostRec
<1>4. /\ post' = Append(post, x) /\ post \in Seq(PostRec) /\ Len(post) \in Nat
  BY <1>1, <1>2 DEF SyncPosts
<1> HIDE DEF x
<1>5. /\ post' \in Seq(PostRec) /\ Len(post') = Len(post) + 1
      /\ DOMAIN post = 1 .. Len(post) /\ DOMAIN post' = 1 .. Len(post) + 1
      /\ \A i \in 1 .. Len(post) : post'[i] = post[i]
      /\ post'[Len(post) + 1] = x
  BY <1>3, <1>4
<1>6. Saved' = Saved
  BY <1>3, <1>4, <1>5 DEF Saved
<1>7. SyncPosts'
  BY <1>1, <1>4, <1>5, <1>6 DEF SyncPosts, SharedChannelSyncAssumption
<1>8. SyncCounts'
  BY <1>1 DEF SyncCounts
<1>9. SyncTasks' /\ SyncLoops'
  BY <1>1, <1>6, CountsFacts, KindFacts, TasksStay, LoopsStay
<1> QED  BY <1>6, <1>7, <1>8, <1>9 DEF SyncInv

LEMMA SavePostInv ==
  ASSUME SharedChannelSyncAssumption, SyncInv, NEW p, SavePost(p)
  PROVE  /\ SyncInv' /\ Saved' = Saved \cup {p} /\ p \in DOMAIN post \ Saved
         /\ \A q \in DOMAIN post : post'[q].from = post[q].from
<1>1. /\ SyncPosts /\ SyncCounts /\ SyncTasks /\ SyncLoops /\ p \in DOMAIN post \ Saved
      /\ post' = [post EXCEPT ![p].saved = TRUE] /\ unsaid' = unsaid \cup {p}
      /\ UNCHANGED <<cursor, online, got, gaveUp, tasks, signal, loop, active, resumes,
                     used>>
  BY DEF SyncInv, SavePost
<1>2. post \in Seq(PostRec) /\ DOMAIN post = 1 .. Len(post)
  BY <1>1 DEF SyncPosts
<1> DEFINE x == [post[p] EXCEPT !.saved = TRUE]
<1>0. post[p] \in PostRec /\ post' = [post EXCEPT ![p] = x]
  BY <1>1, <1>2
<1>8. x \in PostRec /\ x.from = post[p].from
  BY <1>0 DEF PostRec
<1>9. x.saved = TRUE
  BY <1>0 DEF PostRec
<1> HIDE DEF x
<1>3. /\ post' \in Seq(PostRec) /\ Len(post') = Len(post) /\ DOMAIN post' = DOMAIN post
      /\ \A q \in DOMAIN post \ {p} : post'[q] = post[q]
      /\ post'[p] = x
  BY <1>0, <1>1, <1>2, <1>8
<1>10. \A q \in DOMAIN post : post'[q].from = post[q].from
  BY <1>3, <1>8
<1>4. Saved' = Saved \cup {p}
  BY <1>1, <1>3, <1>9 DEF Saved
<1>5. SyncPosts'
  BY <1>1, <1>3, <1>4 DEF SyncPosts
<1>6. SyncCounts'
  BY <1>1 DEF SyncCounts
<1>7. SyncTasks' /\ SyncLoops'
  BY <1>1, <1>4, CountsFacts, KindFacts, TasksStay, LoopsStay
<1> QED  BY <1>1, <1>4, <1>5, <1>6, <1>7, <1>10 DEF SyncInv

(* A task is added that repeats no post. *)
LEMMA AddZero ==
  ASSUME SharedChannelSyncAssumption, SyncTasks, SyncCounts, NEW t \in Task, t.post = 0,
         t.id[2] = 0, tasks' = Add(tasks, t), Saved' = Saved, UNCHANGED used,
         \A n \in Terms : loop'[n].task = loop[n].task
  PROVE  SyncTasks' /\ Elems(tasks) \subseteq Elems(tasks')
<1>1. tasks \in Seq(Task) /\ UniqueIds(tasks)
  BY DEF SyncTasks
<1>2. /\ tasks' \in Seq(Task) /\ UniqueIds(tasks')
      /\ Elems(tasks') \subseteq Elems(tasks) \cup {t} /\ Elems(tasks) \subseteq Elems(tasks')
  BY <1>1, AddFacts
<1>3. Kept(t)
  BY DEF Kept
<1>4. \A u \in Elems(tasks') : Kept(u)
  BY <1>2, <1>3, KeptInUse, InUseFacts
<1>5. \A n \in Terms : Kept(loop'[n].task)
  BY KeptInUse, InUseFacts
<1>6. used["refused"] \in Nat /\ used'["refused"] \in Nat /\ used["refused"] <= used'["refused"]
  BY CountsFacts, KindFacts
<1> QED  BY <1>2, <1>4, <1>5, <1>6, TasksStep

LEMMA NotifyChannelChangedInv ==
  ASSUME SharedChannelSyncAssumption, SyncInv, NEW p, NotifyChannelChanged(p)
  PROVE  SyncInv' /\ Elems(tasks) \subseteq Elems(tasks')
<1>1. /\ SyncPosts /\ SyncCounts /\ SyncTasks /\ SyncLoops /\ unsaid' = unsaid \ {p}
      /\ UNCHANGED <<post, cursor, online, got, gaveUp, loop, active, resumes, used>>
  BY DEF SyncInv, NotifyChannelChanged
<1>2. SyncPosts' /\ Saved' = Saved
  BY <1>1 DEF SyncPosts, Saved
<1>3. SyncLoops'
  BY <1>1, <1>2, CountsFacts, LoopsStay
<1>4. CASE active
  <2>1. tasks' = Add(tasks, Delayed(All)) /\ signal' = TRUE
    BY <1>4 DEF NotifyChannelChanged, addTask
  <2>2. SyncCounts'
    BY <1>1, <2>1 DEF SyncCounts
  <2>3. SyncTasks' /\ Elems(tasks) \subseteq Elems(tasks')
    BY <1>1, <1>2, <2>1, AddZero, DelayedFacts
  <2> QED  BY <1>2, <1>3, <2>2, <2>3 DEF SyncInv
<1>5. CASE ~active
  <2>1. UNCHANGED <<tasks, signal>>
    BY <1>5 DEF NotifyChannelChanged
  <2>2. SyncCounts' /\ SyncTasks'
    BY <1>1, <1>2, <2>1, CountsFacts, KindFacts, TasksStay DEF SyncCounts
  <2> QED  BY <1>2, <1>3, <2>1, <2>2 DEF SyncInv
<1> QED  BY <1>4, <1>5

LEMMA OfflineInv ==
  ASSUME SharedChannelSyncAssumption, SyncInv, NEW r \in Remotes, Offline(r)
  PROVE  SyncInv'
<1>1. /\ SyncPosts /\ SyncCounts /\ SyncTasks /\ SyncLoops /\ SyncFault("offline", 1)
      /\ online' = [online EXCEPT ![r] = FALSE]
      /\ UNCHANGED <<post, unsaid, cursor, got, gaveUp, tasks, signal, loop, active,
                     resumes>>
  BY DEF SyncInv, Offline
<1>2. SyncPosts' /\ Saved' = Saved
  BY <1>1 DEF SyncPosts, Saved
<1>3. /\ used' \in [Faults -> Nat] /\ \A g \in Faults : used'[g] <= Bound(g)
      /\ used'["pause"] = used["pause"] /\ used'["refused"] = used["refused"]
  BY <1>1, FaultFacts, KindFacts
<1>4. SyncCounts'
  BY <1>1, <1>3, CountsStep DEF SyncCounts
<1>5. SyncTasks' /\ SyncLoops'
  BY <1>1, <1>2, <1>3, CountsFacts, KindFacts, TasksStay, LoopsStay
<1> QED  BY <1>2, <1>4, <1>5 DEF SyncInv

LEMMA BackOnlineInv ==
  ASSUME SharedChannelSyncAssumption, SyncInv, NEW r \in Remotes, BackOnline(r)
  PROVE  SyncInv' /\ Elems(tasks) \subseteq Elems(tasks')
<1>1. /\ SyncPosts /\ SyncCounts /\ SyncTasks /\ SyncLoops
      /\ online' = [online EXCEPT ![r] = TRUE]
      /\ tasks' = Add(tasks, Delayed(r)) /\ signal' = TRUE
      /\ UNCHANGED <<post, unsaid, cursor, got, gaveUp, loop, active, resumes, used>>
  BY DEF SyncInv, BackOnline, addTask
<1>2. SyncPosts' /\ Saved' = Saved
  BY <1>1 DEF SyncPosts, Saved
<1>3. SyncCounts'
  BY <1>1 DEF SyncCounts
<1>4. SyncTasks' /\ Elems(tasks) \subseteq Elems(tasks')
  BY <1>1, <1>2, AddZero, DelayedFacts
<1>5. SyncLoops'
  BY <1>1, <1>2, CountsFacts, LoopsStay
<1> QED  BY <1>2, <1>3, <1>4, <1>5 DEF SyncInv

(* The time of task i has come: nothing else changes of it. *)
LEMMA MatureInv ==
  ASSUME SharedChannelSyncAssumption, SyncInv, NEW i, Mature(i)
  PROVE  /\ SyncInv' /\ DOMAIN tasks' = DOMAIN tasks
         /\ \A j \in DOMAIN tasks : /\ tasks'[j].post = tasks[j].post
                                    /\ tasks'[j].remote = tasks[j].remote
<1>1. /\ SyncPosts /\ SyncCounts /\ SyncTasks /\ SyncLoops /\ i \in DOMAIN tasks
      /\ tasks' = [tasks EXCEPT ![i].ready = TRUE] /\ tasks \in Seq(Task)
      /\ UNCHANGED <<post, unsaid, cursor, online, got, gaveUp, signal, loop, active,
                     resumes, used>>
  BY DEF SyncInv, Mature, SyncTasks
<1> DEFINE x == [tasks[i] EXCEPT !.ready = TRUE]
<1>0. tasks[i] \in Task /\ tasks' = [tasks EXCEPT ![i] = x]
  BY <1>1
<1>9. /\ x \in Task /\ x.post = tasks[i].post /\ x.remote = tasks[i].remote
      /\ x.id = tasks[i].id
  BY <1>0 DEF Task
<1> HIDE DEF x
<1>10. /\ tasks' \in Seq(Task) /\ DOMAIN tasks' = DOMAIN tasks /\ tasks'[i] = x
       /\ \A j \in DOMAIN tasks \ {i} : tasks'[j] = tasks[j] /\ tasks[j] \in Task
  BY <1>0, <1>1, <1>9
<1>2. /\ tasks' \in Seq(Task) /\ DOMAIN tasks' = DOMAIN tasks
      /\ \A j \in DOMAIN tasks : /\ tasks'[j].post = tasks[j].post /\ tasks'[j] \in Task
                                 /\ tasks'[j].remote = tasks[j].remote
                                 /\ tasks'[j].id = tasks[j].id
  BY <1>9, <1>10
<1>3. SyncPosts' /\ Saved' = Saved /\ SyncCounts'
  BY <1>1, PostsStay DEF SyncCounts
<1>4. UniqueIds(tasks')
  BY <1>1, <1>2 DEF SyncTasks, UniqueIds
<1>5. \A t \in Elems(tasks') : Kept(t)
  BY <1>2, InUseFacts DEF Kept, Elems
<1>6. \A n \in Terms : Kept(loop'[n].task)
  BY <1>1, KeptInUse, InUseFacts
<1>11. used["refused"] \in Nat /\ used'["refused"] \in Nat /\ used["refused"] <= used'["refused"]
  BY <1>1, CountsFacts, KindFacts
<1>7. SyncTasks'
  BY <1>1, <1>2, <1>3, <1>4, <1>5, <1>6, <1>11, TasksStep
<1>8. SyncLoops'
  BY <1>1, <1>3, CountsFacts, LoopsStay
<1> QED  BY <1>2, <1>3, <1>7, <1>8 DEF SyncInv
-----------------------------------------------------------------------------

(* The steps of goroutine n. *)

LEMMA LoopFacts ==
  ASSUME NEW l \in Loop
  PROVE  /\ l.pc \in {"none", "idle", "left", "pick", "next", "sending", "stuck"}
         /\ l.task \in Task /\ l.todo \subseteq Remotes
         /\ l.remote \in Remotes \cup {All} /\ l.posts \subseteq 1 .. MaxPosts
         /\ l.next \in 0 .. MaxPosts
  BY DEF Loop

LEMMA HandFacts ==
  ASSUME SyncTasks, SyncLoops, NEW n \in Terms
  PROVE  /\ loop[n] \in Loop /\ LoopGood(loop[n], n, Saved, resumes)
         /\ GoodTask(loop[n].task, Saved, used["refused"]) /\ Kept(loop[n].task)
  BY KeptInUse, InUseFacts DEF SyncTasks, SyncLoops

LEMMA WorkStep ==
  ASSUME SharedChannelSyncAssumption, SyncInv, NEW n \in Terms, NEW l,
         LoopGood(l, n, Saved, resumes), Kept(l.task), loop' = [loop EXCEPT ![n] = l],
         UNCHANGED <<post, unsaid, online, active, resumes>>, signal' \in BOOLEAN,
         cursor' \in [Remotes -> 0 .. MaxPosts],
         \A r \in Remotes : cursor'[r] \in Saved \cup {0},
         got' \in [Remotes -> SUBSET Saved], gaveUp' \in [Remotes -> SUBSET Saved],
         used' \in [Faults -> Nat], \A g \in Faults : used'[g] <= Bound(g),
         used'["pause"] = used["pause"], used["refused"] <= used'["refused"],
         tasks' \in Seq(Task), UniqueIds(tasks'),
         \A t \in Elems(tasks') : Kept(t) \/ SyncFresh(t)
  PROVE  /\ SyncInv' /\ Saved' = Saved /\ loop'[n] = l
         /\ \A m \in Terms \ {n} : loop'[m] = loop[m]
<1>1. SyncPosts /\ SyncCounts /\ SyncTasks /\ SyncLoops
  BY DEF SyncInv
<1>2. Saved' = Saved
  BY DEF Saved
<1>3. SyncPosts'
  BY <1>1, <1>2 DEF SyncPosts
<1>4. SyncCounts'
  BY <1>1, CountsStep
<1>5. resumes \in Nat /\ resumes' \in Nat /\ resumes <= resumes'
  BY <1>1, CountsFacts
<1>6. SyncLoops' /\ loop'[n] = l /\ \A m \in Terms \ {n} : loop'[m] = loop[m]
  BY <1>1, <1>2, <1>5, LoopsStep
<1>7. \A m \in Terms : Kept(loop'[m].task)
  BY <1>1, <1>6, HandFacts
<1>8. used["refused"] \in Nat /\ used'["refused"] \in Nat
  BY <1>1, CountsFacts, KindFacts
<1>9. SyncTasks'
  BY <1>1, <1>2, <1>7, <1>8, TasksStepFresh
<1> QED  BY <1>2, <1>3, <1>4, <1>6, <1>9 DEF SyncInv

(* Goroutine n moves, and nothing else but the signal changes. *)
LEMMA MoveStep ==
  ASSUME SharedChannelSyncAssumption, SyncInv, NEW n \in Terms, NEW l,
         LoopGood(l, n, Saved, resumes), Kept(l.task), loop' = [loop EXCEPT ![n] = l],
         UNCHANGED <<post, unsaid, cursor, online, got, gaveUp, tasks, active, resumes>>,
         signal' \in BOOLEAN,
         used' \in [Faults -> Nat], \A g \in Faults : used'[g] <= Bound(g),
         used'["pause"] = used["pause"], used["refused"] <= used'["refused"]
  PROVE  /\ SyncInv' /\ Saved' = Saved /\ loop'[n] = l
         /\ \A m \in Terms \ {n} : loop'[m] = loop[m]
<1>1. SyncPosts /\ SyncTasks
  BY DEF SyncInv
<1>2. /\ cursor' \in [Remotes -> 0 .. MaxPosts]
      /\ \A r \in Remotes : cursor'[r] \in Saved \cup {0}
      /\ got' \in [Remotes -> SUBSET Saved] /\ gaveUp' \in [Remotes -> SUBSET Saved]
  BY <1>1 DEF SyncPosts
<1>3. /\ tasks' \in Seq(Task) /\ UniqueIds(tasks')
      /\ \A t \in Elems(tasks') : Kept(t) \/ SyncFresh(t)
  BY <1>1, KeptInUse, InUseFacts DEF SyncTasks
<1> QED  BY <1>2, <1>3, WorkStep

(* No fault happens. *)
LEMMA SameCounts ==
  ASSUME SharedChannelSyncAssumption, SyncInv, UNCHANGED used
  PROVE  /\ used' \in [Faults -> Nat] /\ \A g \in Faults : used'[g] <= Bound(g)
         /\ used'["pause"] = used["pause"] /\ used["refused"] <= used'["refused"]
<1>1. used["refused"] \in Nat /\ SyncCounts
  BY CountsFacts, KindFacts DEF SyncInv
<1> QED  BY <1>1 DEF SyncCounts

LEMMA FaultCounts ==
  ASSUME SharedChannelSyncAssumption, SyncInv, NEW f \in Faults \ {"pause"},
         NEW k \in Nat, SyncFault(f, k)
  PROVE  /\ used' \in [Faults -> Nat] /\ \A g \in Faults : used'[g] <= Bound(g)
         /\ used'["pause"] = used["pause"] /\ used["refused"] <= used'["refused"]
  BY FaultFacts, KindFacts DEF SyncInv

LEMMA WakeInv ==
  ASSUME SharedChannelSyncAssumption, SyncInv, NEW n \in Terms, Wake(n)
  PROVE  /\ SyncInv' /\ Saved' = Saved /\ loop[n].todo = {} /\ loop[n].pc = "idle"
         /\ loop'[n].pc # "sending" /\ \A m \in Terms \ {n} : loop'[m] = loop[m]
<1>1. /\ loop[n].pc = "idle" /\ signal \in BOOLEAN /\ SyncTasks /\ SyncLoops
      /\ UNCHANGED <<post, unsaid, cursor, online, got, gaveUp, tasks, active, resumes,
                     used>>
  BY DEF Wake, SyncInv, SyncCounts
<1>2. loop[n] \in Loop /\ LoopGood(loop[n], n, Saved, resumes) /\ Kept(loop[n].task)
  BY <1>1, HandFacts
<1>3. loop[n].todo = {}
  BY <1>1, <1>2 DEF LoopGood
<1>4. CASE signal' = FALSE /\ loop' = [loop EXCEPT ![n].pc = "pick"]
  <2> DEFINE l == [loop[n] EXCEPT !.pc = "pick"]
  <2>1. LoopGood(l, n, Saved, resumes) /\ l.task = loop[n].task /\ l.pc = "pick"
    BY <1>1, <1>2 DEF LoopGood, Loop
  <2>2. loop' = [loop EXCEPT ![n] = l]
    BY <1>4
  <2> HIDE DEF l
  <2>3. /\ SyncInv' /\ Saved' = Saved /\ loop'[n] = l
        /\ \A m \in Terms \ {n} : loop'[m] = loop[m]
    BY <1>1, <1>2, <1>4, <2>1, <2>2, MoveStep, SameCounts
  <2> QED  BY <1>1, <1>3, <2>1, <2>3
<1>5. CASE /\ loop' = [loop EXCEPT ![n].pc = "pick", ![n].timer = FALSE]
           /\ UNCHANGED signal
  <2> DEFINE l == [loop[n] EXCEPT !.pc = "pick", !.timer = FALSE]
  <2>1. LoopGood(l, n, Saved, resumes) /\ l.task = loop[n].task /\ l.pc = "pick"
    BY <1>1, <1>2 DEF LoopGood, Loop
  <2>2. loop' = [loop EXCEPT ![n] = l]
    BY <1>1, <1>2, <1>5 DEF SyncLoops
  <2> HIDE DEF l
  <2>3. /\ SyncInv' /\ Saved' = Saved /\ loop'[n] = l
        /\ \A m \in Terms \ {n} : loop'[m] = loop[m]
    BY <1>1, <1>2, <1>5, <2>1, <2>2, MoveStep, SameCounts
  <2> QED  BY <1>1, <1>3, <2>1, <2>3
<1> QED  BY <1>1, <1>4, <1>5 DEF Wake

(* A goroutine that holds nothing. *)
Blank(x, b) == [NoLoop EXCEPT !.pc = x, !.timer = b]

LEMMA BlankFacts ==
  ASSUME SharedChannelSyncAssumption, NEW x \in {"none", "idle", "left", "pick"},
         NEW b \in BOOLEAN, NEW n, NEW P, NEW k, n > k => x = "none"
  PROVE  /\ LoopGood(Blank(x, b), n, P, k) /\ Kept(Blank(x, b).task)
         /\ Blank(x, b).pc = x /\ Blank(x, b).todo = {}
<1> DEFINE t == newSyncTask(All, 0, 0)
<1>1. t \in Task /\ t.post = 0 /\ t.id[2] = 0
  <2>1. 0 \in 0 .. MaxPosts /\ 0 \in 0 .. MaxRefused
    BY DEF SharedChannelSyncAssumption
  <2> QED  BY <2>1, NewTaskFacts
<1>2. NoLoop = [pc |-> "none", timer |-> FALSE, task |-> t, todo |-> {}, remote |-> All,
                posts |-> {}, next |-> 0, repeat |-> FALSE]
  BY DEF NoLoop
<1> HIDE DEF t
<1>3. 0 \in 0 .. MaxPosts /\ Cardinality({}) = 0 /\ 0 <= MaxPostsPerSync
  BY FS_EmptySet DEF SharedChannelSyncAssumption
<1>4. Blank(x, b) = [pc |-> x, timer |-> b, task |-> t, todo |-> {}, remote |-> All,
                     posts |-> {}, next |-> 0, repeat |-> FALSE]
  <2> DEFINE m == [NoLoop EXCEPT !.pc = x]
  <2>1. m = [pc |-> x, timer |-> FALSE, task |-> t, todo |-> {}, remote |-> All,
             posts |-> {}, next |-> 0, repeat |-> FALSE]
    <3>1. PICK f : f = FALSE
      OBVIOUS
    <3>2. NoLoop = [pc |-> "none", timer |-> f, task |-> t, todo |-> {}, remote |-> All,
                    posts |-> {}, next |-> 0, repeat |-> f]
      BY <1>2, <3>1
    <3>3. m = [pc |-> x, timer |-> f, task |-> t, todo |-> {}, remote |-> All,
               posts |-> {}, next |-> 0, repeat |-> f]
      BY <3>2
    <3> QED  BY <3>1, <3>3
  <2>2. Blank(x, b) = [m EXCEPT !.timer = b]
    BY <1>2 DEF Blank
  <2> HIDE DEF m
  <2> QED  BY <2>1, <2>2
<1>5. Blank(x, b) \in Loop
  BY <1>1, <1>3, <1>4 DEF Loop
<1>6. LoopGood(Blank(x, b), n, P, k)
  BY <1>1, <1>3, <1>4, <1>5 DEF LoopGood
<1>7. Kept(t)
  BY <1>1 DEF Kept
<1> QED  BY <1>4, <1>6, <1>7

LEMMA LeaveInv ==
  ASSUME SharedChannelSyncAssumption, SyncInv, NEW n \in Terms, Leave(n)
  PROVE  /\ SyncInv' /\ Saved' = Saved /\ loop[n].todo = {} /\ loop[n].pc = "idle"
         /\ loop'[n].pc # "sending" /\ \A m \in Terms \ {n} : loop'[m] = loop[m]
<1>1. /\ loop[n].pc = "idle" /\ signal \in BOOLEAN /\ SyncTasks /\ SyncLoops
      /\ loop' = [loop EXCEPT ![n] = [NoLoop EXCEPT !.pc = "left"]]
      /\ UNCHANGED <<post, unsaid, cursor, online, got, gaveUp, tasks, active, resumes,
                     used, signal>>
  BY DEF Leave, SyncInv, SyncCounts
<1>2. loop[n] \in Loop /\ LoopGood(loop[n], n, Saved, resumes)
  BY <1>1, HandFacts
<1>3. loop[n].todo = {} /\ ~(n > resumes)
  BY <1>1, <1>2 DEF LoopGood
<1> DEFINE l == Blank("left", FALSE)
<1>4. LoopGood(l, n, Saved, resumes) /\ Kept(l.task) /\ l.pc = "left"
  BY <1>3, BlankFacts
<1>5. loop' = [loop EXCEPT ![n] = l]
  <2>1. PICK f : f = FALSE
    OBVIOUS
  <2> DEFINE N == [pc |-> "none", timer |-> f, task |-> newSyncTask(All, 0, 0),
                   todo |-> {}, remote |-> All, posts |-> {}, next |-> 0, repeat |-> f]
  <2>2. NoLoop = N
    BY <2>1 DEF NoLoop
  <2> DEFINE m == [N EXCEPT !.pc = "left"]
  <2>5. m = [pc |-> "left", timer |-> f, task |-> newSyncTask(All, 0, 0),
             todo |-> {}, remote |-> All, posts |-> {}, next |-> 0, repeat |-> f]
    OBVIOUS
  <2>6. [N EXCEPT !.pc = "left", !.timer = f] = [m EXCEPT !.timer = f]
    OBVIOUS
  <2> HIDE DEF m
  <2>3. [N EXCEPT !.pc = "left", !.timer = f] = m
    BY <2>5, <2>6
  <2>4. l = [NoLoop EXCEPT !.pc = "left"]
    BY <2>1, <2>2, <2>3 DEF Blank, m
  <2> QED  BY <1>1, <2>4
<1> HIDE DEF l
<1>6. /\ SyncInv' /\ Saved' = Saved /\ loop'[n] = l
      /\ \A m \in Terms \ {n} : loop'[m] = loop[m]
  BY <1>1, <1>4, <1>5, MoveStep, SameCounts
<1> QED  BY <1>1, <1>3, <1>4, <1>6

LEMMA DoSyncEndsInv ==
  ASSUME SharedChannelSyncAssumption, SyncInv, NEW n \in Terms, DoSyncEnds(n)
  PROVE  /\ SyncInv' /\ Saved' = Saved /\ loop[n].todo = {} /\ loop[n].pc = "pick"
         /\ loop'[n].pc # "sending" /\ \A m \in Terms \ {n} : loop'[m] = loop[m]
<1> DEFINE b == loop[n].timer \/ tasks # <<>>
           l == [loop[n] EXCEPT !.pc = "idle", !.timer = b]
<1>0. b \in BOOLEAN
  OBVIOUS
<1>1. /\ loop[n].pc = "pick" /\ signal \in BOOLEAN /\ SyncTasks /\ SyncLoops
      /\ loop' = [loop EXCEPT ![n].pc = "idle", ![n].timer = b]
      /\ UNCHANGED <<post, unsaid, cursor, online, got, gaveUp, tasks, active, resumes,
                     used, signal>>
  <2>1. loop \in [Terms -> Loop]
    BY DEF SyncInv, SyncLoops
  <2>2. loop' = [loop EXCEPT ![n].pc = "idle", ![n].timer = @ \/ tasks # <<>>]
    BY DEF DoSyncEnds
  <2>3. [loop EXCEPT ![n].pc = "idle"][n].timer = loop[n].timer
    BY <2>1 DEF Loop
  <2> QED  BY <2>2, <2>3 DEF DoSyncEnds, SyncInv, SyncCounts
<1> HIDE DEF b
<1>2. loop[n] \in Loop /\ LoopGood(loop[n], n, Saved, resumes) /\ Kept(loop[n].task)
  BY <1>1, HandFacts
<1>3. loop[n].todo = {}
  BY <1>1, <1>2 DEF LoopGood
<1>4. LoopGood(l, n, Saved, resumes) /\ l.task = loop[n].task /\ l.pc = "idle"
  BY <1>0, <1>1, <1>2 DEF LoopGood, Loop
<1>5. loop' = [loop EXCEPT ![n] = l]
  BY <1>0, <1>1, <1>2 DEF SyncLoops
<1> HIDE DEF l
<1>6. /\ SyncInv' /\ Saved' = Saved /\ loop'[n] = l
      /\ \A m \in Terms \ {n} : loop'[m] = loop[m]
  BY <1>1, <1>2, <1>4, <1>5, MoveStep, SameCounts
<1> QED  BY <1>1, <1>3, <1>4, <1>6

LEMMA OldestFacts ==
  ASSUME SyncTasks, Ready # {}
  PROVE  Oldest \in DOMAIN tasks /\ tasks[Oldest] \in Task /\ tasks[Oldest] \in InUse
<1>1. tasks \in Seq(Task) /\ Ready \in SUBSET Nat /\ Ready \subseteq DOMAIN tasks
  BY DEF SyncTasks, Ready
<1>2. \E i \in Ready : \A j \in Ready : i <= j
  BY <1>1, Smallest
<1>3. Oldest \in Ready
  BY <1>2 DEF Oldest
<1> QED  BY <1>1, <1>3, InUseFacts

(* A retry of a task that is in use. *)
LEMMA RetryKept ==
  ASSUME SharedChannelSyncAssumption, SyncTasks, NEW ts \in Seq(Task), UniqueIds(ts),
         Elems(ts) \subseteq Elems(tasks), NEW t, Kept(t)
  PROVE  /\ Retry(ts, t) \in Seq(Task) /\ UniqueIds(Retry(ts, t))
         /\ \A u \in Elems(Retry(ts, t)) : Kept(u)
<1>1. t \in Task
  BY DEF Kept
<1>2. /\ Retry(ts, t) \in Seq(Task) /\ UniqueIds(Retry(ts, t))
      /\ \A u \in Elems(Retry(ts, t)) :
           \/ u \in Elems(ts)
           \/ u \in Task /\ u.id = t.id /\ u.post = t.post /\ u.remote = t.remote
  BY <1>1, RetryFacts
<1>3. ASSUME NEW u \in Task, u.id = t.id, u.post = t.post, u.remote = t.remote
      PROVE  Kept(u)
  BY <1>3 DEF Kept
<1> QED  BY <1>2, <1>3, KeptInUse, InUseFacts

LEMMA AddKept ==
  ASSUME SharedChannelSyncAssumption, SyncTasks, NEW r \in Remotes
  PROVE  LET us == Add(tasks, newSyncTask(r, 0, 0))
         IN  /\ us \in Seq(Task) /\ UniqueIds(us) /\ Elems(tasks) \subseteq Elems(us)
             /\ \A u \in Elems(us) : Kept(u)
<1> DEFINE t == newSyncTask(r, 0, 0)
<1>1. t \in Task /\ t.post = 0 /\ t.id[2] = 0
  <2>1. 0 \in 0 .. MaxPosts /\ 0 \in 0 .. MaxRefused
    BY DEF SharedChannelSyncAssumption
  <2> QED  BY <2>1, NewTaskFacts
<1> HIDE DEF t
<1>2. tasks \in Seq(Task) /\ UniqueIds(tasks)
  BY DEF SyncTasks
<1>3. /\ Add(tasks, t) \in Seq(Task) /\ UniqueIds(Add(tasks, t))
      /\ Elems(tasks) \subseteq Elems(Add(tasks, t))
      /\ Elems(Add(tasks, t)) \subseteq Elems(tasks) \cup {t}
  BY <1>1, <1>2, AddFacts
<1>4. Kept(t)
  BY <1>1 DEF Kept
<1>5. \A u \in Elems(Add(tasks, t)) : Kept(u)
  BY <1>3, <1>4, KeptInUse, InUseFacts
<1> QED  BY <1>3, <1>5 DEF t

LEMMA AbandonedFacts ==
  ASSUME SyncPosts, NEW t, t.post \in Saved \cup {0}, NEW rs
  PROVE  /\ Abandoned(t, rs) \in [Remotes -> SUBSET Saved]
         /\ \A r \in Remotes : gaveUp[r] \subseteq Abandoned(t, rs)[r]
         /\ \A r \in Remotes : t.post # 0 /\ t.retries = MaxRetries /\ r \in rs
                                 => t.post \in Abandoned(t, rs)[r]
  BY DEF SyncPosts, Abandoned

LEMMA ProcessTaskFailsInv ==
  ASSUME SharedChannelSyncAssumption, SyncInv, NEW n \in Terms, ProcessTaskFails(n)
  PROVE  SyncInv' /\ Saved' = Saved
<1> DEFINE t == tasks[Oldest]
<1>1. /\ SyncPosts /\ SyncCounts /\ SyncTasks /\ SyncLoops
      /\ tasks' = Retry(Rest(Oldest), t) /\ gaveUp' = Abandoned(t, {t.remote})
      /\ Ready # {} /\ (SyncFault("store", 1) \/ UNCHANGED used)
      /\ UNCHANGED <<post, unsaid, cursor, online, got, loop, active, resumes>>
  BY DEF SyncInv, ProcessTaskFails
<1>2. signal' \in BOOLEAN
  BY DEF ProcessTaskFails
<1>3. Oldest \in DOMAIN tasks /\ t \in Task /\ t \in InUse
  BY <1>1, OldestFacts
<1> HIDE DEF t
<1>4. /\ Rest(Oldest) \in Seq(Task) /\ UniqueIds(Rest(Oldest))
      /\ Elems(Rest(Oldest)) \subseteq Elems(tasks)
  BY <1>1, <1>3, RestFacts DEF SyncTasks
<1>5. Kept(t) /\ t.post \in Saved \cup {0}
  BY <1>1, <1>3, KeptInUse DEF SyncTasks, GoodTask
<1>6. tasks' \in Seq(Task) /\ UniqueIds(tasks') /\ \A u \in Elems(tasks') : Kept(u) \/ SyncFresh(u)
  BY <1>1, <1>4, <1>5, RetryKept
<1>7. /\ used' \in [Faults -> Nat] /\ \A g \in Faults : used'[g] <= Bound(g)
      /\ used'["pause"] = used["pause"] /\ used["refused"] <= used'["refused"]
  BY <1>1, SameCounts, FaultCounts, KindFacts
<1>8. /\ cursor' \in [Remotes -> 0 .. MaxPosts]
      /\ \A r \in Remotes : cursor'[r] \in Saved \cup {0}
      /\ got' \in [Remotes -> SUBSET Saved]
  BY <1>1 DEF SyncPosts
<1>9. gaveUp' \in [Remotes -> SUBSET Saved]
  BY <1>1, <1>5, AbandonedFacts
<1>10. LoopGood(loop[n], n, Saved, resumes) /\ Kept(loop[n].task)
  BY <1>1, HandFacts
<1>11. loop' = [loop EXCEPT ![n] = loop[n]]
  BY <1>1 DEF SyncLoops
<1> QED  BY <1>1, <1>2, <1>6, <1>7, <1>8, <1>9, <1>10, <1>11, WorkStep

LEMMA ProcessTaskInv ==
  ASSUME SharedChannelSyncAssumption, SyncInv, NEW n \in Terms, ProcessTask(n)
  PROVE  /\ SyncInv' /\ Saved' = Saved /\ loop[n].todo = {} /\ loop[n].pc = "pick"
         /\ loop'[n].pc = "next" /\ \A m \in Terms \ {n} : loop'[m] = loop[m]
         /\ tasks[Oldest].post # 0 =>
              loop'[n].task = tasks[Oldest] /\ loop'[n].todo = {tasks[Oldest].remote}
<1> DEFINE t == tasks[Oldest]
           rs == IF t.remote = All THEN Remotes ELSE {t.remote}
           l == [loop[n] EXCEPT !.pc = "next", !.task = t, !.todo = rs]
<1>1. /\ SyncPosts /\ SyncCounts /\ SyncTasks /\ SyncLoops /\ loop[n].pc = "pick"
      /\ tasks' = Rest(Oldest) /\ Ready # {}
      /\ loop' = [loop EXCEPT ![n].pc = "next", ![n].task = t, ![n].todo = rs]
      /\ UNCHANGED <<post, unsaid, cursor, online, got, gaveUp, signal, active, resumes,
                     used>>
  BY DEF SyncInv, ProcessTask
<1>2. signal' \in BOOLEAN
  BY <1>1 DEF SyncCounts
<1>3. Oldest \in DOMAIN tasks /\ t \in Task /\ t \in InUse
  BY <1>1, OldestFacts
<1>4. loop[n] \in Loop /\ LoopGood(loop[n], n, Saved, resumes)
  BY <1>1, HandFacts
<1>5. GoodTask(t, Saved, used["refused"]) /\ Kept(t)
  BY <1>1, <1>3, KeptInUse DEF SyncTasks
<1>6. rs \subseteq Remotes /\ (t.post # 0 => rs = {t.remote})
  BY <1>3, <1>5, TaskFacts DEF GoodTask
<1>7. loop' = [loop EXCEPT ![n] = l]
  BY <1>1, <1>4 DEF SyncLoops
<1> HIDE DEF t, rs
<1>8. /\ l \in Loop /\ l.task = t /\ l.todo = rs /\ l.pc = "next"
      /\ l.posts = loop[n].posts
  BY <1>3, <1>4, <1>6 DEF Loop
<1>9. LoopGood(l, n, Saved, resumes)
  BY <1>1, <1>4, <1>6, <1>8 DEF LoopGood
<1> HIDE DEF l
<1>10. /\ tasks' \in Seq(Task) /\ UniqueIds(tasks')
       /\ Elems(tasks') \subseteq Elems(tasks)
  BY <1>1, <1>3, RestFacts DEF SyncTasks
<1>11. \A u \in Elems(tasks') : Kept(u) \/ SyncFresh(u)
  BY <1>1, <1>10, KeptInUse, InUseFacts
<1>12. /\ cursor' \in [Remotes -> 0 .. MaxPosts]
       /\ \A r \in Remotes : cursor'[r] \in Saved \cup {0}
       /\ got' \in [Remotes -> SUBSET Saved] /\ gaveUp' \in [Remotes -> SUBSET Saved]
  BY <1>1 DEF SyncPosts
<1>13. /\ SyncInv' /\ Saved' = Saved /\ loop'[n] = l
       /\ \A m \in Terms \ {n} : loop'[m] = loop[m]
  BY <1>1, <1>2, <1>5, <1>7, <1>8, <1>9, <1>10, <1>11, <1>12, WorkStep, SameCounts
<1>14. loop[n].todo = {}
  BY <1>1, <1>4 DEF LoopGood
<1> QED  BY <1>1, <1>6, <1>8, <1>13, <1>14 DEF t

LEMMA ProcessTaskEndsInv ==
  ASSUME SharedChannelSyncAssumption, SyncInv, NEW n \in Terms, ProcessTaskEnds(n)
  PROVE  /\ SyncInv' /\ Saved' = Saved /\ loop[n].todo = {} /\ loop[n].pc = "next"
         /\ loop'[n].pc # "sending" /\ \A m \in Terms \ {n} : loop'[m] = loop[m]
<1> DEFINE l == Blank("pick", loop[n].timer)
<1>1. /\ loop[n].pc = "next" /\ signal \in BOOLEAN /\ SyncTasks /\ SyncLoops
      /\ loop[n].todo = {} /\ loop' = [loop EXCEPT ![n] = l]
      /\ UNCHANGED <<post, unsaid, cursor, online, got, gaveUp, tasks, active, resumes,
                     used, signal>>
  BY DEF ProcessTaskEnds, SyncInv, SyncCounts, Blank
<1>2. loop[n] \in Loop /\ LoopGood(loop[n], n, Saved, resumes)
  BY <1>1, HandFacts
<1>3. loop[n].timer \in BOOLEAN
  BY <1>2 DEF Loop
<1>4. ~(n > resumes)
  BY <1>1, <1>2 DEF LoopGood
<1>5. LoopGood(l, n, Saved, resumes) /\ Kept(l.task) /\ l.pc = "pick"
  BY <1>3, <1>4, BlankFacts
<1> HIDE DEF l
<1>6. /\ SyncInv' /\ Saved' = Saved /\ loop'[n] = l
      /\ \A m \in Terms \ {n} : loop'[m] = loop[m]
  BY <1>1, <1>5, MoveStep, SameCounts
<1> QED  BY <1>1, <1>5, <1>6
-----------------------------------------------------------------------------

(* syncForRemote. *)

LEMMA ForKept ==
  ASSUME SyncTasks, SyncLoops, NEW n \in Terms, NEW r \in Remotes,
         loop[n].task.post # 0 => r = loop[n].task.remote
  PROVE  /\ Kept(For(n, r)) /\ For(n, r).post = loop[n].task.post
         /\ For(n, r).id = loop[n].task.id /\ For(n, r).remote = r
         /\ For(n, r).retries = loop[n].task.retries
<1> DEFINE t == loop[n].task
           u == For(n, r)
<1>1. t \in Task /\ t \in InUse /\ Kept(t)
  BY HandFacts, InUseFacts DEF GoodTask
<1>2. u = [t EXCEPT !.remote = r]
  BY DEF For
<1> HIDE DEF t, u
<1>3. /\ u \in Task /\ u.post = t.post /\ u.id = t.id /\ u.remote = r
      /\ u.retries = t.retries
  BY <1>1, <1>2 DEF Task
<1>4. t.post # 0 => r = t.remote
  BY DEF t
<1>5. Kept(u)
  BY <1>1, <1>3, <1>4 DEF Kept
<1> QED  BY <1>3, <1>5 DEF t, u

(* What is to be done shrinks. *)
LEMMA TodoShrinks ==
  ASSUME NEW l, NEW n, NEW P, NEW k, LoopGood(l, n, P, k), NEW r
  PROVE  /\ LoopGood([l EXCEPT !.todo = @ \ {r}], n, P, k)
         /\ [l EXCEPT !.todo = @ \ {r}].task = l.task
         /\ [l EXCEPT !.todo = @ \ {r}].pc = l.pc
<1>1. l \in Loop
  BY DEF LoopGood
<1> DEFINE m == [l EXCEPT !.todo = @ \ {r}]
<1>2. /\ m \in Loop /\ m.task = l.task /\ m.pc = l.pc /\ m.todo = l.todo \ {r}
      /\ m.posts = l.posts /\ m.remote = l.remote /\ m.next = l.next
  BY <1>1 DEF Loop
<1> HIDE DEF m
<1>3. LoopGood(m, n, P, k)
  BY <1>2 DEF LoopGood
<1> QED  BY <1>2, <1>3 DEF m

LEMMA SyncForRemoteFailsInv ==
  ASSUME SharedChannelSyncAssumption, SyncInv, NEW n \in Terms, NEW r \in Remotes,
         SyncForRemoteFails(n, r)
  PROVE  /\ SyncInv' /\ Saved' = Saved /\ \A m \in Terms \ {n} : loop'[m] = loop[m]
         /\ loop'[n].pc = "next"
<1> DEFINE t == For(n, r)
           l == [loop[n] EXCEPT !.todo = @ \ {r}]
<1>1. /\ SyncPosts /\ SyncCounts /\ SyncTasks /\ SyncLoops
      /\ tasks' = Retry(tasks, t) /\ gaveUp' = Abandoned(loop[n].task, {r})
      /\ loop' = [loop EXCEPT ![n] = l] /\ r \in loop[n].todo
      /\ loop[n].pc = "next" /\ SyncFault("store", 1)
      /\ UNCHANGED <<post, unsaid, cursor, online, got, active, resumes>>
  BY DEF SyncInv, SyncForRemoteFails
<1>2. signal' \in BOOLEAN
  BY DEF SyncForRemoteFails
<1>3. /\ LoopGood(loop[n], n, Saved, resumes) /\ Kept(loop[n].task)
      /\ GoodTask(loop[n].task, Saved, used["refused"])
  BY <1>1, HandFacts
<1>4. Kept(t)
  <2>1. loop[n].task.post # 0 => r = loop[n].task.remote
    BY <1>1, <1>3 DEF LoopGood
  <2> QED  BY <1>1, <2>1, ForKept
<1>5. LoopGood(l, n, Saved, resumes) /\ Kept(l.task) /\ l.pc = "next"
  BY <1>1, <1>3, TodoShrinks
<1> HIDE DEF t, l
<1>6. tasks' \in Seq(Task) /\ UniqueIds(tasks') /\ \A u \in Elems(tasks') : Kept(u) \/ SyncFresh(u)
  <2>1. tasks \in Seq(Task) /\ UniqueIds(tasks) /\ Elems(tasks) \subseteq Elems(tasks)
    BY <1>1 DEF SyncTasks
  <2> QED  BY <1>1, <1>4, <2>1, RetryKept
<1>7. /\ used' \in [Faults -> Nat] /\ \A g \in Faults : used'[g] <= Bound(g)
      /\ used'["pause"] = used["pause"] /\ used["refused"] <= used'["refused"]
  BY <1>1, FaultCounts, KindFacts
<1>8. /\ cursor' \in [Remotes -> 0 .. MaxPosts]
      /\ \A q \in Remotes : cursor'[q] \in Saved \cup {0}
      /\ got' \in [Remotes -> SUBSET Saved]
  BY <1>1 DEF SyncPosts
<1>9. gaveUp' \in [Remotes -> SUBSET Saved]
  BY <1>1, <1>3, AbandonedFacts DEF GoodTask
<1>10. /\ SyncInv' /\ Saved' = Saved /\ loop'[n] = l
       /\ \A m \in Terms \ {n} : loop'[m] = loop[m]
  BY <1>1, <1>2, <1>5, <1>6, <1>7, <1>8, <1>9, WorkStep
<1> QED  BY <1>5, <1>10

(* The goroutine sends posts S to r, with the cursor at c. *)
LEMMA SendsGood ==
  ASSUME NEW n \in Terms, NEW k, NEW P, LoopGood(loop[n], n, P, k),
         loop[n].pc = "next", NEW l \in Loop, l.pc = "sending", l.task = loop[n].task,
         l.todo \subseteq loop[n].todo, l.remote \in Remotes, l.posts \in SUBSET P,
         Cardinality(l.posts) <= MaxPostsPerSync, l.next \in P \cup {0},
         l.task.post # 0 => l.remote = l.task.remote /\ l.posts = {l.task.post}
  PROVE  LoopGood(l, n, P, k)
  BY DEF LoopGood

LEMMA ResendPostInv ==
  ASSUME SharedChannelSyncAssumption, SyncInv, NEW n \in Terms, NEW r \in Remotes,
         ResendPost(n, r)
  PROVE  /\ SyncInv' /\ Saved' = Saved /\ \A m \in Terms \ {n} : loop'[m] = loop[m]
         /\ loop'[n].pc = "sending" /\ loop'[n].task = loop[n].task
         /\ loop'[n].remote = r /\ loop'[n].next = cursor[r]
         /\ loop'[n].todo = loop[n].todo \ {r} /\ loop[n].pc = "next"
<1> DEFINE S == {loop[n].task.post}
           l == [loop[n] EXCEPT !.pc = "sending", !.todo = @ \ {r}, !.remote = r,
                             !.posts = S, !.next = cursor[r], !.repeat = FALSE]
<1>1. /\ SyncPosts /\ SyncCounts /\ SyncTasks /\ SyncLoops
      /\ r \in loop[n].todo /\ loop[n].pc = "next" /\ loop[n].task.post # 0
      /\ loop' = [loop EXCEPT ![n].pc = "sending", ![n].todo = @ \ {r}, ![n].remote = r,
                          ![n].posts = S, ![n].next = cursor[r], ![n].repeat = FALSE]
      /\ UNCHANGED <<post, unsaid, cursor, online, got, gaveUp, tasks, signal, active,
                     resumes, used>>
  BY DEF SyncInv, ResendPost
<1>2. signal' \in BOOLEAN
  BY <1>1 DEF SyncCounts
<1>3. /\ LoopGood(loop[n], n, Saved, resumes) /\ Kept(loop[n].task) /\ loop[n] \in Loop
      /\ GoodTask(loop[n].task, Saved, used["refused"])
  BY <1>1, HandFacts
<1>4. loop' = [loop EXCEPT ![n] = l]
  BY <1>1, <1>3 DEF SyncLoops, Loop
<1>5. /\ S \in SUBSET Saved /\ Cardinality(S) <= MaxPostsPerSync
      /\ loop[n].task.post # 0 => r = loop[n].task.remote /\ S = {loop[n].task.post}
  <2>1. loop[n].task.post \in Saved
    BY <1>1, <1>3 DEF GoodTask
  <2>2. Cardinality(S) = 1
    BY FS_Singleton
  <2>3. 1 <= MaxPostsPerSync
    BY DEF SharedChannelSyncAssumption
  <2>4. r = loop[n].task.remote
    BY <1>1, <1>3 DEF LoopGood
  <2> QED  BY <2>1, <2>2, <2>3, <2>4
<1>6. cursor[r] \in Saved \cup {0} /\ cursor[r] \in 0 .. MaxPosts
  BY <1>1 DEF SyncPosts
<1>7. Saved \subseteq 1 .. MaxPosts
  BY <1>1, SavedFacts
<1> HIDE DEF S
<1>8. /\ l \in Loop /\ l.task = loop[n].task /\ l.pc = "sending"
      /\ l.remote = r /\ l.posts = S /\ l.next = cursor[r]
      /\ l.todo = loop[n].todo \ {r}
  BY <1>3, <1>5, <1>6, <1>7 DEF Loop
<1> HIDE DEF l
<1>9. LoopGood(l, n, Saved, resumes)
  BY <1>1, <1>3, <1>5, <1>6, <1>8, SendsGood
<1>10. /\ SyncInv' /\ Saved' = Saved /\ loop'[n] = l
       /\ \A m \in Terms \ {n} : loop'[m] = loop[m]
  BY <1>1, <1>2, <1>3, <1>4, <1>8, <1>9, MoveStep, SameCounts
<1> QED  BY <1>1, <1>8, <1>10

(* GetPostsSinceForSync returns at most a batch, and no gap. *)
LEMMA SinceFacts ==
  ASSUME SharedChannelSyncAssumption, SyncPosts, NEW r \in Remotes
  PROVE  /\ Since(r) \in SUBSET Saved /\ Cardinality(Since(r)) \in Nat
         /\ Cardinality(Since(r)) <= MaxPostsPerSync
         /\ Filtered(Since(r), r) \in SUBSET Since(r)
         /\ Cardinality(Filtered(Since(r), r)) <= MaxPostsPerSync
         /\ Last(Since(r), cursor[r]) \in Saved \cup {0}
         /\ Last(Since(r), cursor[r]) \in 0 .. MaxPosts
         /\ \A p \in Saved : cursor[r] < p /\ p <= Last(Since(r), cursor[r])
                               => p \in Since(r)
<1> DEFINE c == cursor[r]
           X == {q \in Saved : c < q}
           S == Since(r)
           F == Filtered(Since(r), r)
           Below(p) == {q \in Saved : c < q /\ q < p}
<1>1. /\ MaxPosts \in Nat /\ MaxPostsPerSync \in Nat /\ c \in 0 .. MaxPosts
      /\ c \in Saved \cup {0} /\ Saved \in SUBSET (1 .. MaxPosts)
  BY SavedFacts DEF SharedChannelSyncAssumption, SyncPosts
<1>2. S = {p \in Saved : p > c /\ Cardinality(Below(p)) < MaxPostsPerSync}
  BY DEF Since
<1>3. F \in SUBSET S
  BY DEF Filtered
<1>4. \A p : Below(p) = {q \in X : q < p}
  OBVIOUS
<1> HIDE DEF c, S, F
<1>5. \A p \in Saved : p \in 1 .. MaxPosts
  BY <1>1
<1>6. X \in SUBSET (1 .. MaxPosts) /\ S \in SUBSET X
  BY <1>1, <1>2, <1>5
<1>7. \A p \in S : Cardinality({q \in X : q < p}) < MaxPostsPerSync
  BY <1>2, <1>4
<1>8. S \in SUBSET (1 .. MaxPosts) /\ S \in SUBSET Saved
  BY <1>1, <1>2
<1>9. IsFiniteSet(S) /\ Cardinality(S) \in Nat
  BY <1>1, <1>8, FiniteNumbers
<1> HIDE DEF X
<1>10. Cardinality(S) <= MaxPostsPerSync
  BY <1>1, <1>6, <1>7, FirstFew
<1>11. Cardinality(F) <= MaxPostsPerSync
  <2>1. Cardinality(F) <= Cardinality(S) /\ F \in SUBSET (1 .. MaxPosts)
    BY <1>3, <1>8, <1>9, FS_Subset
  <2>2. Cardinality(F) \in Nat
    BY <1>1, <2>1, FiniteNumbers
  <2> QED  BY <1>1, <1>9, <1>10, <2>1, <2>2
<1>12. /\ S = {} => Last(S, c) = c
       /\ S # {} => Last(S, c) \in S /\ \A q \in S : q <= Last(S, c)
  BY <1>1, <1>8, LastFacts
<1>13. Last(S, c) \in Saved \cup {0} /\ Last(S, c) \in 0 .. MaxPosts
  <2>1. CASE S = {}
    BY <1>1, <1>12, <2>1
  <2>2. CASE S # {}
    <3>1. Last(S, c) \in S
      BY <1>12, <2>2
    <3>2. Last(S, c) \in Saved /\ Last(S, c) \in 1 .. MaxPosts
      BY <1>8, <3>1
    <3> QED  BY <1>1, <3>2
  <2> QED  BY <2>1, <2>2
<1>14. ASSUME NEW p \in Saved, c < p, p <= Last(S, c) PROVE p \in S
  <2> DEFINE m == Last(S, c)
  <2>1. S # {} /\ m \in S
    BY <1>1, <1>5, <1>12, <1>14
  <2>2. p \in Nat /\ m \in Nat /\ p <= m
    <3>1. p \in 1 .. MaxPosts /\ m \in 1 .. MaxPosts
      BY <1>5, <1>8, <2>1
    <3>2. p <= m
      BY <1>14
    <3> HIDE DEF m
    <3> QED  BY <1>1, <3>1, <3>2
  <2>3. \A q \in Saved : q \in Nat
    BY <1>5
  <2> HIDE DEF m
  <2>4. Below(p) \in SUBSET Below(m) /\ Below(m) \in SUBSET (1 .. MaxPosts)
        /\ Below(p) \in SUBSET (1 .. MaxPosts)
    <3>1. \A q \in Saved : q < p => q < m
      BY <2>2, <2>3
    <3>2. Below(p) \in SUBSET Below(m)
      BY <3>1
    <3>3. \A u : Below(u) \in SUBSET Saved
      OBVIOUS
    <3> HIDE DEF Below
    <3> QED  BY <1>1, <3>2, <3>3
  <2>5. /\ IsFiniteSet(Below(m)) /\ Cardinality(Below(m)) \in Nat
        /\ Cardinality(Below(p)) \in Nat
    BY <1>1, <2>4, FiniteNumbers
  <2>6. Cardinality(Below(p)) <= Cardinality(Below(m))
    BY <2>4, <2>5, FS_Subset
  <2>7. Cardinality(Below(m)) < MaxPostsPerSync
    BY <1>2, <2>1
  <2>8. Cardinality(Below(p)) < MaxPostsPerSync
    <3> HIDE DEF Below
    <3> QED  BY <1>1, <2>5, <2>6, <2>7
  <2>9. p > c
    BY <1>1, <1>14, <2>2
  <2> QED  BY <1>2, <2>8, <2>9
<1> QED  BY <1>3, <1>8, <1>9, <1>10, <1>11, <1>13, <1>14 DEF c, S, F

LEMMA FetchPostsInv ==
  ASSUME SharedChannelSyncAssumption, SyncInv, NEW n \in Terms, NEW r \in Remotes,
         FetchPosts(n, r)
  PROVE  /\ SyncInv' /\ Saved' = Saved /\ \A m \in Terms \ {n} : loop'[m] = loop[m]
         /\ loop'[n].pc = "sending" /\ loop'[n].task = loop[n].task
         /\ loop'[n].remote = r /\ loop'[n].posts = Filtered(Since(r), r)
         /\ loop'[n].next = Last(Since(r), cursor[r])
<1> DEFINE S == Filtered(Since(r), r)
           c == Last(Since(r), cursor[r])
           b == Repeats(r)
           l == [loop[n] EXCEPT !.pc = "sending", !.todo = @ \ {r}, !.remote = r,
                             !.posts = S, !.next = c, !.repeat = b]
<1>1. /\ SyncPosts /\ SyncCounts /\ SyncTasks /\ SyncLoops
      /\ r \in loop[n].todo /\ loop[n].pc = "next" /\ loop[n].task.post = 0
      /\ loop' = [loop EXCEPT ![n].pc = "sending", ![n].todo = @ \ {r}, ![n].remote = r,
                          ![n].posts = S, ![n].next = c, ![n].repeat = b]
      /\ UNCHANGED <<post, unsaid, cursor, online, got, gaveUp, tasks, signal, active,
                     resumes, used>>
  BY DEF SyncInv, FetchPosts
<1>2. signal' \in BOOLEAN
  BY <1>1 DEF SyncCounts
<1>3. /\ LoopGood(loop[n], n, Saved, resumes) /\ Kept(loop[n].task) /\ loop[n] \in Loop
  BY <1>1, HandFacts
<1>4. b \in BOOLEAN
  BY DEF Repeats
<1>5. S \in SUBSET Saved /\ Cardinality(S) <= MaxPostsPerSync
      /\ c \in Saved \cup {0} /\ c \in 0 .. MaxPosts
  BY <1>1, SinceFacts
<1> HIDE DEF S, c, b
<1>6. loop' = [loop EXCEPT ![n] = l]
  BY <1>1, <1>3, <1>4 DEF SyncLoops, Loop
<1>7. Saved \subseteq 1 .. MaxPosts
  BY <1>1, SavedFacts
<1>8. /\ l \in Loop /\ l.task = loop[n].task /\ l.pc = "sending"
      /\ l.remote = r /\ l.posts = S /\ l.next = c
      /\ l.todo = loop[n].todo \ {r}
  BY <1>3, <1>4, <1>5, <1>7 DEF Loop
<1> HIDE DEF l
<1>9. LoopGood(l, n, Saved, resumes)
  <2>1. /\ loop[n].pc = "next" /\ l.todo \subseteq loop[n].todo
        /\ l.remote \in Remotes /\ l.posts \in SUBSET Saved
        /\ Cardinality(l.posts) <= MaxPostsPerSync /\ l.next \in Saved \cup {0}
    BY <1>1, <1>5, <1>8
  <2>2. l.task.post # 0 => l.remote = l.task.remote /\ l.posts = {l.task.post}
    BY <1>1, <1>3, <1>8
  <2> QED  BY <1>3, <1>8, <2>1, <2>2, SendsGood
<1>10. /\ SyncInv' /\ Saved' = Saved /\ loop'[n] = l
       /\ \A m \in Terms \ {n} : loop'[m] = loop[m]
  BY <1>1, <1>2, <1>3, <1>6, <1>8, <1>9, MoveStep, SameCounts
<1> QED  BY <1>1, <1>8, <1>10 DEF S, c

LEMMA NothingToSendInv ==
  ASSUME SharedChannelSyncAssumption, SyncInv, NEW n \in Terms, NEW r \in Remotes,
         NothingToSend(n, r)
  PROVE  /\ SyncInv' /\ Saved' = Saved /\ \A m \in Terms \ {n} : loop'[m] = loop[m]
         /\ loop'[n].pc = "next" /\ Elems(tasks) \subseteq Elems(tasks')
<1> DEFINE l == [loop[n] EXCEPT !.todo = @ \ {r}]
<1>1. /\ SyncPosts /\ SyncCounts /\ SyncTasks /\ SyncLoops
      /\ loop' = [loop EXCEPT ![n] = l] /\ loop[n].pc = "next"
      /\ UNCHANGED <<post, unsaid, online, got, gaveUp, active, resumes, used>>
  BY DEF SyncInv, NothingToSend
<1>2. /\ LoopGood(loop[n], n, Saved, resumes) /\ Kept(loop[n].task)
  BY <1>1, HandFacts
<1>3. LoopGood(l, n, Saved, resumes) /\ Kept(l.task) /\ l.pc = "next"
  BY <1>1, <1>2, TodoShrinks
<1> HIDE DEF l
<1>4. CASE UNCHANGED <<cursor, tasks, signal>>
  <2>1. signal' \in BOOLEAN
    BY <1>1, <1>4 DEF SyncCounts
  <2>2. /\ SyncInv' /\ Saved' = Saved /\ loop'[n] = l
        /\ \A m \in Terms \ {n} : loop'[m] = loop[m]
    BY <1>1, <1>3, <1>4, <2>1, MoveStep, SameCounts
  <2> QED  BY <1>3, <1>4, <2>2
<1>5. CASE /\ cursor' = [cursor EXCEPT ![r] = Last(Since(r), cursor[r])]
           /\ IF Repeats(r) THEN addTask(newSyncTask(r, 0, 0))
                            ELSE UNCHANGED <<tasks, signal>>
  <2>1. /\ Last(Since(r), cursor[r]) \in Saved \cup {0}
        /\ Last(Since(r), cursor[r]) \in 0 .. MaxPosts
    BY <1>1, SinceFacts
  <2>2. /\ cursor' \in [Remotes -> 0 .. MaxPosts]
        /\ \A q \in Remotes : cursor'[q] \in Saved \cup {0}
        /\ got' \in [Remotes -> SUBSET Saved] /\ gaveUp' \in [Remotes -> SUBSET Saved]
    BY <1>1, <1>5, <2>1 DEF SyncPosts
  <2>3. signal' \in BOOLEAN
    BY <1>1, <1>5 DEF addTask, SyncCounts
  <2>4. /\ tasks' \in Seq(Task) /\ UniqueIds(tasks') /\ Elems(tasks) \subseteq Elems(tasks')
        /\ \A u \in Elems(tasks') : Kept(u) \/ SyncFresh(u)
    <3>1. CASE tasks' = Add(tasks, newSyncTask(r, 0, 0))
      BY <1>1, <3>1, AddKept
    <3>2. CASE tasks' = tasks
      BY <1>1, <3>2, KeptInUse, InUseFacts DEF SyncTasks
    <3> QED  BY <1>5, <3>1, <3>2 DEF addTask
  <2>5. /\ SyncInv' /\ Saved' = Saved /\ loop'[n] = l
        /\ \A m \in Terms \ {n} : loop'[m] = loop[m]
    BY <1>1, <1>3, <2>2, <2>3, <2>4, WorkStep, SameCounts
  <2> QED  BY <1>3, <2>4, <2>5
<1> QED  BY <1>4, <1>5 DEF NothingToSend
-----------------------------------------------------------------------------

(* sendSyncMsgToRemote. *)

LEMMA SendingFacts ==
  ASSUME SharedChannelSyncAssumption, SyncInv, NEW n \in Terms, loop[n].pc = "sending"
  PROVE  /\ loop[n] \in Loop /\ loop[n].remote \in Remotes
         /\ loop[n].posts \in SUBSET Saved /\ loop[n].posts \in SUBSET (1 .. MaxPosts)
         /\ loop[n].next \in Saved \cup {0} /\ loop[n].next \in 0 .. MaxPosts
         /\ loop[n].task.post \in Saved \cup {0} /\ loop[n].task \in InUse
         /\ loop[n].task.post # 0 =>
              loop[n].remote = loop[n].task.remote /\ loop[n].posts = {loop[n].task.post}
  BY HandFacts, LoopFacts, InUseFacts DEF SyncInv, LoopGood, GoodTask

LEMMA SentFacts ==
  ASSUME SharedChannelSyncAssumption, SyncInv, NEW n \in Terms, loop[n].pc = "sending",
         NEW x \in {"next", "stuck"}
  PROVE  LET l == [loop[n] EXCEPT !.pc = x]
         IN  /\ LoopGood(l, n, Saved, resumes) /\ Kept(l.task) /\ l.pc = x
             /\ l.task = loop[n].task /\ l.todo = loop[n].todo
<1>1. loop[n] \in Loop /\ LoopGood(loop[n], n, Saved, resumes) /\ Kept(loop[n].task)
  BY HandFacts DEF SyncInv
<1> DEFINE l == [loop[n] EXCEPT !.pc = x]
<1>2. /\ l \in Loop /\ l.task = loop[n].task /\ l.pc = x /\ l.todo = loop[n].todo
      /\ l.posts = loop[n].posts
  BY <1>1 DEF Loop
<1> HIDE DEF l
<1>3. LoopGood(l, n, Saved, resumes)
  BY <1>1, <1>2 DEF LoopGood
<1> QED  BY <1>1, <1>2, <1>3 DEF l

LEMMA AddRepeatFacts ==
  ASSUME SharedChannelSyncAssumption, SyncTasks, NEW n \in Terms, loop[n].remote \in Remotes,
         NEW ts \in Seq(Task), UniqueIds(ts), \A u \in Elems(ts) : Kept(u) \/ SyncFresh(u)
  PROVE  /\ AddRepeat(n, ts) \in Seq(Task) /\ UniqueIds(AddRepeat(n, ts))
         /\ \A u \in Elems(AddRepeat(n, ts)) : Kept(u) \/ SyncFresh(u)
         /\ Elems(ts) \subseteq Elems(AddRepeat(n, ts))
<1> DEFINE t == newSyncTask(loop[n].remote, 0, 0)
<1>1. t \in Task /\ t.post = 0 /\ t.id[2] = 0
  <2>1. 0 \in 0 .. MaxPosts /\ 0 \in 0 .. MaxRefused
    BY DEF SharedChannelSyncAssumption
  <2> QED  BY <2>1, NewTaskFacts
<1>2. AddRepeat(n, ts) = IF loop[n].repeat THEN Add(ts, t) ELSE ts
  BY DEF AddRepeat
<1> HIDE DEF t
<1>3. /\ Add(ts, t) \in Seq(Task) /\ UniqueIds(Add(ts, t))
      /\ Elems(ts) \subseteq Elems(Add(ts, t))
      /\ Elems(Add(ts, t)) \subseteq Elems(ts) \cup {t}
  BY <1>1, AddFacts
<1>4. Kept(t)
  BY <1>1 DEF Kept
<1>5. \A u \in Elems(Add(ts, t)) : Kept(u) \/ SyncFresh(u)
  BY <1>3, <1>4
<1>6. AddRepeat(n, ts) = Add(ts, t) \/ AddRepeat(n, ts) = ts
  BY <1>2
<1> QED  BY <1>3, <1>5, <1>6

(* The tasks as they are. *)
LEMMA TasksKept ==
  ASSUME SyncTasks
  PROVE  /\ tasks \in Seq(Task) /\ UniqueIds(tasks)
         /\ \A u \in Elems(tasks) : Kept(u) \/ SyncFresh(u)
  BY KeptInUse, InUseFacts DEF SyncTasks

(* handlePostError adds a retry of each post that was refused. *)
LEMMA RefusedFacts ==
  ASSUME SharedChannelSyncAssumption, SyncInv, NEW r \in Remotes, NEW E \in SUBSET Saved,
         SyncFault("refused", Cardinality(E))
  PROVE  LET us == tasks \o NewRetries(r, E)
         IN  /\ us \in Seq(Task) /\ UniqueIds(us)
             /\ \A u \in Elems(us) : Kept(u) \/ SyncFresh(u)
             /\ Elems(tasks) \subseteq Elems(us)
             /\ \A p \in E : \E u \in Elems(us) : u.post = p /\ u.remote = r
<1> DEFINE ns == NewRetries(r, E)
           us == tasks \o ns
           K == Cardinality(E)
           k == used["refused"]
<1>1. SyncPosts /\ SyncCounts /\ SyncTasks
  BY DEF SyncInv
<1>2. E \in SUBSET (1 .. MaxPosts) /\ MaxPosts \in Nat
  BY <1>1, SavedFacts DEF SharedChannelSyncAssumption
<1>3. K \in Nat /\ k \in Nat
  BY <1>1, <1>2, FiniteNumbers, CountsFacts, KindFacts
<1>4. used'["refused"] = k + K /\ k + K <= MaxRefused
  <2>1. used'["refused"] = k + K /\ used'["refused"] <= Bound("refused")
    BY <1>1, <1>3, FaultFacts, KindFacts
  <2> QED  BY <2>1, BoundFacts
<1>5. /\ ns \in Seq(Task) /\ Len(ns) = K
      /\ \A i \in 1 .. K : /\ ns[i].id[2] = k + i /\ ns[i].id[1] = r
                           /\ ns[i].remote = r /\ ns[i].post \in E
      /\ \A p \in E : \E i \in 1 .. K : ns[i].post = p
  BY <1>2, <1>3, <1>4, NewRetriesFacts
<1>6. tasks \in Seq(Task) /\ UniqueIds(tasks) /\ \A t \in Elems(tasks) : t.id[2] <= k
  BY <1>1, InUseFacts DEF SyncTasks, GoodTask
<1> DEFINE N == Len(tasks)
<1> HIDE DEF ns, K, k
<1>7. /\ us \in Seq(Task) /\ N \in Nat /\ DOMAIN tasks = 1 .. N /\ DOMAIN us = 1 .. N + K
      /\ \A i \in 1 .. N : us[i] = tasks[i]
      /\ \A i \in N + 1 .. N + K : us[i] = ns[i - N]
  <2>1. us \in Seq(Task) /\ Len(us) = N + Len(ns)
    BY <1>5, <1>6, ConcatProperties
  <2>2. \A i \in 1 .. N + Len(ns) : us[i] = IF i <= N THEN tasks[i] ELSE ns[i - N]
    BY <1>5, <1>6, ConcatProperties
  <2>3. N \in Nat /\ DOMAIN tasks = 1 .. N /\ DOMAIN us = 1 .. N + K
    BY <1>5, <1>6, <2>1
  <2> HIDE DEF us, N
  <2>4. \A i \in 1 .. N : i \in 1 .. N + Len(ns) /\ i <= N
    BY <1>3, <1>5, <2>3
  <2>5. \A i \in N + 1 .. N + K : i \in 1 .. N + Len(ns) /\ ~(i <= N)
    BY <1>3, <1>5, <2>3
  <2> QED  BY <2>1, <2>2, <2>3, <2>4, <2>5
<1> HIDE DEF us, N
<1>8. ASSUME NEW i \in 1 .. N PROVE us[i] \in Elems(tasks) /\ us[i].id[2] <= k
  BY <1>6, <1>7 DEF Elems
<1>9. ASSUME NEW i \in N + 1 .. N + K
      PROVE  /\ us[i].id[2] = k + (i - N) /\ us[i].id[1] = r /\ us[i].remote = r
             /\ us[i].post \in E
  <2>1. i - N \in 1 .. K /\ us[i] = ns[i - N]
    BY <1>3, <1>7
  <2> QED  BY <1>5, <2>1
<1>10. \A i \in 1 .. N + K : us[i] \in Task /\ us[i].id[2] \in Nat
  <2>0. us \in Seq(Task)
    BY <1>7
  <2>1. \A i \in DOMAIN us : us[i] \in Task
    BY <2>0
  <2>2. \A t \in Task : t.id[2] \in Nat
    BY TaskFacts DEF SharedChannelSyncAssumption
  <2> QED  BY <1>7, <2>1, <2>2
<1>11. UniqueIds(us)
  <2>1. SUFFICES ASSUME NEW i \in 1 .. N + K, NEW j \in 1 .. N + K, us[i].id = us[j].id
                 PROVE  i = j
    BY <1>7 DEF UniqueIds
  <2>2. i \in 1 .. N \/ i \in N + 1 .. N + K
    BY <1>3, <1>7
  <2>3. j \in 1 .. N \/ j \in N + 1 .. N + K
    BY <1>3, <1>7
  <2>4. CASE i \in 1 .. N /\ j \in 1 .. N
    BY <1>6, <1>7, <2>1, <2>4 DEF UniqueIds
  <2>5. CASE i \in N + 1 .. N + K /\ j \in N + 1 .. N + K
    <3>1. k + (i - N) = k + (j - N)
      BY <1>9, <2>1, <2>5
    <3> QED  BY <1>3, <1>7, <2>5, <3>1
  <2>6. CASE i \in 1 .. N /\ j \in N + 1 .. N + K
    <3>1. k + (j - N) <= k
      BY <1>8, <1>9, <2>1, <2>6
    <3> QED  BY <1>3, <1>7, <2>6, <3>1
  <2>7. CASE i \in N + 1 .. N + K /\ j \in 1 .. N
    <3>1. k + (i - N) <= k
      BY <1>8, <1>9, <2>1, <2>7
    <3> QED  BY <1>3, <1>7, <2>7, <3>1
  <2> QED  BY <2>2, <2>3, <2>4, <2>5, <2>6, <2>7
<1>12. r # All /\ 0 \notin E
  <2>1. r # All
    BY DEF SharedChannelSyncAssumption, All
  <2>2. 0 \notin E
    BY <1>2
  <2> QED  BY <2>1, <2>2
<1>13. ASSUME NEW i \in N + 1 .. N + K PROVE SyncFresh(us[i])
  <2>1. us[i] \in Task
    BY <1>3, <1>7, <1>10
  <2>2. us[i].post \in Saved \ {0} /\ us[i].remote = us[i].id[1] /\ us[i].remote # All
    BY <1>9, <1>12
  <2>3. k < us[i].id[2] /\ us[i].id[2] <= used'["refused"]
    BY <1>3, <1>4, <1>7, <1>9
  <2> QED  BY <2>1, <2>2, <2>3 DEF SyncFresh, k
<1>14. \A u \in Elems(us) : Kept(u) \/ SyncFresh(u)
  <2>1. \A i \in 1 .. N + K : i \in 1 .. N \/ i \in N + 1 .. N + K
    BY <1>3, <1>7
  <2>2. \A t \in Elems(tasks) : Kept(t)
    BY <1>1, KeptInUse, InUseFacts
  <2>3. \A i \in 1 .. N + K : Kept(us[i]) \/ SyncFresh(us[i])
    BY <1>8, <1>13, <2>1, <2>2
  <2> QED  BY <1>7, <2>3 DEF Elems
<1>15. Elems(tasks) \subseteq Elems(us)
  <2>1. \A i \in 1 .. N : i \in 1 .. N + K
    BY <1>3, <1>7
  <2> QED  BY <1>7, <2>1 DEF Elems
<1>16. ASSUME NEW p \in E PROVE \E u \in Elems(us) : u.post = p /\ u.remote = r
  <2>1. PICK i \in 1 .. K : ns[i].post = p
    BY <1>5
  <2>2. N + i \in N + 1 .. N + K /\ N + i \in 1 .. N + K /\ (N + i) - N = i
    BY <1>3, <1>7
  <2>3. us[N + i] = ns[i] /\ us[N + i].remote = r
    BY <1>7, <1>9, <2>2
  <2>4. us[N + i] \in Elems(us)
    BY <1>7, <2>2 DEF Elems
  <2> QED  BY <2>1, <2>3, <2>4
<1> QED  BY <1>7, <1>11, <1>14, <1>15, <1>16 DEF us, ns

(* The goroutine has sent a message to r, and got an answer or none. *)
LEMMA SentStep ==
  ASSUME SharedChannelSyncAssumption, SyncInv, NEW n \in Terms, loop[n].pc = "sending",
         loop' = Sent(n), UNCHANGED <<post, unsaid, online, active, resumes>>,
         signal' \in BOOLEAN,
         cursor' = [cursor EXCEPT ![loop[n].remote] = loop[n].next] \/ UNCHANGED cursor,
         got' \in [Remotes -> SUBSET Saved], gaveUp' \in [Remotes -> SUBSET Saved],
         used' \in [Faults -> Nat], \A g \in Faults : used'[g] <= Bound(g),
         used'["pause"] = used["pause"], used["refused"] <= used'["refused"],
         tasks' \in Seq(Task), UniqueIds(tasks'),
         \A t \in Elems(tasks') : Kept(t) \/ SyncFresh(t)
  PROVE  /\ SyncInv' /\ Saved' = Saved /\ loop'[n].pc = "next"
         /\ loop'[n].task = loop[n].task /\ loop'[n].todo = loop[n].todo
         /\ \A m \in Terms \ {n} : loop'[m] = loop[m]
<1> DEFINE l == [loop[n] EXCEPT !.pc = "next"]
<1>1. /\ LoopGood(l, n, Saved, resumes) /\ Kept(l.task) /\ l.pc = "next"
      /\ l.task = loop[n].task /\ l.todo = loop[n].todo
  BY SentFacts
<1>2. loop' = [loop EXCEPT ![n] = l]
  BY DEF Sent
<1> HIDE DEF l
<1>3. /\ cursor \in [Remotes -> 0 .. MaxPosts]
      /\ \A r \in Remotes : cursor[r] \in Saved \cup {0}
  BY DEF SyncInv, SyncPosts
<1>4. /\ loop[n].remote \in Remotes /\ loop[n].next \in Saved \cup {0}
      /\ loop[n].next \in 0 .. MaxPosts
  BY SendingFacts
<1>5. /\ cursor' \in [Remotes -> 0 .. MaxPosts]
      /\ \A r \in Remotes : cursor'[r] \in Saved \cup {0}
  BY <1>3, <1>4
<1>6. /\ SyncInv' /\ Saved' = Saved /\ loop'[n] = l
      /\ \A m \in Terms \ {n} : loop'[m] = loop[m]
  BY <1>1, <1>2, <1>5, WorkStep
<1> QED  BY <1>1, <1>6

LEMMA GotFacts ==
  ASSUME SharedChannelSyncAssumption, SyncInv, NEW n \in Terms, loop[n].pc = "sending",
         NEW E
  PROVE  LET g == [got EXCEPT ![loop[n].remote] = @ \cup (loop[n].posts \ E)]
         IN  /\ g \in [Remotes -> SUBSET Saved] /\ \A r \in Remotes : got[r] \subseteq g[r]
             /\ g[loop[n].remote] = got[loop[n].remote] \cup (loop[n].posts \ E)
  BY SendingFacts DEF SyncInv, SyncPosts

LEMMA AnsweredInv ==
  ASSUME SharedChannelSyncAssumption, SyncInv, NEW n \in Terms, Answered(n)
  PROVE  /\ SyncInv' /\ Saved' = Saved /\ loop'[n].pc = "next"
         /\ loop'[n].task = loop[n].task /\ loop'[n].todo = loop[n].todo
         /\ \A m \in Terms \ {n} : loop'[m] = loop[m]
<1> DEFINE r == loop[n].remote
           t == For(n, r)
<1>1. /\ SyncPosts /\ SyncCounts /\ SyncTasks /\ SyncLoops /\ loop[n].pc = "sending"
      /\ cursor' = [cursor EXCEPT ![r] = loop[n].next] /\ loop' = Sent(n)
      /\ UNCHANGED <<post, unsaid, online, active, resumes>>
  BY DEF SyncInv, Answered
<1>2. /\ r \in Remotes /\ loop[n].posts \in SUBSET Saved
      /\ loop[n].posts \in SUBSET (1 .. MaxPosts) /\ MaxPosts \in Nat
      /\ loop[n].task.post # 0 => r = loop[n].task.remote
      /\ loop[n].task.post \in Saved \cup {0}
  BY <1>1, SendingFacts DEF SharedChannelSyncAssumption
<1>3. Kept(t) /\ t.post = loop[n].task.post
  BY <1>1, <1>2, ForKept
<1>4. PICK E \in SUBSET loop[n].posts :
        /\ got' = [got EXCEPT ![r] = @ \cup (loop[n].posts \ E)]
        /\ \/ /\ t.post # 0 /\ E # {} /\ SyncFault("refused", 1)
              /\ tasks' = Retry(tasks, t)
              /\ signal' = (signal \/ t.retries < MaxRetries)
              /\ gaveUp' = Abandoned(t, {r})
           \/ /\ t.post = 0 \/ E = {}
              /\ SyncFault("refused", Cardinality(E))
              /\ tasks' = AddRepeat(n, tasks \o NewRetries(r, E))
              /\ signal' = (signal \/ loop[n].repeat \/ E # {})
              /\ UNCHANGED gaveUp
  BY DEF Answered
<1>5. got' \in [Remotes -> SUBSET Saved]
  BY <1>1, <1>4, GotFacts
<1>6. signal' \in BOOLEAN
  BY <1>4
<1> HIDE DEF t, r
<1>7. CASE /\ SyncFault("refused", 1) /\ tasks' = Retry(tasks, t)
           /\ gaveUp' = Abandoned(t, {r})
  <2>1. /\ used' \in [Faults -> Nat] /\ \A g \in Faults : used'[g] <= Bound(g)
        /\ used'["pause"] = used["pause"] /\ used["refused"] <= used'["refused"]
    BY <1>7, FaultCounts, KindFacts
  <2>2. tasks' \in Seq(Task) /\ UniqueIds(tasks') /\ \A u \in Elems(tasks') : Kept(u) \/ SyncFresh(u)
    <3>1. tasks \in Seq(Task) /\ UniqueIds(tasks) /\ Elems(tasks) \subseteq Elems(tasks)
      BY <1>1 DEF SyncTasks
    <3> QED  BY <1>1, <1>3, <1>7, <3>1, RetryKept
  <2>3. gaveUp' \in [Remotes -> SUBSET Saved]
    BY <1>1, <1>2, <1>3, <1>7, AbandonedFacts
  <2> QED  BY <1>1, <1>5, <1>6, <2>1, <2>2, <2>3, SentStep DEF r
<1>8. CASE /\ SyncFault("refused", Cardinality(E))
           /\ tasks' = AddRepeat(n, tasks \o NewRetries(r, E)) /\ UNCHANGED gaveUp
  <2>0. Cardinality(E) \in Nat /\ E \in SUBSET Saved
    <3>1. E \in SUBSET (1 .. MaxPosts) /\ E \in SUBSET Saved
      BY <1>2
    <3> QED  BY <1>2, <3>1, FiniteNumbers
  <2>1. /\ used' \in [Faults -> Nat] /\ \A g \in Faults : used'[g] <= Bound(g)
        /\ used'["pause"] = used["pause"] /\ used["refused"] <= used'["refused"]
    BY <1>8, <2>0, FaultCounts, KindFacts
  <2> DEFINE us == tasks \o NewRetries(r, E)
  <2>2. us \in Seq(Task) /\ UniqueIds(us) /\ \A u \in Elems(us) : Kept(u) \/ SyncFresh(u)
    BY <1>2, <1>8, <2>0, RefusedFacts
  <2>3. tasks' = AddRepeat(n, us)
    BY <1>8
  <2> HIDE DEF us
  <2>4. tasks' \in Seq(Task) /\ UniqueIds(tasks') /\ \A u \in Elems(tasks') : Kept(u) \/ SyncFresh(u)
    BY <1>1, <1>2, <2>2, <2>3, AddRepeatFacts DEF r
  <2>5. gaveUp' \in [Remotes -> SUBSET Saved]
    BY <1>1, <1>8 DEF SyncPosts
  <2> QED  BY <1>1, <1>5, <1>6, <2>1, <2>4, <2>5, SentStep DEF r
<1> QED  BY <1>4, <1>7, <1>8

(* The tasks, when a full batch makes another one. *)
LEMMA RepeatKept ==
  ASSUME SharedChannelSyncAssumption, SyncInv, NEW n \in Terms, loop[n].pc = "sending",
         tasks' = AddRepeat(n, tasks)
  PROVE  /\ tasks' \in Seq(Task) /\ UniqueIds(tasks')
         /\ \A u \in Elems(tasks') : Kept(u) \/ SyncFresh(u)
         /\ Elems(tasks) \subseteq Elems(tasks')
  BY SendingFacts, TasksKept, AddRepeatFacts DEF SyncInv

LEMMA UnansweredInv ==
  ASSUME SharedChannelSyncAssumption, SyncInv, NEW n \in Terms, Unanswered(n)
  PROVE  /\ SyncInv' /\ Saved' = Saved /\ loop'[n].pc = "next"
         /\ \A m \in Terms \ {n} : loop'[m] = loop[m]
<1>1. /\ loop[n].pc = "sending" /\ SyncFault("lost", 1) /\ loop' = Sent(n)
      /\ tasks' = AddRepeat(n, tasks)
      /\ UNCHANGED <<post, unsaid, cursor, online, gaveUp, active, resumes>>
  BY DEF Unanswered
<1>2. signal' \in BOOLEAN
  BY DEF Unanswered
<1>3. gaveUp' \in [Remotes -> SUBSET Saved] /\ got \in [Remotes -> SUBSET Saved]
  BY <1>1 DEF SyncInv, SyncPosts
<1>4. got' \in [Remotes -> SUBSET Saved]
  <2>1. CASE UNCHANGED got
    BY <1>3, <2>1
  <2>2. CASE got' = [got EXCEPT ![loop[n].remote] = @ \cup loop[n].posts]
    BY <1>1, <1>3, <2>2, SendingFacts
  <2> QED  BY <2>1, <2>2 DEF Unanswered
<1>5. /\ used' \in [Faults -> Nat] /\ \A g \in Faults : used'[g] <= Bound(g)
      /\ used'["pause"] = used["pause"] /\ used["refused"] <= used'["refused"]
  BY <1>1, FaultCounts, KindFacts
<1>6. tasks' \in Seq(Task) /\ UniqueIds(tasks') /\ \A u \in Elems(tasks') : Kept(u) \/ SyncFresh(u)
  BY <1>1, RepeatKept
<1> QED  BY <1>1, <1>2, <1>3, <1>4, <1>5, <1>6, SentStep

LEMMA CursorFailsInv ==
  ASSUME SharedChannelSyncAssumption, SyncInv, NEW n \in Terms, CursorFails(n)
  PROVE  /\ SyncInv' /\ Saved' = Saved /\ loop'[n].pc = "next"
         /\ loop'[n].task = loop[n].task /\ loop'[n].todo = loop[n].todo
         /\ \A m \in Terms \ {n} : loop'[m] = loop[m]
<1>1. /\ loop[n].pc = "sending" /\ SyncFault("store", 1) /\ loop' = Sent(n)
      /\ tasks' = AddRepeat(n, tasks)
      /\ got' = [got EXCEPT ![loop[n].remote] = @ \cup loop[n].posts]
      /\ UNCHANGED <<post, unsaid, cursor, online, gaveUp, active, resumes>>
  BY DEF CursorFails
<1>2. signal' \in BOOLEAN
  BY DEF CursorFails
<1>3. gaveUp' \in [Remotes -> SUBSET Saved] /\ got \in [Remotes -> SUBSET Saved]
  BY <1>1 DEF SyncInv, SyncPosts
<1>4. got' \in [Remotes -> SUBSET Saved]
  BY <1>1, <1>3, SendingFacts
<1>5. /\ used' \in [Faults -> Nat] /\ \A g \in Faults : used'[g] <= Bound(g)
      /\ used'["pause"] = used["pause"] /\ used["refused"] <= used'["refused"]
  BY <1>1, FaultCounts, KindFacts
<1>6. tasks' \in Seq(Task) /\ UniqueIds(tasks') /\ \A u \in Elems(tasks') : Kept(u) \/ SyncFresh(u)
  BY <1>1, RepeatKept
<1> QED  BY <1>1, <1>2, <1>3, <1>4, <1>5, <1>6, SentStep

LEMMA RefusedUnreadInv ==
  ASSUME SharedChannelSyncAssumption, SyncInv, NEW n \in Terms, RefusedUnread(n)
  PROVE  /\ SyncInv' /\ Saved' = Saved /\ loop'[n].pc = "next"
         /\ loop'[n].task = loop[n].task /\ loop'[n].todo = loop[n].todo
         /\ \A m \in Terms \ {n} : loop'[m] = loop[m]
<1> DEFINE r == loop[n].remote
<1>1. /\ loop[n].pc = "sending" /\ loop' = Sent(n) /\ tasks' = AddRepeat(n, tasks)
      /\ used["refused"] < MaxRefused /\ used["store"] < MaxStoreFaults
      /\ used' = [used EXCEPT !["refused"] = @ + 1, !["store"] = @ + 1]
      /\ cursor' = [cursor EXCEPT ![r] = loop[n].next]
      /\ UNCHANGED <<post, unsaid, online, active, resumes>>
  BY DEF RefusedUnread
<1>2. signal' \in BOOLEAN
  BY DEF RefusedUnread
<1>3. /\ gaveUp \in [Remotes -> SUBSET Saved] /\ got \in [Remotes -> SUBSET Saved]
      /\ SyncCounts
  BY DEF SyncInv, SyncPosts
<1>4. PICK p \in loop[n].posts :
        /\ got' = [got EXCEPT ![r] = @ \cup (loop[n].posts \ {p})]
        /\ gaveUp' = [gaveUp EXCEPT ![r] = @ \cup {p}]
  BY DEF RefusedUnread
<1>5. got' \in [Remotes -> SUBSET Saved] /\ gaveUp' \in [Remotes -> SUBSET Saved]
  BY <1>1, <1>3, <1>4, SendingFacts
<1>6. /\ used' \in [Faults -> Nat] /\ \A g \in Faults : used'[g] <= Bound(g)
      /\ used'["pause"] = used["pause"] /\ used["refused"] <= used'["refused"]
  <2>1. used \in [Faults -> Nat] /\ \A g \in Faults : used[g] <= Bound(g)
    BY <1>3 DEF SyncCounts
  <2>2. /\ used' \in [Faults -> Nat] /\ used'["refused"] = used["refused"] + 1
        /\ used'["store"] = used["store"] + 1
        /\ \A g \in Faults \ {"refused", "store"} : used'[g] = used[g]
    BY <1>1, <2>1, KindFacts
  <2>3. /\ Bound("refused") = MaxRefused /\ Bound("store") = MaxStoreFaults
        /\ MaxRefused \in Nat /\ MaxStoreFaults \in Nat
    BY BoundFacts DEF SharedChannelSyncAssumption
  <2>4. used["refused"] \in Nat /\ used["store"] \in Nat
    BY <2>1, KindFacts
  <2>5. used'["refused"] <= Bound("refused") /\ used'["store"] <= Bound("store")
    BY <1>1, <2>2, <2>3, <2>4
  <2>6. \A g \in Faults : used'[g] <= Bound(g)
    BY <2>1, <2>2, <2>5
  <2> QED  BY <2>2, <2>4, <2>6, KindFacts
<1>7. tasks' \in Seq(Task) /\ UniqueIds(tasks') /\ \A u \in Elems(tasks') : Kept(u) \/ SyncFresh(u)
  BY <1>1, RepeatKept
<1> QED  BY <1>1, <1>2, <1>5, <1>6, <1>7, SentStep

LEMMA SendMsgFullInv ==
  ASSUME SharedChannelSyncAssumption, SyncInv, NEW n \in Terms, SendMsgFull(n)
  PROVE  /\ SyncInv' /\ Saved' = Saved /\ loop'[n].pc = "stuck"
         /\ \A m \in Terms \ {n} : loop'[m] = loop[m]
<1> DEFINE l == [loop[n] EXCEPT !.pc = "stuck"]
<1>1. /\ loop[n].pc = "sending" /\ SyncFault("full", 1) /\ loop' = [loop EXCEPT ![n] = l]
      /\ UNCHANGED <<post, unsaid, cursor, online, got, gaveUp, tasks, signal, active,
                     resumes>>
  BY DEF SendMsgFull
<1>2. signal' \in BOOLEAN
  BY <1>1 DEF SyncInv, SyncCounts
<1>3. LoopGood(l, n, Saved, resumes) /\ Kept(l.task) /\ l.pc = "stuck"
  BY <1>1, SentFacts
<1> HIDE DEF l
<1>4. /\ used' \in [Faults -> Nat] /\ \A g \in Faults : used'[g] <= Bound(g)
      /\ used'["pause"] = used["pause"] /\ used["refused"] <= used'["refused"]
  BY <1>1, FaultCounts, KindFacts
<1>5. /\ SyncInv' /\ Saved' = Saved /\ loop'[n] = l
      /\ \A m \in Terms \ {n} : loop'[m] = loop[m]
  BY <1>1, <1>2, <1>3, <1>4, MoveStep
<1> QED  BY <1>3, <1>5
-----------------------------------------------------------------------------

(* The leader changes. *)

LEMMA pauseInv ==
  ASSUME SharedChannelSyncAssumption, SyncInv, pause
  PROVE  SyncInv' /\ Saved' = Saved
<1>1. /\ SyncPosts /\ SyncCounts /\ SyncTasks /\ SyncLoops /\ active = TRUE
      /\ SyncFault("pause", 1) /\ active' = FALSE
      /\ UNCHANGED <<post, unsaid, cursor, online, got, gaveUp, tasks, signal, loop,
                     resumes>>
  BY DEF SyncInv, pause, SyncCounts
<1>2. SyncPosts' /\ Saved' = Saved
  BY <1>1, PostsStay
<1>3. /\ used' \in [Faults -> Nat] /\ \A g \in Faults : used'[g] <= Bound(g)
      /\ used'["pause"] = used["pause"] + 1 /\ used'["refused"] = used["refused"]
  BY <1>1, FaultFacts, KindFacts
<1>4. SyncCounts'
  <2>1. resumes = used["pause"] + 1
    BY <1>1 DEF SyncCounts
  <2> QED  BY <1>1, <1>3, <2>1 DEF SyncCounts
<1>5. SyncTasks' /\ SyncLoops'
  BY <1>1, <1>2, <1>3, CountsFacts, KindFacts, TasksStay, LoopsStay
<1> QED  BY <1>2, <1>4, <1>5 DEF SyncInv

LEMMA resumeInv ==
  ASSUME SharedChannelSyncAssumption, SyncInv, resume
  PROVE  /\ SyncInv' /\ Saved' = Saved /\ resumes + 1 \in Terms
         /\ \A m \in Terms \ {resumes + 1} : loop'[m] = loop[m]
         /\ loop'[resumes + 1].pc = "idle" /\ loop[resumes + 1].todo = {}
         /\ loop[resumes + 1].pc = "none"
<1> DEFINE k == resumes + 1
           l == Blank("idle", TRUE)
<1>1. /\ SyncPosts /\ SyncCounts /\ SyncTasks /\ SyncLoops /\ active = FALSE
      /\ active' = TRUE /\ resumes' = k /\ loop' = [loop EXCEPT ![k] = l]
      /\ UNCHANGED <<post, unsaid, cursor, online, got, gaveUp, tasks, signal, used>>
  BY DEF SyncInv, resume, SyncCounts, Blank
<1>2. SyncPosts' /\ Saved' = Saved
  BY <1>1, PostsStay
<1>3. /\ resumes \in Nat /\ resumes = used["pause"] /\ used["pause"] <= MaxResumes - 1
      /\ MaxResumes \in Nat
  BY <1>1, CountsFacts, BoundFacts, KindFacts DEF SyncCounts, SharedChannelSyncAssumption
<1>4. k \in Terms /\ k \in Nat /\ resumes <= k /\ k > resumes /\ ~(k > k)
  BY <1>3 DEF Terms
<1>5. SyncCounts'
  BY <1>1, <1>3, <1>4 DEF SyncCounts
<1>6. LoopGood(l, k, Saved, k) /\ Kept(l.task) /\ l.pc = "idle"
  BY <1>4, BlankFacts
<1>7. loop[k].pc = "none" /\ loop[k].todo = {}
  BY <1>1, <1>4 DEF SyncLoops, LoopGood
<1> HIDE DEF l, k
<1>8. SyncLoops' /\ loop'[k] = l /\ \A m \in Terms \ {k} : loop'[m] = loop[m]
  BY <1>1, <1>2, <1>3, <1>4, <1>6, LoopsStep
<1>9. /\ \A t \in Elems(tasks') : Kept(t)
      /\ \A m \in Terms : Kept(loop'[m].task)
  BY <1>1, <1>6, <1>8, KeptInUse, InUseFacts
<1>10. tasks' \in Seq(Task) /\ UniqueIds(tasks')
  BY <1>1 DEF SyncTasks
<1>11. used["refused"] \in Nat /\ used'["refused"] \in Nat /\ used["refused"] <= used'["refused"]
  BY <1>1, CountsFacts, KindFacts
<1>12. SyncTasks'
  BY <1>1, <1>2, <1>9, <1>10, <1>11, TasksStep
<1> QED  BY <1>2, <1>4, <1>5, <1>6, <1>7, <1>8, <1>12 DEF SyncInv, k

LEMMA InitSyncInv ==
  ASSUME SharedChannelSyncAssumption, SyncInit
  PROVE  SyncInv /\ Saved = {} /\ \A n \in Terms : loop[n].pc # "sending"
<1>1. Saved = {}
  BY DEF SyncInit, Saved
<1>2. /\ MaxResumes \in Nat \ {0} /\ MaxPosts \in Nat /\ 1 \in Terms
      /\ \A n \in Terms : n > 1 <=> n # 1
  BY DEF SharedChannelSyncAssumption, Terms
<1>3. SyncPosts
  <2>1. post = <<>> /\ unsaid = {} /\ 0 \in 0 .. MaxPosts
    BY <1>2 DEF SyncInit
  <2>2. post \in Seq(PostRec) /\ Len(post) <= MaxPosts
    BY <1>2, <2>1
  <2> QED  BY <1>1, <2>1, <2>2 DEF SyncInit, SyncPosts
<1>4. SyncCounts
  <2>1. used = [f \in Faults |-> 0] /\ active = TRUE /\ resumes = 1 /\ signal = FALSE
    BY DEF SyncInit
  <2>2. used["pause"] = 0 /\ used \in [Faults -> Nat]
    BY <2>1, KindFacts
  <2>3. \A f \in Faults : used[f] <= Bound(f)
    BY <2>1, BoundFacts
  <2>4. signal \in BOOLEAN /\ active \in BOOLEAN
    BY <2>1
  <2>5. resumes = IF active THEN used["pause"] + 1 ELSE used["pause"]
    BY <2>1, <2>2
  <2>6. resumes \in Terms
    BY <1>2, <2>1
  <2> QED  BY <2>2, <2>3, <2>4, <2>5, <2>6 DEF SyncCounts
<1> DEFINE a == Blank("none", FALSE)
           b == Blank("idle", TRUE)
<1>5. NoLoop = a
  <2>1. PICK f : f = FALSE
    OBVIOUS
  <2> DEFINE N == [pc |-> "none", timer |-> f, task |-> newSyncTask(All, 0, 0),
                   todo |-> {}, remote |-> All, posts |-> {}, next |-> 0, repeat |-> f]
  <2>2. NoLoop = N
    BY <2>1 DEF NoLoop
  <2> DEFINE m == [N EXCEPT !.pc = "none"]
  <2>3. m = N
    OBVIOUS
  <2>4. [N EXCEPT !.pc = "none", !.timer = f] = [m EXCEPT !.timer = f]
    OBVIOUS
  <2> HIDE DEF m
  <2>5. [m EXCEPT !.timer = f] = m
    BY <2>3
  <2> HIDE DEF N
  <2> QED  BY <2>1, <2>2, <2>3, <2>4, <2>5 DEF Blank
<1>6. loop = [n \in Terms |-> IF n = 1 THEN b ELSE a]
  BY <1>5 DEF SyncInit, Blank
<1>7. \A n \in Terms : LoopGood(IF n = 1 THEN b ELSE a, n, Saved, 1)
  <2>0. ~(1 > 1) /\ TRUE \in BOOLEAN /\ FALSE \in BOOLEAN
    OBVIOUS
  <2>1. LoopGood(b, 1, Saved, 1)
    BY <2>0, BlankFacts, Zenon
  <2>2. \A n : LoopGood(a, n, Saved, 1)
    BY <2>0, BlankFacts, Zenon
  <2> QED  BY <2>1, <2>2
<1>8. a.pc = "none" /\ b.pc = "idle"
  <2>0. TRUE \in BOOLEAN /\ FALSE \in BOOLEAN /\ ~(1 > 1)
    OBVIOUS
  <2> QED  BY <2>0, BlankFacts, Zenon
<1>9. a.task = newSyncTask(All, 0, 0) /\ b.task = newSyncTask(All, 0, 0)
  BY DEF Blank, NoLoop
<1> HIDE DEF a, b
<1>10. \A n \in Terms : LoopGood(loop[n], n, Saved, 1) /\ loop[n].pc # "sending"
  BY <1>6, <1>7, <1>8
<1>11. SyncLoops
  <2>1. \A n \in Terms : loop[n] \in Loop
    BY <1>10 DEF LoopGood
  <2>2. loop \in [Terms -> Loop]
    BY <1>6, <2>1
  <2> QED  BY <1>10, <2>2 DEF SyncLoops, SyncInit
<1>12. SyncTasks
  <2> DEFINE t == newSyncTask(All, 0, 0)
  <2>1. t \in Task /\ t.post = 0 /\ t.id[2] = 0
    <3>1. 0 \in 0 .. MaxPosts /\ 0 \in 0 .. MaxRefused
      BY DEF SharedChannelSyncAssumption
    <3> QED  BY <3>1, NewTaskFacts
  <2>2. tasks = <<>> /\ used["refused"] = 0
    BY KindFacts DEF SyncInit
  <2>3. \A n \in Terms : loop[n].task = t
    BY <1>6, <1>9
  <2> HIDE DEF t
  <2>4. Elems(tasks) = {} /\ tasks \in Seq(Task) /\ UniqueIds(tasks)
    BY <2>2 DEF Elems, UniqueIds
  <2>5. \A u \in InUse : u = t
    BY <2>3, <2>4 DEF InUse, Hands
  <2>6. GoodTask(t, Saved, used["refused"])
    BY <2>1, <2>2 DEF GoodTask
  <2> QED  BY <2>4, <2>5, <2>6 DEF SyncTasks, Coherent
<1> QED  BY <1>1, <1>3, <1>4, <1>10, <1>11, <1>12 DEF SyncInv

LEMMA NextSyncInv ==
  ASSUME SharedChannelSyncAssumption, SyncInv, [SyncNext]_syncVars
  PROVE  SyncInv'
<1>1. ASSUME NEW n \in Terms, Work(n) PROVE SyncInv'
  <2>1. CASE Wake(n) \/ Leave(n) \/ DoSyncEnds(n) \/ ProcessTask(n) \/ ProcessTaskFails(n)
    BY <2>1, WakeInv, LeaveInv, DoSyncEndsInv, ProcessTaskInv, ProcessTaskFailsInv
  <2>2. CASE ProcessTaskEnds(n) \/ Answered(n) \/ Unanswered(n) \/ RefusedUnread(n)
    BY <2>2, ProcessTaskEndsInv, AnsweredInv, UnansweredInv, RefusedUnreadInv
  <2>3. CASE CursorFails(n) \/ SendMsgFull(n)
    BY <2>3, CursorFailsInv, SendMsgFullInv
  <2>4. CASE \E r \in Remotes : \/ SyncForRemoteFails(n, r) \/ ResendPost(n, r)
                                \/ FetchPosts(n, r) \/ NothingToSend(n, r)
    BY <2>4, SyncForRemoteFailsInv, ResendPostInv, FetchPostsInv, NothingToSendInv
  <2> QED  BY <1>1, <2>1, <2>2, <2>3, <2>4 DEF Work
<1>2. CASE PreSave \/ pause \/ resume
  BY <1>2, PreSaveInv, pauseInv, resumeInv
<1>3. CASE \E p \in 1 .. MaxPosts : SavePost(p) \/ NotifyChannelChanged(p)
  BY <1>3, SavePostInv, NotifyChannelChangedInv
<1>4. CASE \E r \in Remotes : Offline(r) \/ BackOnline(r)
  BY <1>4, OfflineInv, BackOnlineInv
<1>5. CASE \E i \in DOMAIN tasks : Mature(i)
  BY <1>5, MatureInv
<1>6. CASE UNCHANGED syncVars
  BY <1>6 DEF syncVars, SyncInv, SyncPosts, SyncCounts, SyncTasks, SyncLoops, Saved,
              InUse, Hands
<1> QED  BY <1>1, <1>2, <1>3, <1>4, <1>5, <1>6 DEF SyncNext

(* The invariant of the sync, for every number of remotes, posts and terms: *)
(* everything is of its type; a task that repeats a post is for the remote  *)
(* that refused it, tasks with one id repeat one post, and what is sent and *)
(* what the cursors point at is saved (sync_send.go, sync_send_remote.go).  *)
THEOREM SyncInvariant ==
  ASSUME SharedChannelSyncAssumption
  PROVE  SyncSpec => []SyncInv
<1>1. SyncInit => SyncInv
  BY InitSyncInv
<1>2. SyncInv /\ [SyncNext]_syncVars => SyncInv'
  BY NextSyncInv
<1> QED  BY <1>1, <1>2, PTL DEF SyncSpec

(* The tasks, the cursors and what the goroutines hold are of their type,   *)
(* no two tasks in the map have one id, and no message is larger than a     *)
(* batch (sync_send.go, sync_send_remote.go).                               *)
THEOREM SyncTyped ==
  ASSUME SharedChannelSyncAssumption
  PROVE  SyncSpec => []SyncTypeOK
<1>1. SyncInv => SyncTypeOK
  BY SyncInvTypes
<1> QED  BY <1>1, SyncInvariant, PTL
-----------------------------------------------------------------------------

(* The cursor. *)

(* Refusals have not met messages that are lost. *)
Calm == used["refused"] = 0 \/ (used["lost"] = 0 /\ used["full"] = 0)

(* Remote r has post p, or will be sent it again, or needs it not. *)
Covered(p, r) ==
  p \in got[r] \cup gaveUp[r] \/ post[p].from = r \/ Pending(p, r)

Prefix == \A p \in Saved : \A q \in 1 .. p - 1 : q \in Saved

(* What the cursor of a remote passes is covered, and so is what it will    *)
(* pass when the message that is being sent is answered, but for the posts  *)
(* in that message.                                                         *)
CursorInv ==
  /\ Prefix
  /\ Calm => \A r \in Remotes, p \in Saved : p <= cursor[r] => Covered(p, r)
  /\ Calm => \A n \in Terms, r \in Remotes, p \in Saved :
       loop[n].pc = "sending" /\ loop[n].remote = r /\ p <= loop[n].next =>
         Covered(p, r) \/ (loop[n].task.post = 0 /\ p \in loop[n].posts)

Holding(l, p, r) ==
  l.task.post = p /\ (r \in l.todo \/ (l.pc = "sending" /\ l.remote = r))

(* After the step post p is covered for r by what goroutine n did. *)
CoveredBy(n, p, r) ==
  \/ \E u \in Elems(tasks') : u.post = p /\ u.remote = r
  \/ Holding(loop'[n], p, r)
  \/ p \in got'[r] \cup gaveUp'[r]

LEMMA CoverStays ==
  ASSUME NEW n \in Terms, \A m \in Terms \ {n} : loop'[m] = loop[m],
         \A r \in Remotes : got[r] \subseteq got'[r] /\ gaveUp[r] \subseteq gaveUp'[r],
         \A p \in Saved : post'[p].from = post[p].from,
         \A p \in Saved, r \in Remotes : \A t \in Elems(tasks) :
           t.post = p /\ t.remote = r => CoveredBy(n, p, r),
         \A p \in Saved, r \in Remotes : Holding(loop[n], p, r) => CoveredBy(n, p, r)
  PROVE  \A r \in Remotes, p \in Saved : Covered(p, r) => Covered(p, r)'
<1>1. SUFFICES ASSUME NEW r \in Remotes, NEW p \in Saved, Covered(p, r)
               PROVE  Covered(p, r)'
  OBVIOUS
<1>2. ASSUME CoveredBy(n, p, r) PROVE Covered(p, r)'
  <2>1. CASE \E u \in Elems(tasks') : u.post = p /\ u.remote = r
    BY <2>1 DEF Covered, Pending, Elems
  <2>2. CASE Holding(loop'[n], p, r)
    BY <2>2 DEF Covered, Pending, Holding
  <2>3. CASE p \in got'[r] \cup gaveUp'[r]
    BY <2>3 DEF Covered
  <2> QED  BY <1>2, <2>1, <2>2, <2>3 DEF CoveredBy
<1>3. CASE p \in got[r] \cup gaveUp[r] \/ post[p].from = r
  BY <1>3 DEF Covered
<1>4. CASE \E i \in DOMAIN tasks : tasks[i].post = p /\ tasks[i].remote = r
  <2>1. \E t \in Elems(tasks) : t.post = p /\ t.remote = r
    BY <1>4 DEF Elems
  <2> QED  BY <1>2, <2>1
<1>5. ASSUME NEW m \in Terms, Holding(loop[m], p, r) PROVE Covered(p, r)'
  <2>1. CASE m = n
    BY <1>2, <1>5, <2>1
  <2>2. CASE m # n
    <3>1. Holding(loop'[m], p, r)
      BY <1>5, <2>2
    <3> QED  BY <3>1 DEF Covered, Pending, Holding
  <2> QED  BY <2>1, <2>2
<1> QED  BY <1>1, <1>3, <1>4, <1>5 DEF Covered, Pending, Holding

LEMMA CalmStays ==
  ASSUME SharedChannelSyncAssumption, SyncInv, SyncInv',
         \A g \in Faults : used[g] <= used'[g], Calm'
  PROVE  Calm
<1>1. \A g \in Faults : used[g] \in Nat /\ used'[g] \in Nat
  BY DEF SyncInv, SyncCounts
<1> QED  BY <1>1, KindFacts DEF Calm

LEMMA CursorStep ==
  ASSUME SharedChannelSyncAssumption, SyncInv, SyncInv', CursorInv, Saved' = Saved,
         NEW n \in Terms, \A m \in Terms \ {n} : loop'[m] = loop[m],
         \A g \in Faults : used[g] <= used'[g],
         Calm' => \A r \in Remotes, p \in Saved : Covered(p, r) => Covered(p, r)',
         Calm' => \A r \in Remotes, p \in Saved :
           p <= cursor'[r] => p <= cursor[r] \/ Covered(p, r)',
         Calm' => \A r \in Remotes, p \in Saved :
           loop'[n].pc = "sending" /\ loop'[n].remote = r /\ p <= loop'[n].next =>
             Covered(p, r)' \/ (loop'[n].task.post = 0 /\ p \in loop'[n].posts)
  PROVE  CursorInv'
<1>1. Calm' => Calm
  BY CalmStays
<1>2. Prefix'
  BY DEF Prefix, CursorInv
<1>3. ASSUME Calm', NEW r \in Remotes, NEW p \in Saved, p <= cursor'[r]
      PROVE  Covered(p, r)'
  BY <1>1, <1>3 DEF CursorInv
<1>4. ASSUME Calm', NEW m \in Terms, NEW r \in Remotes, NEW p \in Saved,
             loop'[m].pc = "sending", loop'[m].remote = r, p <= loop'[m].next
      PROVE  Covered(p, r)' \/ (loop'[m].task.post = 0 /\ p \in loop'[m].posts)
  <2>1. CASE m = n
    BY <1>4, <2>1
  <2>2. CASE m # n
    <3>1. loop'[m] = loop[m]
      BY <2>2
    <3>2. Covered(p, r) \/ (loop[m].task.post = 0 /\ p \in loop[m].posts)
      BY <1>1, <1>4, <3>1 DEF CursorInv
    <3> QED  BY <1>4, <3>1, <3>2
  <2> QED  BY <2>1, <2>2
<1> QED  BY <1>2, <1>3, <1>4 DEF CursorInv

(* A step that sends nothing and moves no cursor. *)
LEMMA CursorQuiet ==
  ASSUME SharedChannelSyncAssumption, SyncInv, SyncInv', CursorInv, Saved' = Saved,
         NEW n \in Terms, \A m \in Terms \ {n} : loop'[m] = loop[m],
         UNCHANGED <<cursor, got>>, \A r \in Remotes : gaveUp[r] \subseteq gaveUp'[r],
         \A g \in Faults : used[g] <= used'[g],
         \A p \in Saved : post'[p].from = post[p].from,
         \A p \in Saved, r \in Remotes : \A t \in Elems(tasks) :
           t.post = p /\ t.remote = r => CoveredBy(n, p, r),
         \A p \in Saved, r \in Remotes : Holding(loop[n], p, r) => CoveredBy(n, p, r),
         loop'[n].pc # "sending" \/ loop'[n] = loop[n]
  PROVE  CursorInv'
<1>1. \A r \in Remotes, p \in Saved : Covered(p, r) => Covered(p, r)'
  BY CoverStays
<1>2. Calm' => Calm
  BY CalmStays
<1>3. ASSUME Calm', NEW r \in Remotes, NEW p \in Saved,
             loop'[n].pc = "sending", loop'[n].remote = r, p <= loop'[n].next
      PROVE  Covered(p, r)' \/ (loop'[n].task.post = 0 /\ p \in loop'[n].posts)
  BY <1>1, <1>2, <1>3 DEF CursorInv
<1>4. \A r \in Remotes, p \in Saved : p <= cursor'[r] => p <= cursor[r] \/ Covered(p, r)'
  OBVIOUS
<1> QED  BY <1>1, <1>3, <1>4, CursorStep

(* What the tasks held covers as long as none is dropped. *)
LEMMA TasksCover ==
  ASSUME NEW n, Elems(tasks) \subseteq Elems(tasks')
  PROVE  \A p \in Saved, r \in Remotes : \A t \in Elems(tasks) :
           t.post = p /\ t.remote = r => CoveredBy(n, p, r)
  BY DEF CoveredBy

LEMMA SameUsed ==
  ASSUME SharedChannelSyncAssumption, SyncInv, UNCHANGED used
  PROVE  \A g \in Faults : used[g] <= used'[g]
<1>1. \A g \in Faults : used[g] \in Nat
  BY CountsFacts DEF SyncInv
<1> QED  BY <1>1

LEMMA FaultUsed ==
  ASSUME SharedChannelSyncAssumption, SyncInv, NEW f \in Faults, NEW k \in Nat,
         SyncFault(f, k)
  PROVE  \A g \in Faults : used[g] <= used'[g]
  BY FaultFacts DEF SyncInv

(* No post is resent before one is refused. *)
LEMMA NoRetries ==
  ASSUME SharedChannelSyncAssumption, SyncInv, used["refused"] = 0
  PROVE  /\ \A p \in Saved : \A t \in InUse : t.post # p
         /\ \A p \in Saved, r \in Remotes, n \in Terms : ~Holding(loop[n], p, r)
<1>1. \A p \in Saved : p \in 1 .. MaxPosts
  BY SavedFacts DEF SyncInv
<1>2. MaxPosts \in Nat /\ \A p \in Saved : p # 0
  BY <1>1 DEF SharedChannelSyncAssumption
<1>3. ASSUME NEW t \in InUse PROVE t.post = 0
  <2>1. GoodTask(t, Saved, 0)
    BY DEF SyncInv, SyncTasks
  <2>2. t.id[2] \in Nat
    BY <2>1, TaskFacts DEF GoodTask, SharedChannelSyncAssumption
  <2>3. t.id[2] <= 0
    BY <2>1 DEF GoodTask
  <2>4. t.id[2] = 0
    BY <2>2, <2>3
  <2> QED  BY <2>1, <2>4 DEF GoodTask
<1> QED  BY <1>2, <1>3, InUseFacts DEF Holding

(* Tasks with one id that repeat a post are for one remote. *)
LEMMA SameTask ==
  ASSUME SyncTasks, NEW t \in InUse, NEW u \in InUse, t.id = u.id, t.post # 0
  PROVE  u.post = t.post /\ u.remote = t.remote
<1>1. u.post = t.post
  BY DEF SyncTasks, Coherent
<1> QED  BY <1>1 DEF SyncTasks, GoodTask

(* After an error the post is in the map or given up. *)
LEMMA RetryCovers ==
  ASSUME SharedChannelSyncAssumption, SyncTasks, NEW ts \in Seq(Task), UniqueIds(ts),
         Elems(ts) \subseteq Elems(tasks), NEW t \in Task, NEW u \in InUse,
         t.id = u.id, t.post = u.post, t.remote = u.remote, t.post # 0
  PROVE  \/ t.retries = MaxRetries
         \/ \E v \in Elems(Retry(ts, t)) : v.post = t.post /\ v.remote = t.remote
<1>1. CASE t.retries < MaxRetries
  <2>1. PICK v \in Elems(Retry(ts, t)) : v.id = t.id
    BY <1>1, RetryFacts
  <2>2. \/ v \in Elems(ts)
        \/ v.post = t.post /\ v.remote = t.remote
    BY RetryFacts
  <2>3. CASE v \in Elems(ts)
    <3>1. v \in InUse
      BY <2>3, InUseFacts
    <3> QED  BY <2>1, <3>1, SameTask
  <2> QED  BY <2>2, <2>3
<1>2. CASE ~(t.retries < MaxRetries)
  <2>1. t.retries \in 0 .. MaxRetries /\ MaxRetries \in Nat
    BY TaskFacts DEF SharedChannelSyncAssumption
  <2> QED  BY <1>2, <2>1
<1> QED  BY <1>1, <1>2
-----------------------------------------------------------------------------

(* Each step keeps what the cursors pass covered. *)

(* A step that leaves the goroutines alone, and drops no task. *)
LEMMA CursorLoopStays ==
  ASSUME SharedChannelSyncAssumption, SyncInv, SyncInv', CursorInv, Saved' = Saved,
         UNCHANGED <<cursor, got, gaveUp, loop>>, \A g \in Faults : used[g] <= used'[g],
         \A p \in Saved : post'[p].from = post[p].from,
         \A t \in Elems(tasks) : \E u \in Elems(tasks') :
           u.post = t.post /\ u.remote = t.remote
  PROVE  CursorInv'
<1>1. 1 \in Terms
  BY DEF SharedChannelSyncAssumption, Terms
<1>2. \A p \in Saved, r \in Remotes : \A t \in Elems(tasks) :
        t.post = p /\ t.remote = r => CoveredBy(1, p, r)
  BY DEF CoveredBy
<1>3. \A p \in Saved, r \in Remotes : Holding(loop[1], p, r) => CoveredBy(1, p, r)
  BY DEF CoveredBy
<1> QED  BY <1>1, <1>2, <1>3, CursorQuiet

LEMMA PreSaveCursor ==
  ASSUME SharedChannelSyncAssumption, SyncInv, CursorInv, PreSave
  PROVE  CursorInv'
<1>1. SyncInv' /\ Saved' = Saved
  BY PreSaveInv
<1>2. UNCHANGED <<cursor, got, gaveUp, loop, tasks, used>>
  BY DEF PreSave
<1>3. \A p \in Saved : post'[p].from = post[p].from
  <2>1. post \in Seq(PostRec) /\ Saved \subseteq DOMAIN post
    BY SavedFacts DEF SyncInv, SyncPosts
  <2>2. PICK x : post' = Append(post, x)
    BY DEF PreSave
  <2>3. \A p \in DOMAIN post : post'[p] = post[p]
    BY <2>1, <2>2
  <2> QED  BY <2>1, <2>3
<1> QED  BY <1>1, <1>2, <1>3, SameUsed, CursorLoopStays

(* A post that is saved in its turn comes after all that are saved. *)
LEMMA SavePostCursor ==
  ASSUME SharedChannelSyncAssumption, SyncInv, CursorInv, InOrder, NEW p, SavePost(p)
  PROVE  CursorInv'
<1>1. /\ SyncInv' /\ Saved' = Saved \cup {p} /\ p \in DOMAIN post \ Saved
      /\ \A q \in DOMAIN post : post'[q].from = post[q].from
  BY SavePostInv
<1>2. /\ UNCHANGED <<cursor, got, gaveUp, loop, tasks, used>>
      /\ \A q \in 1 .. p - 1 : q \in Saved
  BY DEF SavePost
<1>3. /\ Saved \subseteq 1 .. MaxPosts /\ DOMAIN post = 1 .. Len(post) /\ p \in Nat
      /\ Saved \subseteq DOMAIN post /\ MaxPosts \in Nat
  <2>1. SyncPosts /\ post \in Seq(PostRec)
    BY DEF SyncInv, SyncPosts
  <2> QED  BY <1>1, <2>1, SavedFacts DEF SharedChannelSyncAssumption
<1>4. \A q \in Saved : q \in Nat /\ q # 0 /\ q < p
  <2>1. ASSUME NEW q \in Saved, ~(q < p) PROVE FALSE
    <3>1. q \in Nat /\ p \in 1 .. q - 1
      <4>1. q \in 1 .. MaxPosts /\ p \in 1 .. Len(post) /\ p # q
        BY <1>1, <1>3
      <4> QED  BY <1>3, <2>1, <4>1
    <3>2. p \in Saved
      BY <3>1 DEF CursorInv, Prefix
    <3> QED  BY <1>1, <3>2
  <2> QED  BY <1>3, <2>1
<1>10. 0 < p
  BY <1>1, <1>3
<1>5. Prefix'
  BY <1>1, <1>2 DEF CursorInv, Prefix
<1>6. Calm' => Calm
  BY <1>2 DEF Calm
<1>7. \A r \in Remotes, q \in Saved : Covered(q, r) => Covered(q, r)'
  BY <1>1, <1>2, <1>3 DEF Covered, Pending
<1>8. ASSUME Calm', NEW r \in Remotes, NEW q \in Saved', q <= cursor'[r]
      PROVE  Covered(q, r)'
  <2>1. cursor[r] \in Saved \cup {0}
    BY DEF SyncInv, SyncPosts
  <2>2. cursor[r] \in Nat /\ cursor[r] < p
    BY <1>4, <1>10, <2>1
  <2>3. q # p
    BY <1>2, <1>3, <1>8, <2>2
  <2> QED  BY <1>1, <1>2, <1>6, <1>7, <1>8, <2>3 DEF CursorInv
<1>9. ASSUME Calm', NEW m \in Terms, NEW r \in Remotes, NEW q \in Saved',
             loop'[m].pc = "sending", loop'[m].remote = r, q <= loop'[m].next
      PROVE  Covered(q, r)' \/ (loop'[m].task.post = 0 /\ q \in loop'[m].posts)
  <2>1. loop[m].next \in Saved \cup {0}
    BY <1>2, <1>9, SendingFacts
  <2>2. loop[m].next \in Nat /\ loop[m].next < p
    BY <1>4, <1>10, <2>1
  <2>3. q # p
    BY <1>2, <1>3, <1>9, <2>2
  <2> QED  BY <1>1, <1>2, <1>6, <1>7, <1>9, <2>3 DEF CursorInv
<1> QED  BY <1>5, <1>8, <1>9 DEF CursorInv

LEMMA NotifyCursor ==
  ASSUME SharedChannelSyncAssumption, SyncInv, CursorInv, NEW p, NotifyChannelChanged(p)
  PROVE  CursorInv'
<1>1. SyncInv' /\ Elems(tasks) \subseteq Elems(tasks')
  BY NotifyChannelChangedInv
<1>2. UNCHANGED <<cursor, got, gaveUp, loop, post, used>>
  BY DEF NotifyChannelChanged
<1>3. Saved' = Saved /\ \A q \in Saved : post'[q].from = post[q].from
  BY <1>2 DEF Saved
<1> QED  BY <1>1, <1>2, <1>3, SameUsed, CursorLoopStays

LEMMA OfflineCursor ==
  ASSUME SharedChannelSyncAssumption, SyncInv, CursorInv, NEW r \in Remotes, Offline(r)
  PROVE  CursorInv'
<1>1. SyncInv'
  BY OfflineInv
<1>2. UNCHANGED <<cursor, got, gaveUp, loop, post, tasks>> /\ SyncFault("offline", 1)
  BY DEF Offline
<1>3. Saved' = Saved /\ \A q \in Saved : post'[q].from = post[q].from
  BY <1>2 DEF Saved
<1> QED  BY <1>1, <1>2, <1>3, FaultUsed, KindFacts, CursorLoopStays

LEMMA BackOnlineCursor ==
  ASSUME SharedChannelSyncAssumption, SyncInv, CursorInv, NEW r \in Remotes, BackOnline(r)
  PROVE  CursorInv'
<1>1. SyncInv' /\ Elems(tasks) \subseteq Elems(tasks')
  BY BackOnlineInv
<1>2. UNCHANGED <<cursor, got, gaveUp, loop, post, used>>
  BY DEF BackOnline
<1>3. Saved' = Saved /\ \A q \in Saved : post'[q].from = post[q].from
  BY <1>2 DEF Saved
<1> QED  BY <1>1, <1>2, <1>3, SameUsed, CursorLoopStays

LEMMA MatureCursor ==
  ASSUME SharedChannelSyncAssumption, SyncInv, CursorInv, NEW i, Mature(i)
  PROVE  CursorInv'
<1>1. /\ SyncInv' /\ DOMAIN tasks' = DOMAIN tasks
      /\ \A j \in DOMAIN tasks : /\ tasks'[j].post = tasks[j].post
                                 /\ tasks'[j].remote = tasks[j].remote
  BY MatureInv
<1>2. UNCHANGED <<cursor, got, gaveUp, loop, post, used>>
  BY DEF Mature
<1>3. Saved' = Saved /\ \A q \in Saved : post'[q].from = post[q].from
  BY <1>2 DEF Saved
<1>4. \A t \in Elems(tasks) : \E u \in Elems(tasks') :
        u.post = t.post /\ u.remote = t.remote
  BY <1>1 DEF Elems
<1> QED  BY <1>1, <1>2, <1>3, <1>4, SameUsed, CursorLoopStays

LEMMA pauseCursor ==
  ASSUME SharedChannelSyncAssumption, SyncInv, CursorInv, pause
  PROVE  CursorInv'
<1>1. SyncInv' /\ Saved' = Saved
  BY pauseInv
<1>2. UNCHANGED <<cursor, got, gaveUp, loop, post, tasks>> /\ SyncFault("pause", 1)
  BY DEF pause
<1>3. \A q \in Saved : post'[q].from = post[q].from
  BY <1>2
<1> QED  BY <1>1, <1>2, <1>3, FaultUsed, KindFacts, CursorLoopStays

(* Goroutine n holds nothing and takes nothing. *)
LEMMA CursorIdle ==
  ASSUME SharedChannelSyncAssumption, SyncInv, SyncInv', CursorInv, Saved' = Saved,
         NEW n \in Terms, \A m \in Terms \ {n} : loop'[m] = loop[m],
         UNCHANGED <<post, cursor, got, gaveUp, tasks, used>>,
         loop[n].todo = {}, loop[n].pc # "sending", loop'[n].pc # "sending"
  PROVE  CursorInv'
<1>1. \A p \in Saved, r \in Remotes : Holding(loop[n], p, r) => CoveredBy(n, p, r)
  BY DEF Holding
<1>2. \A p \in Saved, r \in Remotes : \A t \in Elems(tasks) :
        t.post = p /\ t.remote = r => CoveredBy(n, p, r)
  BY TasksCover
<1>3. \A g \in Faults : used[g] <= used'[g]
  BY SameUsed
<1>4. \A p \in Saved : post'[p].from = post[p].from
  OBVIOUS
<1> QED  BY <1>1, <1>2, <1>3, <1>4, CursorQuiet

LEMMA IdleCursor ==
  ASSUME SharedChannelSyncAssumption, SyncInv, CursorInv, NEW n \in Terms,
         Wake(n) \/ Leave(n) \/ DoSyncEnds(n) \/ ProcessTaskEnds(n)
  PROVE  CursorInv'
<1>1. /\ SyncInv' /\ Saved' = Saved /\ loop[n].todo = {} /\ loop[n].pc # "sending"
      /\ loop'[n].pc # "sending" /\ \A m \in Terms \ {n} : loop'[m] = loop[m]
  <2>1. CASE Wake(n)
    BY <2>1, WakeInv
  <2>2. CASE Leave(n)
    BY <2>2, LeaveInv
  <2>3. CASE DoSyncEnds(n)
    BY <2>3, DoSyncEndsInv
  <2>4. CASE ProcessTaskEnds(n)
    BY <2>4, ProcessTaskEndsInv
  <2> QED  BY <2>1, <2>2, <2>3, <2>4
<1>2. UNCHANGED <<post, cursor, got, gaveUp, tasks, used>>
  BY DEF Wake, Leave, DoSyncEnds, ProcessTaskEnds
<1> QED  BY <1>1, <1>2, CursorIdle

LEMMA resumeCursor ==
  ASSUME SharedChannelSyncAssumption, SyncInv, CursorInv, resume
  PROVE  CursorInv'
<1> DEFINE n == resumes + 1
<1>1. /\ SyncInv' /\ Saved' = Saved /\ n \in Terms
      /\ \A m \in Terms \ {n} : loop'[m] = loop[m]
      /\ loop'[n].pc # "sending" /\ loop[n].todo = {} /\ loop[n].pc # "sending"
  BY resumeInv
<1>2. UNCHANGED <<post, cursor, got, gaveUp, tasks, used>>
  BY DEF resume
<1> HIDE DEF n
<1> QED  BY <1>1, <1>2, CursorIdle

LEMMA ProcessTaskCursor ==
  ASSUME SharedChannelSyncAssumption, SyncInv, CursorInv, NEW n \in Terms, ProcessTask(n)
  PROVE  CursorInv'
<1> DEFINE t == tasks[Oldest]
<1>1. /\ SyncInv' /\ Saved' = Saved /\ loop[n].todo = {} /\ loop[n].pc = "pick"
      /\ loop'[n].pc = "next" /\ \A m \in Terms \ {n} : loop'[m] = loop[m]
      /\ t.post # 0 => loop'[n].task = t /\ loop'[n].todo = {t.remote}
  BY ProcessTaskInv
<1>2. /\ UNCHANGED <<post, cursor, got, gaveUp, used>> /\ tasks' = Rest(Oldest)
      /\ SyncTasks /\ Ready # {} /\ SyncPosts
  BY DEF ProcessTask, SyncInv
<1>3. Elems(tasks) \subseteq Elems(tasks') \cup {t}
  BY <1>2, OldestFacts, RestFacts DEF SyncTasks
<1> HIDE DEF t
<1>4. 0 \notin Saved
  BY <1>2, SavedFacts DEF SharedChannelSyncAssumption
<1>5. \A p \in Saved, r \in Remotes : \A u \in Elems(tasks) :
        u.post = p /\ u.remote = r => CoveredBy(n, p, r)
  BY <1>1, <1>3, <1>4 DEF CoveredBy, Holding
<1>6. \A p \in Saved, r \in Remotes : Holding(loop[n], p, r) => CoveredBy(n, p, r)
  BY <1>1 DEF Holding
<1>7. \A g \in Faults : used[g] <= used'[g]
  BY <1>2, SameUsed
<1>8. \A p \in Saved : post'[p].from = post[p].from
  BY <1>2
<1> QED  BY <1>1, <1>2, <1>5, <1>6, <1>7, <1>8, CursorQuiet

LEMMA ProcessTaskFailsCursor ==
  ASSUME SharedChannelSyncAssumption, SyncInv, CursorInv, NEW n \in Terms,
         ProcessTaskFails(n)
  PROVE  CursorInv'
<1> DEFINE t == tasks[Oldest]
<1>1. SyncInv' /\ Saved' = Saved
  BY ProcessTaskFailsInv
<1>2. /\ SyncPosts /\ SyncTasks /\ Ready # {}
      /\ tasks' = Retry(Rest(Oldest), t) /\ gaveUp' = Abandoned(t, {t.remote})
      /\ SyncFault("store", 1) \/ UNCHANGED used
      /\ UNCHANGED <<post, cursor, got, loop>>
  BY DEF SyncInv, ProcessTaskFails
<1>3. Oldest \in DOMAIN tasks /\ t \in Task /\ t \in InUse
  BY <1>2, OldestFacts
<1> HIDE DEF t
<1>4. /\ Rest(Oldest) \in Seq(Task) /\ UniqueIds(Rest(Oldest))
      /\ Elems(Rest(Oldest)) \subseteq Elems(tasks)
      /\ Elems(tasks) \subseteq Elems(Rest(Oldest)) \cup {t}
  BY <1>2, <1>3, RestFacts DEF SyncTasks, t
<1>5. Elems(Rest(Oldest)) \subseteq Elems(tasks')
  BY <1>2, <1>3, <1>4, RetryFacts
<1>6. t.post \in Saved \cup {0}
  BY <1>2, <1>3 DEF SyncTasks, GoodTask
<1>7. /\ \A r \in Remotes : gaveUp[r] \subseteq gaveUp'[r]
      /\ \A r \in Remotes : t.post # 0 /\ t.retries = MaxRetries /\ r = t.remote
                              => t.post \in gaveUp'[r]
  BY <1>2, <1>6, AbandonedFacts
<1>8. t.post # 0 => \/ t.retries = MaxRetries
                    \/ \E v \in Elems(tasks') : v.post = t.post /\ v.remote = t.remote
  BY <1>2, <1>3, <1>4, RetryCovers
<1>9. 0 \notin Saved
  BY <1>2, SavedFacts DEF SharedChannelSyncAssumption
<1>10. \A p \in Saved, r \in Remotes : \A u \in Elems(tasks) :
         u.post = p /\ u.remote = r => CoveredBy(n, p, r)
  BY <1>4, <1>5, <1>7, <1>8, <1>9 DEF CoveredBy
<1>11. \A p \in Saved, r \in Remotes : Holding(loop[n], p, r) => CoveredBy(n, p, r)
  BY <1>2 DEF CoveredBy
<1>12. \A g \in Faults : used[g] <= used'[g]
  BY <1>2, SameUsed, FaultUsed, KindFacts
<1>13. \A p \in Saved : post'[p].from = post[p].from
  BY <1>2
<1> QED  BY <1>1, <1>2, <1>7, <1>10, <1>11, <1>12, <1>13, CursorQuiet

LEMMA SyncForRemoteFailsCursor ==
  ASSUME SharedChannelSyncAssumption, SyncInv, CursorInv, NEW n \in Terms,
         NEW r \in Remotes, SyncForRemoteFails(n, r)
  PROVE  CursorInv'
<1> DEFINE u == loop[n].task
           t == For(n, r)
<1>1. /\ SyncInv' /\ Saved' = Saved /\ \A m \in Terms \ {n} : loop'[m] = loop[m]
      /\ loop'[n].pc = "next"
  BY SyncForRemoteFailsInv
<1>2. /\ SyncPosts /\ SyncTasks /\ SyncLoops /\ tasks' = Retry(tasks, t)
      /\ gaveUp' = Abandoned(u, {r}) /\ SyncFault("store", 1)
      /\ r \in loop[n].todo /\ loop[n].pc = "next"
      /\ UNCHANGED <<post, cursor, got>>
  BY DEF SyncInv, SyncForRemoteFails
<1>3. LoopGood(loop[n], n, Saved, resumes) /\ GoodTask(u, Saved, used["refused"])
  BY <1>2, HandFacts
<1>4. u.post # 0 => r = u.remote /\ loop[n].todo \subseteq {r}
  BY <1>2, <1>3 DEF LoopGood
<1>5. /\ t \in Task /\ t.post = u.post /\ t.id = u.id /\ t.remote = r
      /\ t.retries = u.retries /\ u \in InUse
  BY <1>2, <1>4, ForKept, InUseFacts DEF Kept
<1>6. tasks \in Seq(Task) /\ UniqueIds(tasks) /\ u.post \in Saved \cup {0}
  BY <1>2, <1>3 DEF SyncTasks, GoodTask
<1> HIDE DEF t, u
<1>7. Elems(tasks) \subseteq Elems(tasks')
  BY <1>2, <1>5, <1>6, RetryFacts
<1>8. /\ \A q \in Remotes : gaveUp[q] \subseteq gaveUp'[q]
      /\ u.post # 0 /\ u.retries = MaxRetries => u.post \in gaveUp'[r]
  BY <1>2, <1>6, AbandonedFacts
<1>9. u.post # 0 => \/ u.retries = MaxRetries
                    \/ \E v \in Elems(tasks') : v.post = u.post /\ v.remote = r
  BY <1>2, <1>4, <1>5, <1>6, RetryCovers
<1>10. 0 \notin Saved
  BY <1>2, SavedFacts DEF SharedChannelSyncAssumption
<1>11. \A p \in Saved, q \in Remotes : Holding(loop[n], p, q) => CoveredBy(n, p, q)
  <2>1. SUFFICES ASSUME NEW p \in Saved, NEW q \in Remotes, Holding(loop[n], p, q)
                 PROVE  CoveredBy(n, p, q)
    OBVIOUS
  <2>2. u.post = p /\ q \in loop[n].todo
    BY <1>2, <2>1 DEF Holding, u
  <2>3. q = r /\ u.post # 0
    BY <1>4, <1>10, <2>2
  <2> QED  BY <1>8, <1>9, <2>2, <2>3 DEF CoveredBy
<1>12. \A p \in Saved, q \in Remotes : \A v \in Elems(tasks) :
         v.post = p /\ v.remote = q => CoveredBy(n, p, q)
  BY <1>7, TasksCover
<1>13. \A g \in Faults : used[g] <= used'[g]
  BY <1>2, FaultUsed, KindFacts
<1>14. \A p \in Saved : post'[p].from = post[p].from
  BY <1>2
<1> QED  BY <1>1, <1>2, <1>8, <1>11, <1>12, <1>13, <1>14, CursorQuiet

LEMMA ResendPostCursor ==
  ASSUME SharedChannelSyncAssumption, SyncInv, CursorInv, NEW n \in Terms,
         NEW r \in Remotes, ResendPost(n, r)
  PROVE  CursorInv'
<1>1. /\ SyncInv' /\ Saved' = Saved /\ \A m \in Terms \ {n} : loop'[m] = loop[m]
      /\ loop'[n].pc = "sending" /\ loop'[n].task = loop[n].task
      /\ loop'[n].remote = r /\ loop'[n].next = cursor[r]
      /\ loop'[n].todo = loop[n].todo \ {r} /\ loop[n].pc = "next"
  BY ResendPostInv
<1>2. UNCHANGED <<post, cursor, got, gaveUp, tasks, used>>
  BY DEF ResendPost
<1>3. \A p \in Saved, q \in Remotes : Holding(loop[n], p, q) => CoveredBy(n, p, q)
  BY <1>1 DEF Holding, CoveredBy
<1>4. \A p \in Saved, q \in Remotes : \A v \in Elems(tasks) :
         v.post = p /\ v.remote = q => CoveredBy(n, p, q)
  BY <1>2, TasksCover
<1>5. \A q \in Remotes, p \in Saved : Covered(p, q) => Covered(p, q)'
  BY <1>1, <1>2, <1>3, <1>4, CoverStays
<1>6. \A g \in Faults : used[g] <= used'[g]
  BY <1>2, SameUsed
<1>7. Calm' => Calm
  BY <1>2 DEF Calm
<1>8. ASSUME Calm', NEW p \in Saved, p <= cursor[r] PROVE Covered(p, r)'
  BY <1>5, <1>7, <1>8 DEF CursorInv
<1>9. ASSUME Calm', NEW q \in Remotes, NEW p \in Saved,
             loop'[n].pc = "sending", loop'[n].remote = q, p <= loop'[n].next
      PROVE  Covered(p, q)' \/ (loop'[n].task.post = 0 /\ p \in loop'[n].posts)
  BY <1>1, <1>8, <1>9
<1>10. \A q \in Remotes, p \in Saved : p <= cursor'[q] => p <= cursor[q] \/ Covered(p, q)'
  BY <1>2
<1> QED  BY <1>1, <1>5, <1>6, <1>9, <1>10, CursorStep

LEMMA FetchPostsCursor ==
  ASSUME SharedChannelSyncAssumption, SyncInv, CursorInv, NEW n \in Terms,
         NEW r \in Remotes, FetchPosts(n, r)
  PROVE  CursorInv'
<1>1. /\ SyncInv' /\ Saved' = Saved /\ \A m \in Terms \ {n} : loop'[m] = loop[m]
      /\ loop'[n].pc = "sending" /\ loop'[n].task = loop[n].task
      /\ loop'[n].remote = r /\ loop'[n].posts = Filtered(Since(r), r)
      /\ loop'[n].next = Last(Since(r), cursor[r])
  BY FetchPostsInv
<1>2. /\ UNCHANGED <<post, cursor, got, gaveUp, tasks, used>>
      /\ loop[n].task.post = 0 /\ SyncPosts
  BY DEF FetchPosts, SyncInv
<1>3. 0 \notin Saved /\ \A p \in Saved : p \in Nat
  BY <1>2, SavedFacts DEF SharedChannelSyncAssumption
<1>4. \A p \in Saved, q \in Remotes : Holding(loop[n], p, q) => CoveredBy(n, p, q)
  BY <1>2, <1>3 DEF Holding
<1>5. \A p \in Saved, q \in Remotes : \A v \in Elems(tasks) :
         v.post = p /\ v.remote = q => CoveredBy(n, p, q)
  BY <1>2, TasksCover
<1>6. \A q \in Remotes, p \in Saved : Covered(p, q) => Covered(p, q)'
  BY <1>1, <1>2, <1>4, <1>5, CoverStays
<1>7. Calm' => Calm
  BY <1>2 DEF Calm
<1>8. ASSUME Calm', NEW p \in Saved, p <= Last(Since(r), cursor[r])
      PROVE  Covered(p, r)' \/ p \in Filtered(Since(r), r)
  <2>1. cursor[r] \in Nat
    BY <1>2 DEF SyncPosts, SharedChannelSyncAssumption
  <2>2. CASE p <= cursor[r]
    BY <1>6, <1>7, <1>8, <2>2 DEF CursorInv
  <2>3. CASE ~(p <= cursor[r])
    <3>1. cursor[r] < p
      BY <1>3, <2>1, <2>3
    <3>2. p \in Since(r)
      BY <1>2, <1>8, <3>1, SinceFacts
    <3> QED  BY <1>2, <3>2 DEF Filtered, Covered
  <2> QED  BY <2>2, <2>3
<1>9. ASSUME Calm', NEW q \in Remotes, NEW p \in Saved,
             loop'[n].pc = "sending", loop'[n].remote = q, p <= loop'[n].next
      PROVE  Covered(p, q)' \/ (loop'[n].task.post = 0 /\ p \in loop'[n].posts)
  BY <1>1, <1>2, <1>8, <1>9
<1>10. \A q \in Remotes, p \in Saved : p <= cursor'[q] => p <= cursor[q] \/ Covered(p, q)'
  BY <1>2
<1>11. \A g \in Faults : used[g] <= used'[g]
  BY <1>2, SameUsed
<1> QED  BY <1>1, <1>6, <1>9, <1>10, <1>11, CursorStep

(* Posts that all came from r. *)
LEMMA NothingToSendCursor ==
  ASSUME SharedChannelSyncAssumption, SyncInv, CursorInv, NEW n \in Terms,
         NEW r \in Remotes, NothingToSend(n, r)
  PROVE  CursorInv'
<1>1. /\ SyncInv' /\ Saved' = Saved /\ \A m \in Terms \ {n} : loop'[m] = loop[m]
      /\ loop'[n].pc = "next" /\ Elems(tasks) \subseteq Elems(tasks')
  BY NothingToSendInv
<1>2. /\ UNCHANGED <<post, got, gaveUp, used>>
      /\ loop[n].task.post = 0 /\ SyncPosts
      /\ \/ UNCHANGED cursor
         \/ /\ Filtered(Since(r), r) = {}
            /\ cursor' = [cursor EXCEPT ![r] = Last(Since(r), cursor[r])]
  BY DEF NothingToSend, SyncInv
<1>3. 0 \notin Saved /\ \A p \in Saved : p \in Nat
  BY <1>2, SavedFacts DEF SharedChannelSyncAssumption
<1>4. \A p \in Saved, q \in Remotes : Holding(loop[n], p, q) => CoveredBy(n, p, q)
  BY <1>2, <1>3 DEF Holding
<1>5. \A p \in Saved, q \in Remotes : \A v \in Elems(tasks) :
         v.post = p /\ v.remote = q => CoveredBy(n, p, q)
  BY <1>1, TasksCover
<1>6. \A q \in Remotes, p \in Saved : Covered(p, q) => Covered(p, q)'
  BY <1>1, <1>2, <1>4, <1>5, CoverStays
<1>7. ASSUME NEW q \in Remotes, NEW p \in Saved, p <= cursor'[q]
      PROVE  p <= cursor[q] \/ Covered(p, q)'
  <2>1. CASE UNCHANGED cursor
    BY <1>7, <2>1
  <2>2. CASE /\ Filtered(Since(r), r) = {}
             /\ cursor' = [cursor EXCEPT ![r] = Last(Since(r), cursor[r])]
    <3>1. cursor \in [Remotes -> 0 .. MaxPosts] /\ cursor[q] \in Nat
      BY <1>2 DEF SyncPosts, SharedChannelSyncAssumption
    <3>2. CASE q # r
      BY <1>7, <2>2, <3>1, <3>2
    <3>3. CASE q = r /\ ~(p <= cursor[q])
      <4>1. p <= Last(Since(r), cursor[r]) /\ cursor[r] < p
        BY <1>3, <1>7, <2>2, <3>1, <3>3
      <4>2. p \in Since(r)
        BY <1>2, <4>1, SinceFacts
      <4>3. post[p].from = r
        BY <2>2, <4>2 DEF Filtered
      <4> QED  BY <1>2, <3>3, <4>3 DEF Covered
    <3> QED  BY <3>2, <3>3
  <2> QED  BY <1>2, <2>1, <2>2
<1>8. \A g \in Faults : used[g] <= used'[g]
  BY <1>2, SameUsed
<1> QED  BY <1>1, <1>6, <1>7, <1>8, CursorStep

(* The answer to a message moves the cursor: its posts have arrived, or     *)
(* they are retried or given up.                                            *)
LEMMA CursorSent ==
  ASSUME SharedChannelSyncAssumption, SyncInv, SyncInv', CursorInv, Saved' = Saved,
         NEW n \in Terms, \A m \in Terms \ {n} : loop'[m] = loop[m],
         loop[n].pc = "sending", loop'[n].pc = "next",
         cursor' = [cursor EXCEPT ![loop[n].remote] = loop[n].next],
         UNCHANGED post,
         \A r \in Remotes : got[r] \subseteq got'[r] /\ gaveUp[r] \subseteq gaveUp'[r],
         \A g \in Faults : used[g] <= used'[g], Elems(tasks) \subseteq Elems(tasks'),
         \A p \in Saved, r \in Remotes : Holding(loop[n], p, r) => CoveredBy(n, p, r),
         loop[n].task.post = 0 =>
           \A p \in loop[n].posts : CoveredBy(n, p, loop[n].remote)
  PROVE  CursorInv'
<1>1. \A p \in Saved, r \in Remotes : \A v \in Elems(tasks) :
        v.post = p /\ v.remote = r => CoveredBy(n, p, r)
  BY TasksCover
<1>2. \A p \in Saved : post'[p].from = post[p].from
  OBVIOUS
<1>3. \A r \in Remotes, p \in Saved : Covered(p, r) => Covered(p, r)'
  BY <1>1, <1>2, CoverStays
<1>4. ASSUME NEW r \in Remotes, NEW p, CoveredBy(n, p, r) PROVE Covered(p, r)'
  <2>1. CASE \E u \in Elems(tasks') : u.post = p /\ u.remote = r
    BY <2>1 DEF Covered, Pending, Elems
  <2>2. CASE Holding(loop'[n], p, r)
    BY <2>2 DEF Covered, Pending, Holding
  <2>3. CASE p \in got'[r] \cup gaveUp'[r]
    BY <2>3 DEF Covered
  <2> QED  BY <1>4, <2>1, <2>2, <2>3 DEF CoveredBy
<1>5. loop[n].remote \in Remotes /\ cursor \in [Remotes -> 0 .. MaxPosts]
  BY SendingFacts DEF SyncInv, SyncPosts
<1>6. Calm' => Calm
  BY CalmStays
<1>7. ASSUME Calm', NEW r \in Remotes, NEW p \in Saved, p <= cursor'[r]
      PROVE  p <= cursor[r] \/ Covered(p, r)'
  <2>1. CASE r # loop[n].remote
    BY <1>5, <1>7, <2>1
  <2>2. CASE r = loop[n].remote
    <3>1. p <= loop[n].next
      BY <1>5, <1>7, <2>2
    <3>2. Covered(p, r) \/ (loop[n].task.post = 0 /\ p \in loop[n].posts)
      BY <1>6, <1>7, <2>2, <3>1 DEF CursorInv
    <3>3. CASE Covered(p, r)
      BY <1>3, <3>3
    <3>4. CASE loop[n].task.post = 0 /\ p \in loop[n].posts
      BY <1>4, <2>2, <3>4
    <3> QED  BY <3>2, <3>3, <3>4
  <2> QED  BY <2>1, <2>2
<1> QED  BY <1>3, <1>7, CursorStep

LEMMA RefusedUnreadCursor ==
  ASSUME SharedChannelSyncAssumption, SyncInv, CursorInv, NEW n \in Terms,
         RefusedUnread(n)
  PROVE  CursorInv'
<1> DEFINE r == loop[n].remote
<1>1. /\ SyncInv' /\ Saved' = Saved /\ loop'[n].pc = "next"
      /\ \A m \in Terms \ {n} : loop'[m] = loop[m]
  BY RefusedUnreadInv
<1>2. /\ loop[n].pc = "sending" /\ loop[n].task.post = 0
      /\ tasks' = AddRepeat(n, tasks) /\ UNCHANGED post
      /\ used' = [used EXCEPT !["refused"] = @ + 1, !["store"] = @ + 1]
      /\ cursor' = [cursor EXCEPT ![r] = loop[n].next]
  BY DEF RefusedUnread
<1>3. PICK x \in loop[n].posts :
        /\ got' = [got EXCEPT ![r] = @ \cup (loop[n].posts \ {x})]
        /\ gaveUp' = [gaveUp EXCEPT ![r] = @ \cup {x}]
  BY DEF RefusedUnread
<1>4. /\ got \in [Remotes -> SUBSET Saved] /\ gaveUp \in [Remotes -> SUBSET Saved]
      /\ SyncPosts /\ r \in Remotes /\ used \in [Faults -> Nat]
  BY <1>2, SendingFacts DEF SyncInv, SyncPosts, SyncCounts
<1> HIDE DEF r
<1>5. /\ \A q \in Remotes : got[q] \subseteq got'[q] /\ gaveUp[q] \subseteq gaveUp'[q]
      /\ \A p \in loop[n].posts : p \in got'[r] \cup gaveUp'[r]
  BY <1>3, <1>4
<1>6. \A p \in loop[n].posts : CoveredBy(n, p, r)
  BY <1>5 DEF CoveredBy
<1>7. 0 \notin Saved
  BY <1>4, SavedFacts DEF SharedChannelSyncAssumption
<1>8. \A p \in Saved, q \in Remotes : Holding(loop[n], p, q) => CoveredBy(n, p, q)
  BY <1>2, <1>7 DEF Holding
<1>9. \A g \in Faults : used[g] <= used'[g]
  BY <1>2, <1>4, KindFacts
<1>10. Elems(tasks) \subseteq Elems(tasks')
  BY <1>2, RepeatKept
<1> QED  BY <1>1, <1>2, <1>5, <1>6, <1>8, <1>9, <1>10, CursorSent DEF r

LEMMA AnsweredCursor ==
  ASSUME SharedChannelSyncAssumption, SyncInv, CursorInv, NEW n \in Terms, Answered(n)
  PROVE  CursorInv'
<1> DEFINE r == loop[n].remote
           t == For(n, r)
           u == loop[n].task
<1>1. /\ SyncInv' /\ Saved' = Saved /\ loop'[n].pc = "next"
      /\ loop'[n].task = u /\ loop'[n].todo = loop[n].todo
      /\ \A m \in Terms \ {n} : loop'[m] = loop[m]
  BY AnsweredInv
<1>2. /\ SyncPosts /\ SyncTasks /\ SyncLoops /\ loop[n].pc = "sending"
      /\ cursor' = [cursor EXCEPT ![r] = loop[n].next] /\ UNCHANGED post
  BY DEF SyncInv, Answered
<1>3. /\ r \in Remotes /\ loop[n].posts \in SUBSET Saved
      /\ loop[n].posts \in SUBSET (1 .. MaxPosts) /\ MaxPosts \in Nat
      /\ u.post # 0 => r = u.remote /\ loop[n].posts = {u.post}
      /\ u.post \in Saved \cup {0} /\ u \in InUse
  BY <1>2, SendingFacts DEF SharedChannelSyncAssumption
<1>4. /\ t \in Task /\ t.post = u.post /\ t.id = u.id /\ t.remote = r
      /\ t.retries = u.retries
  BY <1>2, <1>3, ForKept DEF Kept
<1>5. PICK E \in SUBSET loop[n].posts :
        /\ got' = [got EXCEPT ![r] = @ \cup (loop[n].posts \ E)]
        /\ \/ /\ t.post # 0 /\ E # {} /\ SyncFault("refused", 1)
              /\ tasks' = Retry(tasks, t) /\ gaveUp' = Abandoned(t, {r})
           \/ /\ t.post = 0 \/ E = {}
              /\ SyncFault("refused", Cardinality(E))
              /\ tasks' = AddRepeat(n, tasks \o NewRetries(r, E))
              /\ UNCHANGED gaveUp
  BY DEF Answered
<1>6. /\ \A q \in Remotes : got[q] \subseteq got'[q]
      /\ got'[r] = got[r] \cup (loop[n].posts \ E)
  BY <1>2, <1>5, GotFacts
<1>7. 0 \notin Saved /\ tasks \in Seq(Task) /\ UniqueIds(tasks)
  BY <1>2, SavedFacts DEF SharedChannelSyncAssumption, SyncTasks
<1>8. \A p \in loop[n].posts : p \in E \/ CoveredBy(n, p, r)
  BY <1>6 DEF CoveredBy
(* What n holds is still to do, or has been sent now. *)
<1>9. ASSUME NEW p \in Saved, NEW q \in Remotes, Holding(loop[n], p, q)
      PROVE  CoveredBy(n, p, q) \/ (q = r /\ u.post = p /\ loop[n].posts = {p})
  <2>1. u.post = p /\ (q \in loop[n].todo \/ q = r)
    BY <1>9 DEF Holding
  <2>2. CASE q \in loop[n].todo
    BY <1>1, <2>1, <2>2 DEF CoveredBy, Holding
  <2>3. CASE q = r
    BY <1>3, <1>7, <2>1, <2>3
  <2> QED  BY <2>1, <2>2, <2>3
<1> HIDE DEF t, r, u
<1>10. CASE /\ t.post # 0 /\ E # {} /\ SyncFault("refused", 1)
            /\ tasks' = Retry(tasks, t) /\ gaveUp' = Abandoned(t, {r})
  <2>1. \A g \in Faults : used[g] <= used'[g]
    BY <1>10, FaultUsed, KindFacts
  <2>2. Elems(tasks) \subseteq Elems(tasks')
    BY <1>4, <1>7, <1>10, RetryFacts
  <2>3. /\ \A q \in Remotes : gaveUp[q] \subseteq gaveUp'[q]
        /\ t.retries = MaxRetries => u.post \in gaveUp'[r]
    BY <1>2, <1>3, <1>4, <1>10, AbandonedFacts
  <2>4. \/ t.retries = MaxRetries
        \/ \E v \in Elems(tasks') : v.post = t.post /\ v.remote = t.remote
    BY <1>2, <1>3, <1>4, <1>7, <1>10, RetryCovers
  <2>5. CoveredBy(n, u.post, r)
    BY <1>4, <2>3, <2>4 DEF CoveredBy
  <2>6. \A p \in Saved, q \in Remotes : Holding(loop[n], p, q) => CoveredBy(n, p, q)
    BY <1>9, <2>5
  <2>7. \A q \in Remotes : got[q] \subseteq got'[q] /\ gaveUp[q] \subseteq gaveUp'[q]
    BY <1>6, <2>3
  <2>8. u.post # 0
    BY <1>4, <1>10
  <2> QED  BY <1>1, <1>2, <2>1, <2>2, <2>6, <2>7, <2>8, CursorSent DEF r, u
<1>11. CASE /\ t.post = 0 \/ E = {}
            /\ SyncFault("refused", Cardinality(E))
            /\ tasks' = AddRepeat(n, tasks \o NewRetries(r, E))
            /\ UNCHANGED gaveUp
  <2>1. E \in SUBSET (1 .. MaxPosts) /\ E \in SUBSET Saved
    BY <1>3
  <2>2. Cardinality(E) \in Nat
    BY <1>3, <2>1, FiniteNumbers
  <2>3. \A g \in Faults : used[g] <= used'[g]
    BY <1>11, <2>2, FaultUsed, KindFacts
  <2> DEFINE us == tasks \o NewRetries(r, E)
  <2>4. /\ us \in Seq(Task) /\ UniqueIds(us) /\ \A v \in Elems(us) : Kept(v) \/ SyncFresh(v)
        /\ Elems(tasks) \subseteq Elems(us)
        /\ \A p \in E : \E v \in Elems(us) : v.post = p /\ v.remote = r
    BY <1>3, <1>11, <2>1, RefusedFacts
  <2>5. tasks' = AddRepeat(n, us)
    BY <1>11
  <2> HIDE DEF us
  <2>6. Elems(us) \subseteq Elems(tasks')
    BY <1>2, <1>3, <2>4, <2>5, AddRepeatFacts DEF r
  <2>7. Elems(tasks) \subseteq Elems(tasks') /\ \A p \in E : CoveredBy(n, p, r)
    BY <2>4, <2>6 DEF CoveredBy
  <2>8. \A p \in loop[n].posts : CoveredBy(n, p, r)
    BY <1>8, <2>7
  <2>9. \A p \in Saved, q \in Remotes : Holding(loop[n], p, q) => CoveredBy(n, p, q)
    BY <1>9, <2>8
  <2>10. \A q \in Remotes : got[q] \subseteq got'[q] /\ gaveUp[q] \subseteq gaveUp'[q]
    BY <1>6, <1>11
  <2> QED  BY <1>1, <1>2, <2>3, <2>7, <2>8, <2>9, <2>10, CursorSent DEF r
<1> QED  BY <1>5, <1>10, <1>11

LEMMA CursorFailsCursor ==
  ASSUME SharedChannelSyncAssumption, SyncInv, CursorInv, NEW n \in Terms, CursorFails(n)
  PROVE  CursorInv'
<1> DEFINE r == loop[n].remote
<1>1. /\ SyncInv' /\ Saved' = Saved /\ loop'[n].pc = "next"
      /\ loop'[n].task = loop[n].task /\ loop'[n].todo = loop[n].todo
      /\ \A m \in Terms \ {n} : loop'[m] = loop[m]
  BY CursorFailsInv
<1>2. /\ loop[n].pc = "sending" /\ SyncFault("store", 1) /\ tasks' = AddRepeat(n, tasks)
      /\ got' = [got EXCEPT ![r] = @ \cup loop[n].posts]
      /\ UNCHANGED <<post, cursor, gaveUp>> /\ SyncPosts
  BY DEF CursorFails, SyncInv
<1>3. /\ r \in Remotes /\ got \in [Remotes -> SUBSET Saved]
      /\ loop[n].task.post # 0 => loop[n].posts = {loop[n].task.post}
  BY <1>2, SendingFacts DEF SyncPosts
<1>4. /\ \A q \in Remotes : got[q] \subseteq got'[q] /\ gaveUp[q] \subseteq gaveUp'[q]
      /\ loop[n].posts \subseteq got'[r]
  BY <1>2, <1>3
<1>5. 0 \notin Saved
  BY <1>2, SavedFacts DEF SharedChannelSyncAssumption
<1>6. \A p \in Saved, q \in Remotes : Holding(loop[n], p, q) => CoveredBy(n, p, q)
  BY <1>1, <1>3, <1>4, <1>5 DEF Holding, CoveredBy
<1>7. Elems(tasks) \subseteq Elems(tasks')
  BY <1>2, RepeatKept
<1>8. \A p \in Saved, q \in Remotes : \A v \in Elems(tasks) :
        v.post = p /\ v.remote = q => CoveredBy(n, p, q)
  BY <1>7, TasksCover
<1>9. \A q \in Remotes, p \in Saved : Covered(p, q) => Covered(p, q)'
  BY <1>1, <1>2, <1>4, <1>6, <1>8, CoverStays
<1>10. \A g \in Faults : used[g] <= used'[g]
  BY <1>2, FaultUsed, KindFacts
<1>11. \A q \in Remotes, p \in Saved : p <= cursor'[q] => p <= cursor[q] \/ Covered(p, q)'
  BY <1>2
<1> QED  BY <1>1, <1>9, <1>10, <1>11, CursorStep

(* A message that is lost carries no retry as long as nothing is refused. *)
LEMMA LostCursor ==
  ASSUME SharedChannelSyncAssumption, SyncInv, CursorInv, NEW n \in Terms,
         Unanswered(n) \/ SendMsgFull(n)
  PROVE  CursorInv'
<1>1. /\ SyncInv' /\ Saved' = Saved /\ loop'[n].pc # "sending"
      /\ \A m \in Terms \ {n} : loop'[m] = loop[m]
  BY UnansweredInv, SendMsgFullInv
<1>2. /\ UNCHANGED <<post, cursor, gaveUp>> /\ loop[n].pc = "sending"
      /\ SyncFault("lost", 1) \/ SyncFault("full", 1)
  BY DEF Unanswered, SendMsgFull
<1>3. /\ \A g \in Faults : used[g] <= used'[g] /\ used[g] \in Nat
      /\ used'["refused"] = used["refused"]
      /\ used'["lost"] = used["lost"] + 1 \/ used'["full"] = used["full"] + 1
  BY <1>2, FaultFacts, KindFacts DEF SyncInv
<1>4. \A r \in Remotes : got[r] \subseteq got'[r] /\ gaveUp[r] \subseteq gaveUp'[r]
  <2>1. got \in [Remotes -> SUBSET Saved] /\ loop[n].remote \in Remotes
    BY <1>2, SendingFacts DEF SyncInv, SyncPosts
  <2>2. CASE UNCHANGED got
    BY <1>2, <2>2
  <2>3. CASE got' = [got EXCEPT ![loop[n].remote] = @ \cup loop[n].posts]
    BY <1>2, <2>1, <2>3
  <2> QED  BY <2>2, <2>3 DEF Unanswered, SendMsgFull
<1>5. ASSUME Calm' PROVE used["refused"] = 0
  <2>1. used["lost"] \in Nat /\ used["full"] \in Nat
    BY <1>3, KindFacts
  <2> QED  BY <1>3, <1>5, <2>1 DEF Calm
<1>6. ASSUME Calm'
      PROVE  \A r \in Remotes, p \in Saved : Covered(p, r) => Covered(p, r)'
  <2>1. /\ \A p \in Saved : \A t \in InUse : t.post # p
        /\ \A p \in Saved, r \in Remotes : ~Holding(loop[n], p, r)
    BY <1>5, <1>6, NoRetries
  <2>2. \A p \in Saved, r \in Remotes : \A t \in Elems(tasks) :
          t.post = p /\ t.remote = r => CoveredBy(n, p, r)
    BY <2>1, InUseFacts
  <2>3. \A p \in Saved : post'[p].from = post[p].from
    BY <1>2
  <2> QED  BY <1>1, <1>4, <2>1, <2>2, <2>3, CoverStays
<1>7. \A r \in Remotes, p \in Saved : p <= cursor'[r] => p <= cursor[r] \/ Covered(p, r)'
  BY <1>2
<1> QED  BY <1>1, <1>3, <1>6, <1>7, CursorStep

LEMMA NextCursor ==
  ASSUME SharedChannelSyncAssumption, InOrder, SyncInv, CursorInv, [SyncNext]_syncVars
  PROVE  CursorInv'
<1>1. ASSUME NEW n \in Terms, Work(n) PROVE CursorInv'
  <2>1. CASE Wake(n) \/ Leave(n) \/ DoSyncEnds(n) \/ ProcessTaskEnds(n)
    BY <2>1, IdleCursor
  <2>2. CASE ProcessTask(n) \/ ProcessTaskFails(n)
    BY <2>2, ProcessTaskCursor, ProcessTaskFailsCursor
  <2>3. CASE Answered(n) \/ RefusedUnread(n) \/ CursorFails(n)
    BY <2>3, AnsweredCursor, RefusedUnreadCursor, CursorFailsCursor
  <2>4. CASE Unanswered(n) \/ SendMsgFull(n)
    BY <2>4, LostCursor
  <2>5. CASE \E r \in Remotes : \/ SyncForRemoteFails(n, r) \/ ResendPost(n, r)
                                \/ FetchPosts(n, r) \/ NothingToSend(n, r)
    BY <2>5, SyncForRemoteFailsCursor, ResendPostCursor, FetchPostsCursor,
       NothingToSendCursor
  <2> QED  BY <1>1, <2>1, <2>2, <2>3, <2>4, <2>5 DEF Work
<1>2. CASE PreSave \/ pause \/ resume
  BY <1>2, PreSaveCursor, pauseCursor, resumeCursor
<1>3. CASE \E p \in 1 .. MaxPosts : SavePost(p) \/ NotifyChannelChanged(p)
  BY <1>3, SavePostCursor, NotifyCursor
<1>4. CASE \E r \in Remotes : Offline(r) \/ BackOnline(r)
  BY <1>4, OfflineCursor, BackOnlineCursor
<1>5. CASE \E i \in DOMAIN tasks : Mature(i)
  BY <1>5, MatureCursor
<1>6. CASE UNCHANGED syncVars
  BY <1>6 DEF syncVars, CursorInv, Prefix, Calm, Covered, Pending, Saved
<1> QED  BY <1>1, <1>2, <1>3, <1>4, <1>5, <1>6 DEF SyncNext

(* With posts that appear in the order of their UpdateAt, the cursor of a   *)
(* remote passes no post that the remote lacks and nobody will send again,  *)
(* for every number of remotes, posts, terms and faults, until a refusal    *)
(* meets a message that is lost (sync_send_remote.go: the cursor moves only *)
(* in the callback, and handlePostError makes a retry of what was refused). *)
THEOREM SyncCursorSafe ==
  ASSUME SharedChannelSyncAssumption, InOrder
  PROVE  SyncSpec => []CursorSafe
<1> DEFINE Inv == SyncInv /\ CursorInv
<1>1. SyncInit => Inv
  <2>1. ASSUME SyncInit PROVE CursorInv
    BY <2>1, InitSyncInv DEF CursorInv, Prefix
  <2> QED  BY <2>1, InitSyncInv
<1>2. Inv /\ [SyncNext]_syncVars => Inv'
  BY NextSyncInv, NextCursor
<1>3. Inv => CursorSafe
  BY DEF CursorInv, CursorSafe, Calm, Covered
<1> QED  BY <1>1, <1>2, <1>3, PTL DEF SyncSpec
=============================================================================
