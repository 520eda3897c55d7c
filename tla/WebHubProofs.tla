---------------------------- MODULE WebHubProofs ----------------------------
(***************************************************************************)
(* Proofs about WebHub, for any number of users and connections and any    *)
(* channel size, provided a client sends its authentication challenge once *)
(* per socket (ReAuthenticates = FALSE); sessions may fail at any time.    *)
(***************************************************************************)
EXTENDS WebHub, FiniteSetTheorems, TLAPS

(* The operations of hubConnectionIndex keep its two maps in agreement, for *)
(* any number of users and connections.                                     *)

(* The type of an index. *)
IsIndex(ix) == ix \in [byUserId : [Users -> Seq(Conns)],
                       byConnection : [Conns -> Nat \cup {Absent}]]

(* The fields of an index are functions of the right type. *)
LEMMA IndexFields ==
  ASSUME NEW ix, IsIndex(ix)
  PROVE  /\ ix.byUserId \in [Users -> Seq(Conns)]
         /\ ix.byConnection \in [Conns -> Nat \cup {Absent}]
  BY DEF IsIndex

(* newHubConnectionIndex: an empty index is one that agrees with any users. *)
LEMMA NewAgrees ==
  ASSUME NEW userOf
  PROVE  IsIndex(NewIndex) /\ Agrees(NewIndex, userOf)
         /\ \A c \in Conns : ~Has(NewIndex, c)
  <1>1. <<>> \in Seq(Conns) /\ Len(<<>>) = 0
    OBVIOUS
  <1>2. IsIndex(NewIndex)
    BY <1>1 DEF IsIndex, NewIndex, Absent
  <1>3. \A c \in Conns : ~Has(NewIndex, c)
    BY DEF Has, NewIndex
  <1>4. \A u \in Users : Len(NewIndex.byUserId[u]) = 0
    BY <1>1 DEF NewIndex
  <1> QED BY <1>2, <1>3, <1>4 DEF Agrees

(* SwapOut shortens the slice by one and puts its last element at the place *)
(* given up (web_hub.go:629-631).                                           *)
LEMMA SwapOutIs ==
  ASSUME NEW s \in Seq(Conns), NEW i \in 0 .. Len(s) - 1
  PROVE  /\ SwapOut(s, i) \in Seq(Conns)
         /\ Len(SwapOut(s, i)) = Len(s) - 1
         /\ \A j \in 1 .. Len(s) - 1 :
              SwapOut(s, i)[j] = IF j = i + 1 THEN s[Len(s)] ELSE s[j]
  <1>1. Len(s) \in Nat /\ Len(s) >= 1 /\ Len(s) - 1 \in Nat
    OBVIOUS
  <1>2. \A j \in 1 .. Len(s) : s[j] \in Conns
    OBVIOUS
  <1>3. SwapOut(s, i) \in [1 .. Len(s) - 1 -> Conns]
    BY <1>1, <1>2 DEF SwapOut
  <1>4. SwapOut(s, i) \in Seq(Conns) /\ Len(SwapOut(s, i)) = Len(s) - 1
    BY <1>1, <1>3
  <1> QED BY <1>4 DEF SwapOut

(* Add: the connection goes to the end of its user's slice                  *)
(* (web_hub.go:613-616).                                                    *)
LEMMA AddAgrees ==
  ASSUME NEW ix, NEW userOf, NEW c \in Conns, NEW u \in Users,
         IsIndex(ix), Agrees(ix, userOf), ~Has(ix, c), userOf[c] = u
  PROVE  /\ IsIndex(Add(ix, c, u)) /\ Agrees(Add(ix, c, u), userOf)
         /\ \A d \in Conns : Has(Add(ix, c, u), d) <=> Has(ix, d) \/ d = c
  <1> DEFINE s == ix.byUserId[u]
             iy == Add(ix, c, u)
  <1>1. s \in Seq(Conns) /\ Len(s) \in Nat
    BY IndexFields
  <1>2. /\ Append(s, c) \in Seq(Conns)
        /\ Len(Append(s, c)) = Len(s) + 1
        /\ \A j \in 1 .. Len(s) : Append(s, c)[j] = s[j]
        /\ Append(s, c)[Len(s) + 1] = c
    BY <1>1
  <1>3. /\ iy.byUserId = [ix.byUserId EXCEPT ![u] = Append(s, c)]
        /\ iy.byConnection = [ix.byConnection EXCEPT ![c] = Len(s)]
        /\ IsIndex(iy)
    BY <1>1, <1>2, IndexFields DEF Add, IsIndex
  <1>4. /\ iy.byUserId[u] = Append(s, c)
        /\ \A v \in Users \ {u} : iy.byUserId[v] = ix.byUserId[v]
        /\ iy.byConnection[c] = Len(s)
        /\ \A d \in Conns \ {c} : iy.byConnection[d] = ix.byConnection[d]
    BY <1>3, IndexFields
  <1>5. \A d \in Conns : Has(iy, d) <=> Has(ix, d) \/ d = c
    <2>1. Len(s) # Absent
      BY <1>1 DEF Absent
    <2>2. Has(iy, c)
      BY <1>4, <2>1 DEF Has
    <2>3. ASSUME NEW d \in Conns \ {c}
          PROVE  Has(iy, d) <=> Has(ix, d)
      BY <1>4 DEF Has
    <2> QED BY <2>2, <2>3
  <1>6. \A v \in Users : ix.byUserId[v] \in Seq(Conns)
    BY IndexFields
  <1> HIDE DEF s, iy
  <1>7. ASSUME NEW d \in Conns, Has(iy, d)
        PROVE  /\ userOf[d] \in Users
               /\ iy.byConnection[d] \in 0 .. Len(iy.byUserId[userOf[d]]) - 1
               /\ iy.byUserId[userOf[d]][iy.byConnection[d] + 1] = d
    <2>1. CASE d = c
      BY <2>1, <1>1, <1>2, <1>4
    <2>2. CASE d # c
      <3>1. Has(ix, d) /\ iy.byConnection[d] = ix.byConnection[d]
        BY <2>2, <1>4, <1>5, <1>7
      <3>2. /\ userOf[d] \in Users
            /\ ix.byConnection[d] \in 0 .. Len(ix.byUserId[userOf[d]]) - 1
            /\ ix.byUserId[userOf[d]][ix.byConnection[d] + 1] = d
        BY <3>1 DEF Agrees
      <3>3. CASE userOf[d] = u
        BY <3>1, <3>2, <3>3, <1>1, <1>2, <1>4 DEF s
      <3>4. CASE userOf[d] # u
        BY <3>1, <3>2, <3>4, <1>4
      <3> QED BY <3>3, <3>4
    <2> QED BY <2>1, <2>2
  <1>8. ASSUME NEW v \in Users, NEW i \in 1 .. Len(iy.byUserId[v])
        PROVE  /\ userOf[iy.byUserId[v][i]] = v
               /\ iy.byConnection[iy.byUserId[v][i]] = i - 1
    <2>1. ASSUME NEW w \in Users, NEW j \in 1 .. Len(ix.byUserId[w])
          PROVE  /\ ix.byUserId[w][j] \in Conns
                 /\ userOf[ix.byUserId[w][j]] = w
                 /\ ix.byConnection[ix.byUserId[w][j]] = j - 1
                 /\ ix.byUserId[w][j] # c
      <3>1. ix.byUserId[w][j] \in Conns
        BY <1>6
      <3>2. /\ userOf[ix.byUserId[w][j]] = w
            /\ ix.byConnection[ix.byUserId[w][j]] = j - 1
        BY DEF Agrees
      <3>3. j - 1 # Absent
        BY <1>6 DEF Absent
      <3> QED BY <3>1, <3>2, <3>3 DEF Has
    <2>2. CASE v = u /\ i = Len(s) + 1
      BY <2>2, <1>1, <1>2, <1>4
    <2>3. CASE v = u /\ i # Len(s) + 1
      <3>1. i \in 1 .. Len(s)
        BY <2>3, <1>1, <1>2, <1>4
      <3>2. iy.byUserId[v][i] = ix.byUserId[u][i]
        BY <2>3, <3>1, <1>2, <1>4 DEF s
      <3> QED BY <3>1, <3>2, <2>1, <2>3, <1>4 DEF s
    <2>4. CASE v # u
      <3>1. iy.byUserId[v] = ix.byUserId[v]
        BY <2>4, <1>4
      <3>2. i \in 1 .. Len(ix.byUserId[v])
        BY <3>1
      <3>3. /\ ix.byUserId[v][i] \in Conns \ {c}
            /\ userOf[ix.byUserId[v][i]] = v
            /\ ix.byConnection[ix.byUserId[v][i]] = i - 1
        BY <3>2, <2>1
      <3> QED BY <3>1, <3>3, <1>4
    <2> QED BY <2>2, <2>3, <2>4
  <1> QED BY <1>3, <1>5, <1>7, <1>8 DEF Agrees, iy

(* A connection's place is within its user's slice: Remove does not panic   *)
(* (web_hub.go:627-629).                                                    *)
LEMMA PlaceInSlice ==
  ASSUME NEW ix, NEW userOf, NEW c \in Conns,
         IsIndex(ix), Agrees(ix, userOf), Has(ix, c)
  PROVE  /\ userOf[c] \in Users
         /\ ix.byUserId[userOf[c]] \in Seq(Conns)
         /\ ix.byConnection[c] \in 0 .. Len(ix.byUserId[userOf[c]]) - 1
         /\ Len(ix.byUserId[userOf[c]]) >= 1
         /\ ix.byUserId[userOf[c]][ix.byConnection[c] + 1] = c
         /\ ~RemovePanics(ix, c, userOf[c])
  <1>1. /\ userOf[c] \in Users
        /\ ix.byConnection[c] \in 0 .. Len(ix.byUserId[userOf[c]]) - 1
        /\ ix.byUserId[userOf[c]][ix.byConnection[c] + 1] = c
    BY DEF Agrees
  <1>2. /\ ix.byUserId[userOf[c]] \in Seq(Conns)
        /\ Len(ix.byUserId[userOf[c]]) \in Nat
    BY <1>1, IndexFields
  <1> QED BY <1>1, <1>2 DEF RemovePanics

(* An element of a slice is in the index, at its own place and user's.      *)
LEMMA SliceInPlace ==
  ASSUME NEW ix, NEW userOf, IsIndex(ix), Agrees(ix, userOf)
  PROVE  \A u \in Users : \A i \in 1 .. Len(ix.byUserId[u]) :
           /\ ix.byUserId[u][i] \in Conns
           /\ Has(ix, ix.byUserId[u][i])
           /\ userOf[ix.byUserId[u][i]] = u
           /\ ix.byConnection[ix.byUserId[u][i]] = i - 1
  <1> TAKE u \in Users
  <1> TAKE i \in 1 .. Len(ix.byUserId[u])
  <1>1. ix.byUserId[u] \in Seq(Conns) /\ Len(ix.byUserId[u]) \in Nat
    BY IndexFields
  <1>2. ix.byUserId[u][i] \in Conns
    BY <1>1
  <1>3. /\ userOf[ix.byUserId[u][i]] = u
        /\ ix.byConnection[ix.byUserId[u][i]] = i - 1
    BY DEF Agrees
  <1>4. i - 1 # Absent
    BY <1>1 DEF Absent
  <1> QED BY <1>2, <1>3, <1>4 DEF Has

(* iy is ix without c, a connection of user u: the last of u's connections  *)
(* has taken its place (web_hub.go:618-636).                                *)
Removal(ix, iy, userOf, c, u) ==
  /\ LastFor(ix, u) \in Conns /\ Has(ix, LastFor(ix, u))
  /\ userOf[LastFor(ix, u)] = u
  /\ ix.byConnection[LastFor(ix, u)] = Len(ix.byUserId[u]) - 1
  /\ IsIndex(iy)
  /\ iy.byUserId[u] = SwapOut(ix.byUserId[u], ix.byConnection[c])
  /\ \A v \in Users \ {u} : iy.byUserId[v] = ix.byUserId[v]
  /\ iy.byConnection[c] = Absent
  /\ LastFor(ix, u) # c => iy.byConnection[LastFor(ix, u)] = ix.byConnection[c]
  /\ \A d \in Conns \ {c, LastFor(ix, u)} :
       iy.byConnection[d] = ix.byConnection[d]
  /\ \A d \in Conns : Has(iy, d) <=> Has(ix, d) /\ d # c

(* What Remove does to the two maps. *)
LEMMA RemoveIs ==
  ASSUME NEW ix, NEW userOf, NEW c \in Conns, NEW u,
         IsIndex(ix), Agrees(ix, userOf), Has(ix, c), u = userOf[c]
  PROVE  Removal(ix, Remove(ix, c, u), userOf, c, u)
  <1> DEFINE s == ix.byUserId[u]
             iy == Remove(ix, c, u)
             p == ix.byConnection[c]
             last == LastFor(ix, u)
  <1>1. /\ u \in Users /\ s \in Seq(Conns) /\ Len(s) >= 1 /\ Len(s) \in Nat
        /\ p \in 0 .. Len(s) - 1
    BY PlaceInSlice
  <1>2. /\ last \in Conns /\ Has(ix, last) /\ userOf[last] = u
        /\ ix.byConnection[last] = Len(s) - 1
    <2>1. Len(s) \in 1 .. Len(ix.byUserId[u])
      BY <1>1
    <2>2. /\ ix.byUserId[u][Len(s)] \in Conns
          /\ Has(ix, ix.byUserId[u][Len(s)])
          /\ userOf[ix.byUserId[u][Len(s)]] = u
          /\ ix.byConnection[ix.byUserId[u][Len(s)]] = Len(s) - 1
      BY <2>1, <1>1, SliceInPlace
    <2> QED BY <2>2 DEF LastFor
  <1>3. SwapOut(s, p) \in Seq(Conns)
    BY <1>1, SwapOutIs
  <1>4. /\ iy.byUserId = [ix.byUserId EXCEPT ![u] = SwapOut(s, p)]
        /\ iy.byConnection = [ix.byConnection EXCEPT ![last] = p,
                                                     ![c] = Absent]
        /\ iy = [byUserId |-> iy.byUserId, byConnection |-> iy.byConnection]
    BY DEF Remove
  <1>5. p \in Nat /\ p # Absent
    BY <1>1 DEF Absent
  <1>6. IsIndex(iy)
    <2>1. iy.byUserId \in [Users -> Seq(Conns)]
      BY <1>1, <1>3, <1>4, IndexFields
    <2>2. [ix.byConnection EXCEPT ![last] = p] \in [Conns -> Nat \cup {Absent}]
      BY <1>2, <1>5, IndexFields
    <2>3. iy.byConnection \in [Conns -> Nat \cup {Absent}]
      BY <2>2, <1>4
    <2> QED BY <2>1, <2>3, <1>4 DEF IsIndex
  <1>7. /\ iy.byUserId[u] = SwapOut(s, p)
        /\ \A v \in Users \ {u} : iy.byUserId[v] = ix.byUserId[v]
    BY <1>1, <1>4, IndexFields
  <1>8. /\ iy.byConnection[c] = Absent
        /\ last # c => iy.byConnection[last] = p
        /\ \A d \in Conns \ {c, last} :
             iy.byConnection[d] = ix.byConnection[d]
    BY <1>2, <1>4, IndexFields
  <1> HIDE DEF s, iy, p, last
  <1>9. ASSUME NEW d \in Conns
        PROVE  Has(iy, d) <=> Has(ix, d) /\ d # c
    <2>1. CASE d = c
      BY <2>1, <1>8 DEF Has
    <2>2. CASE d = last /\ d # c
      BY <2>2, <1>2, <1>5, <1>8 DEF Has
    <2>3. CASE d # c /\ d # last
      BY <2>3, <1>8 DEF Has
    <2> QED BY <2>1, <2>2, <2>3
  <1> QED BY <1>2, <1>6, <1>7, <1>8, <1>9 DEF s, iy, p, last, Removal

(* Remove keeps the two maps in agreement: the connection that takes the    *)
(* freed place is recorded there (web_hub.go:629-635).                      *)
LEMMA RemoveAgrees ==
  ASSUME NEW ix, NEW userOf, NEW c \in Conns, NEW u,
         IsIndex(ix), Agrees(ix, userOf), Has(ix, c), u = userOf[c]
  PROVE  Agrees(Remove(ix, c, u), userOf)
  <1> DEFINE s == ix.byUserId[u]
             iy == Remove(ix, c, u)
             p == ix.byConnection[c]
             last == LastFor(ix, u)
  <1>1. /\ u \in Users /\ s \in Seq(Conns) /\ Len(s) >= 1 /\ Len(s) \in Nat
        /\ p \in 0 .. Len(s) - 1 /\ s[p + 1] = c
    BY PlaceInSlice
  <1>2. /\ last \in Conns /\ Has(ix, last) /\ userOf[last] = u
        /\ ix.byConnection[last] = Len(s) - 1
        /\ iy.byUserId[u] = SwapOut(s, p)
        /\ \A v \in Users \ {u} : iy.byUserId[v] = ix.byUserId[v]
        /\ iy.byConnection[c] = Absent
        /\ last # c => iy.byConnection[last] = p
        /\ \A d \in Conns \ {c, last} :
             iy.byConnection[d] = ix.byConnection[d]
        /\ \A d \in Conns : Has(iy, d) <=> Has(ix, d) /\ d # c
    <2>1. Removal(ix, iy, userOf, c, u)
      BY RemoveIs
    <2> QED BY <2>1 DEF Removal
  <1>3. /\ Len(SwapOut(s, p)) = Len(s) - 1
        /\ \A j \in 1 .. Len(s) - 1 :
             SwapOut(s, p)[j] = IF j = p + 1 THEN last ELSE s[j]
        /\ last = s[Len(s)]
    BY <1>1, SwapOutIs DEF LastFor
  <1>4. last = c <=> p = Len(s) - 1
    BY <1>1, <1>2, <1>3
  <1>5. \A v \in Users : \A i \in 1 .. Len(ix.byUserId[v]) :
          /\ ix.byUserId[v][i] \in Conns
          /\ userOf[ix.byUserId[v][i]] = v
          /\ ix.byConnection[ix.byUserId[v][i]] = i - 1
    BY SliceInPlace
  <1>6. \A d \in Conns : Has(ix, d) =>
          /\ userOf[d] \in Users
          /\ ix.byConnection[d] \in 0 .. Len(ix.byUserId[userOf[d]]) - 1
          /\ ix.byUserId[userOf[d]][ix.byConnection[d] + 1] = d
    BY DEF Agrees
  <1>7. userOf[c] = u /\ ix.byUserId[u] = s /\ ix.byConnection[c] = p
    OBVIOUS
  <1> HIDE DEF s, iy, p, last
  <1>8. ASSUME NEW d \in Conns, Has(iy, d)
        PROVE  /\ userOf[d] \in Users
               /\ iy.byConnection[d] \in 0 .. Len(iy.byUserId[userOf[d]]) - 1
               /\ iy.byUserId[userOf[d]][iy.byConnection[d] + 1] = d
    <2>1. Has(ix, d) /\ d # c
      BY <1>2, <1>8
    <2>2. /\ userOf[d] \in Users
          /\ ix.byConnection[d] \in 0 .. Len(ix.byUserId[userOf[d]]) - 1
          /\ ix.byUserId[userOf[d]][ix.byConnection[d] + 1] = d
      BY <2>1, <1>6
    <2>3. CASE d = last
      <3>1. p # Len(s) - 1 /\ iy.byConnection[d] = p /\ userOf[d] = u
        BY <2>1, <2>3, <1>2, <1>4
      <3>2. p + 1 \in 1 .. Len(s) - 1
        BY <3>1, <1>1
      <3> QED BY <3>1, <3>2, <2>3, <1>1, <1>2, <1>3
    <2>4. CASE d # last /\ userOf[d] = u
      <3>1. iy.byConnection[d] = ix.byConnection[d]
        BY <2>1, <2>4, <1>2
      <3>2. /\ ix.byConnection[d] \in 0 .. Len(s) - 1
            /\ s[ix.byConnection[d] + 1] = d
        BY <2>2, <2>4, <1>7
      <3>3. ix.byConnection[d] # p /\ ix.byConnection[d] # Len(s) - 1
        BY <3>2, <2>1, <2>4, <1>1, <1>3
      <3>4. ix.byConnection[d] + 1 \in 1 .. Len(s) - 1
        BY <3>2, <3>3, <1>1
      <3>5. ix.byConnection[d] + 1 # p + 1
        BY <3>2, <3>3, <1>1
      <3>6. SwapOut(s, p)[ix.byConnection[d] + 1] = d
        BY <3>2, <3>4, <3>5, <1>3
      <3>7. iy.byUserId[userOf[d]] = SwapOut(s, p)
        BY <2>4, <1>2
      <3>8. Len(iy.byUserId[userOf[d]]) = Len(s) - 1
        BY <3>7, <1>3
      <3>9. iy.byConnection[d] \in 0 .. Len(iy.byUserId[userOf[d]]) - 1
        BY <3>1, <3>2, <3>3, <3>8, <1>1
      <3> QED BY <3>1, <3>6, <3>7, <3>9, <2>2
    <2>5. CASE d # last /\ userOf[d] # u
      <3>1. /\ iy.byConnection[d] = ix.byConnection[d]
            /\ iy.byUserId[userOf[d]] = ix.byUserId[userOf[d]]
        BY <2>1, <2>2, <2>5, <1>2
      <3>2. iy.byConnection[d] \in 0 .. Len(iy.byUserId[userOf[d]]) - 1
        BY <3>1, <2>2
      <3>3. iy.byUserId[userOf[d]][iy.byConnection[d] + 1] = d
        BY <3>1, <2>2
      <3> QED BY <3>2, <3>3, <2>2
    <2> QED BY <2>3, <2>4, <2>5
  <1>9. ASSUME NEW v \in Users, NEW i \in 1 .. Len(iy.byUserId[v])
        PROVE  /\ userOf[iy.byUserId[v][i]] = v
               /\ iy.byConnection[iy.byUserId[v][i]] = i - 1
    <2>1. CASE v # u
      <3>1. iy.byUserId[v] = ix.byUserId[v]
        BY <2>1, <1>2
      <3>2. i \in 1 .. Len(ix.byUserId[v])
        BY <3>1
      <3>3. /\ ix.byUserId[v][i] \in Conns
            /\ userOf[ix.byUserId[v][i]] = v
            /\ ix.byConnection[ix.byUserId[v][i]] = i - 1
        BY <3>2, <1>5
      <3>4. ix.byUserId[v][i] # c /\ ix.byUserId[v][i] # last
        BY <3>3, <2>1, <1>2, <1>7
      <3> QED BY <3>1, <3>3, <3>4, <1>2
    <2>2. CASE v = u
      <3>1. i \in 1 .. Len(s) - 1 /\ iy.byUserId[v] = SwapOut(s, p)
        BY <2>2, <1>1, <1>2, <1>3
      <3>2. CASE i = p + 1
        <4>1. iy.byUserId[v][i] = last /\ last # c
          BY <3>1, <3>2, <1>1, <1>3, <1>4
        <4> QED BY <4>1, <3>2, <2>2, <1>1, <1>2
      <3>3. CASE i # p + 1
        <4>1. iy.byUserId[v][i] = s[i] /\ i \in 1 .. Len(s)
          BY <3>1, <3>3, <1>1, <1>3
        <4>2. /\ s[i] \in Conns /\ userOf[s[i]] = u
              /\ ix.byConnection[s[i]] = i - 1
          BY <4>1, <1>1, <1>5, <1>7
        <4>3. s[i] # c /\ s[i] # last
          BY <4>1, <4>2, <3>1, <3>3, <1>1, <1>2, <1>7
        <4> QED BY <4>1, <4>2, <4>3, <2>2, <1>2
      <3> QED BY <3>2, <3>3
    <2> QED BY <2>1, <2>2
  <1> QED BY <1>8, <1>9 DEF Agrees, iy

-----------------------------------------------------------------------------

(* What holds of the WebConn cn of c; has says whether it is in the index.  *)
(* It is registered at most once, an inactive one has no pumps, and one     *)
(* that has not been made has its own, unused channel.                      *)
ConnOK(c, cn, has) ==
  /\ cn.registering => cn.pump = "run"
  /\ cn.pump = "new" \/ cn.registering => cn.user \in Users /\ ~has
  /\ has => cn.pump \notin {"none", "new"} /\ cn.user \in Users
  /\ has /\ ~cn.active => cn.pump = "done"
  /\ cn.writer => cn.pump \in {"run", "ending"}
  /\ cn.pump = "none" => cn.send = c /\ cn.user = NoUser /\ ~cn.active

ConnsOK == \A c \in Conns : ConnOK(c, conn[c], Has(index, c))

(* The connections that may come to use their channel. *)
Holds(cn, has) == cn.pump \in {"new", "start", "run", "ending"} \/ has

(* Those that the hub may come to send to. *)
NeedsOpen(cn, has) ==
  \/ has \/ cn.pump = "new" \/ cn.registering
  \/ cn.user = NoUser /\ cn.pump \in {"none", "start", "run"}

ChannelsOK ==
  /\ \A c, d \in Conns :
       c # d /\ Holds(conn[c], Has(index, c)) /\ Holds(conn[d], Has(index, d))
         => conn[c].send # conn[d].send
  /\ \A c, d \in Conns : c # d /\ conn[c].pump = "none" => conn[d].send # c
  /\ \A c \in Conns :
       NeedsOpen(conn[c], Has(index, c)) => chan[conn[c].send].open

(* While a broadcast ranges over a user's slice, what is left of the slice  *)
(* is as it was, because every removal has written at or below hub.i.       *)
RangingOK ==
  hub.pc = "ranging" =>
    /\ hub.i <= Len(snapshot) /\ Len(hub.cand) = Len(snapshot)
    /\ Len(served) = hub.i
    /\ \A j \in 1 .. hub.i : served[j] = snapshot[j]
    /\ \A j \in hub.i + 1 .. Len(snapshot) :
         /\ hub.cand[j] = snapshot[j]
         /\ Has(index, snapshot[j]) => index.byConnection[snapshot[j]] < j

(* The connections that the hub's goroutine still has to come to: the one   *)
(* it sends the hello to is in the index, those it reaps have no pumps.     *)
RestOK ==
  /\ hub.pc = "hello" => \A c \in hub.rest : Has(index, c)
  /\ hub.pc = "reaping" =>
       \A c \in hub.rest : ~conn[c].active /\ conn[c].pump = "done"

(* The inductive invariant. *)
Inv == /\ TypeOK /\ IndexAgrees /\ ConnsOK /\ ChannelsOK
       /\ RangingOK /\ RestOK /\ CountSettles

-----------------------------------------------------------------------------

(* The types of the parts of the state. *)
LEMMA Typed ==
  ASSUME TypeOK
  PROVE  /\ conn \in [Conns -> ConnState] /\ IsIndex(index)
         /\ \A c \in Conns : conn[c] \in ConnState /\ UserOf[c] = conn[c].user
  BY DEF TypeOK, IsIndex, UserOf

(* connectionCount is a natural number: there are finitely many WebConns.   *)
LEMMA CountNat ==
  ASSUME NEW cn, NEW ix
  PROVE  AllActive(cn, ix) \in Nat
  <1>1. {c \in All(ix) : cn[c].active} \subseteq Conns
    BY DEF All
  <1>2. IsFiniteSet({c \in All(ix) : cn[c].active})
    BY <1>1, FS_Subset, WebHubAssumption
  <1> QED BY <1>2, FS_CardinalityType DEF AllActive

(* The count depends on the connections that are active and in the index.   *)
LEMMA CountSame ==
  ASSUME NEW cn, NEW ix, NEW dn, NEW iy,
         \A c \in Conns : Has(ix, c) /\ cn[c].active
                            <=> Has(iy, c) /\ dn[c].active
  PROVE  AllActive(cn, ix) = AllActive(dn, iy)
  <1>1. {c \in All(ix) : cn[c].active} = {c \in All(iy) : dn[c].active}
    BY DEF All
  <1> QED BY <1>1 DEF AllActive

(* The index is as it was and the WebConn of c has become r. *)
OneConn(c, r) ==
  /\ conn' = [conn EXCEPT ![c] = r]
  /\ UNCHANGED <<chan, index>>
  /\ r \in ConnState
  /\ ConnOK(c, r, Has(index, c))
  /\ r.send = conn[c].send
  /\ Has(index, c) => r.user = conn[c].user
  /\ r.pump = "none" => conn[c].pump = "none"
  /\ Holds(r, Has(index, c)) =>
       Holds(conn[c], Has(index, c)) \/ conn[c].pump = "none"
  /\ NeedsOpen(r, Has(index, c)) => NeedsOpen(conn[c], Has(index, c))

(* An index that agrees with f agrees with every g that differs from f on   *)
(* connections outside the index only.                                      *)
LEMMA AgreesToo ==
  ASSUME NEW ix, NEW f, NEW g, IsIndex(ix), Agrees(ix, f),
         \A d \in Conns : Has(ix, d) => g[d] = f[d]
  PROVE  Agrees(ix, g)
  <1>1. \A d \in Conns : Has(ix, d) =>
          /\ g[d] \in Users
          /\ ix.byConnection[d] \in 0 .. Len(ix.byUserId[g[d]]) - 1
          /\ ix.byUserId[g[d]][ix.byConnection[d] + 1] = d
    BY DEF Agrees
  <1>2. \A u \in Users : \A i \in 1 .. Len(ix.byUserId[u]) :
          /\ ix.byUserId[u][i] \in Conns
          /\ Has(ix, ix.byUserId[u][i])
          /\ f[ix.byUserId[u][i]] = u
          /\ ix.byConnection[ix.byUserId[u][i]] = i - 1
    BY SliceInPlace
  <1>3. \A u \in Users : \A i \in 1 .. Len(ix.byUserId[u]) :
          /\ g[ix.byUserId[u][i]] = u
          /\ ix.byConnection[ix.byUserId[u][i]] = i - 1
    BY <1>2
  <1> QED BY <1>1, <1>3 DEF Agrees

(* Steps of one connection's goroutines that leave the index alone keep the *)
(* parts of the invariant that are not about the hub's goroutine.           *)
LEMMA OneConnInv ==
  ASSUME Inv, NEW c \in Conns, NEW r, OneConn(c, r)
  PROVE  /\ IndexAgrees' /\ ConnsOK' /\ ChannelsOK'
         /\ conn' \in [Conns -> ConnState]
         /\ conn'[c] = r /\ \A d \in Conns \ {c} : conn'[d] = conn[d]
  <1>1. /\ conn \in [Conns -> ConnState] /\ IsIndex(index)
        /\ \A d \in Conns : UserOf[d] = conn[d].user
    BY Typed DEF Inv
  <1>2. /\ conn' \in [Conns -> ConnState]
        /\ conn'[c] = r /\ \A d \in Conns \ {c} : conn'[d] = conn[d]
        /\ index' = index /\ chan' = chan
    BY <1>1 DEF OneConn
  <1>4. ConnsOK'
    BY <1>2 DEF Inv, ConnsOK, OneConn
  <1>5. \A d \in Conns : Has(index, d) => UserOf'[d] = UserOf[d]
    BY <1>1, <1>2 DEF OneConn, UserOf
  <1>6. IndexAgrees'
    <2>1. Agrees(index, UserOf')
      BY <1>1, <1>5, AgreesToo DEF Inv, IndexAgrees
    <2> QED BY <2>1, <1>2 DEF IndexAgrees
  <1>7. ChannelsOK'
    <2>1. \A d \in Conns : conn'[d].send = conn[d].send
      BY <1>2 DEF OneConn
    <2>2. ASSUME NEW d \in Conns, NEW e \in Conns, d # e,
                 Holds(conn'[d], Has(index, d)), Holds(conn'[e], Has(index, e))
          PROVE  conn[d].send # conn[e].send
      <3>1. CASE d = c
        BY <3>1, <2>2, <1>2 DEF Inv, ChannelsOK, OneConn, ConnsOK, ConnOK
      <3>2. CASE e = c
        BY <3>2, <2>2, <1>2 DEF Inv, ChannelsOK, OneConn, ConnsOK, ConnOK
      <3>3. CASE d # c /\ e # c
        BY <3>3, <2>2, <1>2 DEF Inv, ChannelsOK
      <3> QED BY <3>1, <3>2, <3>3
    <2>3. \A d, e \in Conns :
            d # e /\ conn'[d].pump = "none" => conn[e].send # d
      BY <1>2 DEF Inv, ChannelsOK, OneConn
    <2>4. \A d \in Conns :
            NeedsOpen(conn'[d], Has(index, d)) => chan[conn[d].send].open
      BY <1>2 DEF Inv, ChannelsOK, OneConn
    <2> QED BY <2>1, <2>2, <2>3, <2>4, <1>2 DEF ChannelsOK
  <1> QED BY <1>2, <1>4, <1>6, <1>7

(* The same, for the whole invariant, when the hub's goroutine stays where  *)
(* it is.                                                                   *)
LEMMA OutsideInv ==
  ASSUME Inv, NEW c \in Conns, NEW r, OneConn(c, r),
         conn[c].pump # "none" => r.active = conn[c].active,
         conn[c].pump = "done" => r.pump = "done",
         UNCHANGED <<hub, connectionCount, history>>,
         stop' \in BOOLEAN, sessionErrors' \in 0 .. MaxSessionErrors
  PROVE  Inv'
  <1>1. /\ IndexAgrees' /\ ConnsOK' /\ ChannelsOK'
        /\ conn' \in [Conns -> ConnState]
        /\ conn'[c] = r /\ \A d \in Conns \ {c} : conn'[d] = conn[d]
    BY OneConnInv
  <1>2. UNCHANGED <<chan, index>> /\ r.send = conn[c].send
    BY DEF OneConn
  <1>3. ConnOK(c, conn[c], Has(index, c))
    BY DEF Inv, ConnsOK
  <1>4. CountSettles'
    <2>1. \A d \in Conns : /\ Has(index, d) => conn'[d].active = conn[d].active
                           /\ conn[d].active => conn'[d].active
                           /\ conn'[d].send = conn[d].send
      BY <1>1, <1>2, <1>3 DEF ConnOK
    <2>2. AllActive(conn', index') = AllActive(conn, index)
      BY <1>2, <2>1, CountSame
    <2> QED BY <1>2, <2>1, <2>2 DEF Inv, CountSettles
  <1>5. TypeOK'
    BY <1>1, <1>2 DEF Inv, TypeOK, history
  <1>6. RangingOK'
    BY <1>2 DEF Inv, RangingOK, history
  <1>7. RestOK'
    BY <1>1, <1>2 DEF Inv, RestOK, TypeOK
  <1> QED BY <1>1, <1>4, <1>5, <1>6, <1>7 DEF Inv

(* An anonymous connection, and one of a user. *)
LEMMA ConnectInv ==
  ASSUME Inv, NEW c \in Conns,
         ConnectAnonymous(c) \/ \E u \in Users : ConnectFresh(c, u)
  PROVE  Inv'
  <1>1. /\ conn[c] \in ConnState /\ conn \in [Conns -> ConnState]
        /\ ConnOK(c, conn[c], Has(index, c))
        /\ sessionErrors \in 0 .. MaxSessionErrors /\ stop \in BOOLEAN
    BY Typed DEF Inv, ConnsOK, TypeOK
  <1>2. CASE ConnectAnonymous(c)
    <2> DEFINE r == [conn[c] EXCEPT !.pump = "start", !.sockOpen = TRUE,
                                    !.active = TRUE]
    <2>1. conn' = [conn EXCEPT ![c] = r]
      BY <1>1, <1>2 DEF ConnectAnonymous
    <2>2. /\ r \in ConnState /\ r.pump = "start"
          /\ r.registering = conn[c].registering /\ r.user = conn[c].user
          /\ r.send = conn[c].send /\ r.writer = conn[c].writer
      BY <1>1 DEF ConnState
    <2> HIDE DEF r
    <2>3. OneConn(c, r)
      BY <2>1, <2>2, <1>1, <1>2
         DEF OneConn, ConnectAnonymous, ConnOK, Holds, NeedsOpen
    <2> QED BY <2>3, <2>2, <1>1, <1>2, OutsideInv DEF ConnectAnonymous
  <1>3. ASSUME NEW u \in Users, ConnectFresh(c, u)
        PROVE  Inv'
    <2> DEFINE r == [conn[c] EXCEPT !.pump = "new", !.sockOpen = TRUE,
                                    !.user = u, !.token = TRUE,
                                    !.active = TRUE]
    <2>1. conn' = [conn EXCEPT ![c] = r]
      BY <1>1, <1>3 DEF ConnectFresh
    <2>2. /\ r \in ConnState /\ r.pump = "new" /\ r.user = u
          /\ r.registering = conn[c].registering
          /\ r.send = conn[c].send /\ r.writer = conn[c].writer
      BY <1>1 DEF ConnState
    <2> HIDE DEF r
    <2>3. OneConn(c, r)
      BY <2>1, <2>2, <1>1, <1>3
         DEF OneConn, ConnectFresh, ConnOK, Holds, NeedsOpen
    <2> QED BY <2>3, <2>2, <1>1, <1>3, OutsideInv DEF ConnectFresh
  <1> QED BY <1>2, <1>3

(* The pumps start, end and unregister from a hub that stopped. *)
LEMMA PumpInv ==
  ASSUME Inv, NEW c \in Conns,
         \/ PumpStarts(c) \/ WriterEnds(c) \/ ReaderEnds(c)
         \/ RegisterStopped(c) \/ UnregisterStopped(c)
  PROVE  Inv'
  <1>1. /\ conn[c] \in ConnState /\ conn \in [Conns -> ConnState]
        /\ ConnOK(c, conn[c], Has(index, c))
        /\ sessionErrors \in 0 .. MaxSessionErrors /\ stop \in BOOLEAN
    BY Typed DEF Inv, ConnsOK, TypeOK
  <1>2. CASE PumpStarts(c)
    <2>1. PICK id \in Conns :
            conn' = [conn EXCEPT ![c].pump = "run", ![c].writer = TRUE,
                                 ![c].connID = id]
      BY <1>1, <1>2 DEF PumpStarts, ConnState
    <2> DEFINE r == [conn[c] EXCEPT !.pump = "run", !.writer = TRUE,
                                    !.connID = id]
    <2>2. conn' = [conn EXCEPT ![c] = r]
      BY <2>1, <1>1
    <2>3. /\ r \in ConnState /\ r.pump = "run" /\ r.user = conn[c].user
          /\ r.registering = conn[c].registering
          /\ r.active = conn[c].active /\ r.send = conn[c].send
      BY <1>1 DEF ConnState
    <2> HIDE DEF r
    <2>4. OneConn(c, r)
      BY <2>2, <2>3, <1>1, <1>2
         DEF OneConn, PumpStarts, ConnOK, Holds, NeedsOpen
    <2> QED BY <2>4, <2>3, <1>1, <1>2, OutsideInv DEF PumpStarts
  <1>3. CASE WriterEnds(c)
    <2> DEFINE r == [conn[c] EXCEPT !.writer = FALSE, !.sockOpen = FALSE]
    <2>1. conn' = [conn EXCEPT ![c] = r]
      BY <1>1, <1>3 DEF WriterEnds
    <2>2. /\ r \in ConnState /\ r.pump = conn[c].pump /\ r.user = conn[c].user
          /\ r.registering = conn[c].registering /\ r.writer = FALSE
          /\ r.active = conn[c].active /\ r.send = conn[c].send
      BY <1>1 DEF ConnState
    <2> HIDE DEF r
    <2>3. OneConn(c, r)
      BY <2>1, <2>2, <1>1, <1>3
         DEF OneConn, WriterEnds, ConnOK, Holds, NeedsOpen
    <2> QED BY <2>3, <2>2, <1>1, <1>3, OutsideInv DEF WriterEnds
  <1>4. CASE ReaderEnds(c)
    <2> DEFINE r == [conn[c] EXCEPT !.pump = "ending", !.sockOpen = FALSE]
    <2>1. conn' = [conn EXCEPT ![c] = r]
      BY <1>1, <1>4 DEF ReaderEnds
    <2>2. /\ r \in ConnState /\ r.pump = "ending" /\ r.user = conn[c].user
          /\ r.registering = conn[c].registering /\ r.writer = conn[c].writer
          /\ r.active = conn[c].active /\ r.send = conn[c].send
      BY <1>1 DEF ConnState
    <2> HIDE DEF r
    <2>3. OneConn(c, r)
      BY <2>1, <2>2, <1>1, <1>4
         DEF OneConn, ReaderEnds, ConnOK, Holds, NeedsOpen
    <2> QED BY <2>3, <2>2, <1>1, <1>4, OutsideInv DEF ReaderEnds
  <1>5. CASE RegisterStopped(c)
    <2> DEFINE r == Registered(conn[c])
    <2>1. conn' = [conn EXCEPT ![c] = r]
      BY <1>1, <1>5 DEF RegisterStopped
    <2>2. /\ r \in ConnState /\ r.user = conn[c].user
          /\ r.pump = IF conn[c].pump = "new" THEN "start" ELSE conn[c].pump
          /\ r.registering = FALSE /\ r.writer = conn[c].writer
          /\ r.active = conn[c].active /\ r.send = conn[c].send
      BY <1>1 DEF ConnState, Registered
    <2> HIDE DEF r
    <2>3. OneConn(c, r)
      BY <2>1, <2>2, <1>1, <1>5, WebHubAssumption
         DEF OneConn, RegisterStopped, WantsRegister, ConnOK, Holds, NeedsOpen
    <2> QED BY <2>3, <2>2, <1>1, <1>5, OutsideInv DEF RegisterStopped
  <1>6. CASE UnregisterStopped(c)
    <2> DEFINE r == [conn[c] EXCEPT !.pump = "done"]
    <2>1. conn' = [conn EXCEPT ![c] = r]
      BY <1>1, <1>6 DEF UnregisterStopped
    <2>2. /\ r \in ConnState /\ r.pump = "done" /\ r.user = conn[c].user
          /\ r.registering = conn[c].registering /\ r.writer = conn[c].writer
          /\ r.active = conn[c].active /\ r.send = conn[c].send
      BY <1>1 DEF ConnState
    <2> HIDE DEF r
    <2>3. OneConn(c, r)
      BY <2>1, <2>2, <1>1, <1>6
         DEF OneConn, UnregisterStopped, ConnOK, Holds, NeedsOpen
    <2> QED BY <2>3, <2>2, <1>1, <1>6, OutsideInv DEF UnregisterStopped
  <1> QED BY <1>2, <1>3, <1>4, <1>5, <1>6

(* The first authentication challenge of a socket, and a session that is    *)
(* lost.                                                                    *)
LEMMA SessionInv ==
  ASSUME ReAuthenticates = FALSE, Inv, NEW c \in Conns,
         SessionError(c) \/ \E u \in Users : Authenticate(c, u)
  PROVE  Inv'
  <1>1. /\ conn[c] \in ConnState /\ conn \in [Conns -> ConnState]
        /\ ConnOK(c, conn[c], Has(index, c))
        /\ sessionErrors \in 0 .. MaxSessionErrors /\ stop \in BOOLEAN
    BY Typed DEF Inv, ConnsOK, TypeOK
  <1>2. CASE SessionError(c)
    <2> DEFINE r == [conn[c] EXCEPT !.token = FALSE]
    <2>1. conn' = [conn EXCEPT ![c] = r]
      BY <1>1, <1>2 DEF SessionError
    <2>2. /\ r \in ConnState /\ r.pump = conn[c].pump /\ r.user = conn[c].user
          /\ r.registering = conn[c].registering /\ r.writer = conn[c].writer
          /\ r.active = conn[c].active /\ r.send = conn[c].send
      BY <1>1 DEF ConnState
    <2> HIDE DEF r
    <2>3. OneConn(c, r)
      BY <2>1, <2>2, <1>1, <1>2
         DEF OneConn, SessionError, ConnOK, Holds, NeedsOpen
    <2>4. sessionErrors' \in 0 .. MaxSessionErrors
      BY <1>1, <1>2, WebHubAssumption DEF SessionError, DropsSession
    <2> QED BY <2>3, <2>4, <2>2, <1>1, <1>2, OutsideInv DEF SessionError
  <1>3. ASSUME NEW u \in Users, Authenticate(c, u)
        PROVE  Inv'
    <2> DEFINE r == [conn[c] EXCEPT !.user = u, !.token = TRUE,
                                    !.registering = TRUE]
    <2>1. conn' = [conn EXCEPT ![c] = r]
      BY <1>1, <1>3 DEF Authenticate
    <2>2. /\ r \in ConnState /\ r.pump = conn[c].pump /\ r.user = u
          /\ r.registering = TRUE /\ r.writer = conn[c].writer
          /\ r.active = conn[c].active /\ r.send = conn[c].send
      BY <1>1 DEF ConnState
    <2> HIDE DEF r
    <2>3. conn[c].user = NoUser /\ conn[c].pump = "run"
      BY <1>3 DEF Authenticate
    <2>4. ~Has(index, c)
      BY <2>3, <1>1, WebHubAssumption DEF ConnOK
    <2>5. OneConn(c, r)
      BY <2>1, <2>2, <2>3, <2>4, <1>1, <1>3
         DEF OneConn, Authenticate, ConnOK, Holds, NeedsOpen
    <2> QED BY <2>5, <2>2, <1>1, <1>3, OutsideInv DEF Authenticate
  <1> QED BY <1>2, <1>3

-----------------------------------------------------------------------------

(* The type of the state of the hub's goroutine. *)
HubState == [pc : {"loop", "hello", "ranging", "rangingAll", "reaping",
                   "stopping", "stopped"},
             cand : Seq(Conns), i : Nat, rest : SUBSET Conns,
             user : Users \cup {NoUser}]

(* Connection c leaves the index; its channel is closed unless c is         *)
(* inactive.                                                                *)
Leaves(c) ==
  /\ Has(index, c)
  /\ index' = Remove(index, c, conn[c].user)
  /\ \A k \in Conns : k # conn[c].send => chan'[k] = chan[k]
  /\ chan'[conn[c].send].open => chan' = chan /\ ~conn[c].active
  /\ UNCHANGED <<conn, connectionCount>>

(* Removing a connection, and closing its channel, concerns no other one.   *)
LEMMA LeavesInv ==
  ASSUME Inv, NEW c \in Conns, Leaves(c)
  PROVE  /\ IndexAgrees' /\ ConnsOK' /\ ChannelsOK' /\ CountSettles'
         /\ Removal(index, index', UserOf, c, conn[c].user)
  <1>1. /\ conn \in [Conns -> ConnState] /\ IsIndex(index)
        /\ \A d \in Conns : conn[d] \in ConnState /\ UserOf[d] = conn[d].user
    BY Typed DEF Inv
  <1>2. Removal(index, index', UserOf, c, conn[c].user)
    BY <1>1, RemoveIs DEF Inv, IndexAgrees, Leaves
  <1>3. UserOf' = UserOf /\ conn' = conn
    BY DEF UserOf, Leaves
  <1>4. \A d \in Conns : Has(index', d) <=> Has(index, d) /\ d # c
    BY <1>2 DEF Removal
  <1>5. IndexAgrees'
    BY <1>1, <1>3, RemoveAgrees DEF Inv, IndexAgrees, Leaves
  <1>6. ConnsOK'
    BY <1>3, <1>4 DEF Inv, ConnsOK, ConnOK
  <1>7. ChannelsOK'
    <2>1. \A d, e \in Conns :
            d # e /\ Holds(conn[d], Has(index', d))
                  /\ Holds(conn[e], Has(index', e))
              => conn[d].send # conn[e].send
      BY <1>4 DEF Inv, ChannelsOK, Holds
    <2>2. \A d, e \in Conns :
            d # e /\ conn[d].pump = "none" => conn[e].send # d
      BY DEF Inv, ChannelsOK
    <2>3. ASSUME NEW d \in Conns, NeedsOpen(conn[d], Has(index', d))
          PROVE  chan'[conn[d].send].open
      <3>1. d # c
        <4>1. ConnOK(c, conn[c], Has(index, c)) /\ Has(index, c)
          BY DEF Inv, ConnsOK, Leaves
        <4> QED BY <4>1, <2>3, <1>4, WebHubAssumption DEF ConnOK, NeedsOpen
      <3>2. NeedsOpen(conn[d], Has(index, d))
        BY <2>3, <3>1, <1>4 DEF NeedsOpen
      <3>3. conn[d].send # conn[c].send
        <4>1. CASE conn[d].pump = "none"
          <5>1. conn[d].send = d
            BY <4>1 DEF Inv, ConnsOK, ConnOK
          <5>2. conn[c].send # d
            BY <4>1, <3>1 DEF Inv, ChannelsOK
          <5> QED BY <5>1, <5>2
        <4>2. CASE conn[d].pump # "none"
          <5>1. ConnOK(d, conn[d], Has(index, d))
            BY DEF Inv, ConnsOK
          <5>2. Holds(conn[d], Has(index, d)) /\ Holds(conn[c], Has(index, c))
            BY <5>1, <4>2, <3>2 DEF NeedsOpen, Holds, ConnOK, Leaves
          <5> QED BY <5>2, <3>1 DEF Inv, ChannelsOK
        <4> QED BY <4>1, <4>2
      <3>4. conn[d].send \in Conns
        BY <1>1 DEF ConnState
      <3>5. chan[conn[d].send].open
        BY <3>2 DEF Inv, ChannelsOK
      <3> QED BY <3>3, <3>4, <3>5 DEF Leaves
    <2> QED BY <2>1, <2>2, <2>3, <1>3 DEF ChannelsOK
  <1>8. CountSettles'
    <2>1. SUFFICES ASSUME \A d \in Conns :
                            conn[d].active => chan'[conn[d].send].open
                   PROVE  connectionCount = AllActive(conn, index')
      BY <1>3 DEF CountSettles, Leaves
    <2>2. ~conn[c].active
      BY <2>1 DEF Leaves
    <2>3. \A d \in Conns : conn[d].active => chan[conn[d].send].open
      <3>1. \A d \in Conns : conn[d].send \in Conns
        BY <1>1 DEF ConnState
      <3> QED BY <3>1, <2>1 DEF Leaves
    <2>4. AllActive(conn, index') = AllActive(conn, index)
      BY <2>2, <1>4, CountSame
    <2> QED BY <2>3, <2>4 DEF Inv, CountSettles
  <1> QED BY <1>2, <1>5, <1>6, <1>7, <1>8

(* A connection of the index has an open channel and can be removed, so an  *)
(* offer does not panic.                                                    *)
LEMMA NoPanic ==
  ASSUME Inv, NEW c \in Conns, Has(index, c)
  PROVE  /\ chan[conn[c].send].open
         /\ ~RemovePanics(index, c, conn[c].user)
         /\ conn[c].user \in Users
  <1>1. /\ IsIndex(index) /\ Agrees(index, UserOf) /\ UserOf[c] = conn[c].user
    BY Typed DEF Inv, IndexAgrees
  <1>2. ~RemovePanics(index, c, UserOf[c]) /\ UserOf[c] \in Users
    BY <1>1, PlaceInSlice
  <1>3. NeedsOpen(conn[c], Has(index, c))
    BY DEF NeedsOpen
  <1> QED BY <1>1, <1>2, <1>3 DEF Inv, ChannelsOK

(* Closing a full channel rewrites, in the slice being ranged over, the     *)
(* place of the removed connection only.                                    *)
LEMMA AliasedIs ==
  ASSUME NEW s \in Seq(Conns), NEW ix, NEW c \in Conns, NEW u,
         LastFor(ix, u) \in Conns
  PROVE  /\ Aliased(s, ix, c, u) \in Seq(Conns)
         /\ Aliased(s, ix, c, u) \in [1 .. Len(s) -> Conns]
         /\ \A j \in 1 .. Len(s) : j # ix.byConnection[c] + 1 =>
              Aliased(s, ix, c, u)[j] = s[j]
  <1>1. Len(s) \in Nat /\ s \in [1 .. Len(s) -> Conns]
    OBVIOUS
  <1>2. /\ Aliased(s, ix, c, u) \in [1 .. Len(s) -> Conns]
        /\ \A j \in 1 .. Len(s) : j # ix.byConnection[c] + 1 =>
             Aliased(s, ix, c, u)[j] = s[j]
    BY <1>1 DEF Aliased
  <1> HIDE DEF Aliased
  <1>3. Aliased(s, ix, c, u) \in Seq(Conns)
    BY <1>1, <1>2
  <1> QED BY <1>2, <1>3

(* What an offer to a connection of the index leaves. *)
LEMMA OfferInv ==
  ASSUME Inv, NEW c \in Conns, Has(index, c), NEW after \in HubState,
         Offer(c, after), UNCHANGED <<conn, connectionCount>>
  PROVE  /\ IndexAgrees' /\ ConnsOK' /\ ChannelsOK' /\ CountSettles'
         /\ IsIndex(index)'
         /\ chan' \in [Conns -> [open : BOOLEAN, len : 0 .. sendQueueSize]]
         /\ hub' \in HubState
         /\ \/ index' = index /\ hub' = after
            \/ /\ Removal(index, index', UserOf, c, conn[c].user)
               /\ hub' = IF after.pc = "ranging" /\ after.user = conn[c].user
                           THEN [after EXCEPT !.cand =
                                   Aliased(@, index, c, conn[c].user)]
                           ELSE after
  <1>1. /\ chan[conn[c].send].open
        /\ ~RemovePanics(index, c, conn[c].user)
    BY NoPanic
  <1>2. /\ conn \in [Conns -> ConnState] /\ IsIndex(index)
        /\ conn[c].send \in Conns
        /\ chan \in [Conns -> [open : BOOLEAN, len : 0 .. sendQueueSize]]
    BY Typed DEF Inv, TypeOK, ConnState
  <1>3. CASE chan[conn[c].send].len = sendQueueSize
    <2>1. Closed(c, after)
      BY <1>1, <1>3 DEF Offer
    <2>2. chan' = [chan EXCEPT ![conn[c].send].open = FALSE]
      BY <2>1 DEF Closed
    <2>3. Leaves(c)
      <3>1. chan'[conn[c].send].open = FALSE
        BY <2>2, <1>2
      <3> QED BY <2>1, <2>2, <3>1, <1>2 DEF Closed, Leaves
    <2>4. /\ IndexAgrees' /\ ConnsOK' /\ ChannelsOK' /\ CountSettles'
          /\ Removal(index, index', UserOf, c, conn[c].user)
      BY <2>3, LeavesInv
    <2>5. chan' \in [Conns -> [open : BOOLEAN, len : 0 .. sendQueueSize]]
      BY <2>2, <1>2
    <2>6. IsIndex(index)' /\ LastFor(index, conn[c].user) \in Conns
      BY <2>4 DEF Removal
    <2>7. hub' \in HubState
      <3>1. after.cand \in Seq(Conns)
        BY DEF HubState
      <3>2. Aliased(after.cand, index, c, conn[c].user) \in Seq(Conns)
        BY <3>1, <2>6, AliasedIs
      <3>3. \/ hub' = after
            \/ hub' = [after EXCEPT !.cand =
                         Aliased(after.cand, index, c, conn[c].user)]
        BY <2>1 DEF Closed
      <3> QED BY <3>2, <3>3 DEF HubState
    <2> QED BY <2>1, <2>4, <2>5, <2>6, <2>7 DEF Closed
  <1>4. CASE chan[conn[c].send].len # sendQueueSize
    <2>1. /\ chan' = [chan EXCEPT ![conn[c].send].len = @ + 1]
          /\ hub' = after /\ index' = index
      BY <1>1, <1>4 DEF Offer
    <2>2. chan[conn[c].send].len + 1 \in 0 .. sendQueueSize
      BY <1>2, <1>4, WebHubAssumption
    <2>3. chan' \in [Conns -> [open : BOOLEAN, len : 0 .. sendQueueSize]]
      BY <2>1, <2>2, <1>2
    <2>4. \A k \in Conns : chan'[k].open = chan[k].open
      BY <2>1, <1>2
    <2>5. \A d \in Conns : conn[d].send \in Conns
      BY <1>2 DEF ConnState
    <2>6. ChannelsOK'
      BY <2>1, <2>4, <2>5 DEF Inv, ChannelsOK
    <2>7. IndexAgrees' /\ ConnsOK' /\ CountSettles'
      BY <2>1, <2>4, <2>5 DEF Inv, IndexAgrees, UserOf, ConnsOK, CountSettles
    <2> QED BY <2>1, <2>3, <2>6, <2>7, <1>2
  <1> QED BY <1>3, <1>4

(* The hub's goroutine at the top of its loop. *)
LEMMA LoopOK == Loop \in HubState /\ Loop.pc = "loop"
  <1>1. <<>> \in Seq(Conns)
    OBVIOUS
  <1> QED BY <1>1 DEF Loop, HubState

(* TypeOK after a step, from its parts. *)
LEMMA TypeParts ==
  ASSUME conn' \in [Conns -> ConnState], IsIndex(index)', hub' \in HubState,
         chan' \in [Conns -> [open : BOOLEAN, len : 0 .. sendQueueSize]],
         stop' \in BOOLEAN, connectionCount' \in Nat,
         sessionErrors' \in 0 .. MaxSessionErrors,
         snapshot' \in Seq(Conns), served' \in Seq(Conns)
  PROVE  TypeOK'
  BY DEF TypeOK, IsIndex, HubState

(* And back, before it. *)
LEMMA PartsOf ==
  ASSUME TypeOK
  PROVE  /\ conn \in [Conns -> ConnState] /\ IsIndex(index) /\ hub \in HubState
         /\ chan \in [Conns -> [open : BOOLEAN, len : 0 .. sendQueueSize]]
         /\ stop \in BOOLEAN /\ connectionCount \in Nat
         /\ sessionErrors \in 0 .. MaxSessionErrors
         /\ snapshot \in Seq(Conns) /\ served \in Seq(Conns)
  BY DEF TypeOK, IsIndex, HubState

(* Steps that end in a place other than those with an invariant of their    *)
(* own.                                                                     *)
LEMMA ElsewhereInv ==
  ASSUME hub'.pc \notin {"hello", "ranging", "reaping"}
  PROVE  RangingOK' /\ RestOK'
  BY DEF RangingOK, RestOK

(* A response to a request. *)
LEMMA DirectMsgInv ==
  ASSUME Inv, NEW c \in Conns, DirectMsg(c)
  PROVE  Inv'
  <1>1. /\ Has(index, c) /\ Offer(c, Loop)
        /\ UNCHANGED <<conn, stop, connectionCount, sessionErrors, snapshot,
                       served>>
    BY DEF DirectMsg, history
  <1>2. /\ IndexAgrees' /\ ConnsOK' /\ ChannelsOK' /\ CountSettles'
        /\ IsIndex(index)'
        /\ chan' \in [Conns -> [open : BOOLEAN, len : 0 .. sendQueueSize]]
        /\ hub' \in HubState /\ hub' = Loop
    BY <1>1, LoopOK, OfferInv
  <1>3. TypeOK'
    BY <1>1, <1>2, PartsOf, TypeParts DEF Inv
  <1>4. RangingOK' /\ RestOK'
    BY <1>2, LoopOK, ElsewhereInv
  <1> QED BY <1>2, <1>3, <1>4 DEF Inv

(* What one step of a broadcast leaves, whether it sends, closes or skips.  *)
LEMMA BroadcastToInv ==
  ASSUME Inv, NEW c \in Conns, NEW after \in HubState,
         BroadcastTo(c, after), UNCHANGED <<conn, connectionCount>>
  PROVE  /\ IndexAgrees' /\ ConnsOK' /\ ChannelsOK' /\ CountSettles'
         /\ IsIndex(index)'
         /\ chan' \in [Conns -> [open : BOOLEAN, len : 0 .. sendQueueSize]]
         /\ hub' \in HubState
         /\ \/ index' = index /\ hub' = after
            \/ /\ Has(index, c)
               /\ Removal(index, index', UserOf, c, conn[c].user)
               /\ hub' = IF after.pc = "ranging" /\ after.user = conn[c].user
                           THEN [after EXCEPT !.cand =
                                   Aliased(@, index, c, conn[c].user)]
                           ELSE after
  <1>1. CASE Has(index, c) /\ Offer(c, after)
    BY <1>1, OfferInv
  <1>2. CASE hub' = after /\ UNCHANGED <<chan, index>>
    <2>1. IndexAgrees' /\ ConnsOK' /\ ChannelsOK' /\ CountSettles'
      BY <1>2 DEF Inv, IndexAgrees, UserOf, ConnsOK, ChannelsOK, CountSettles
    <2> QED BY <2>1, <1>2, PartsOf DEF Inv
  <1> QED BY <1>1, <1>2 DEF BroadcastTo

(* The loop of a broadcast to everyone. *)
LEMMA RangeAllStepInv ==
  ASSUME Inv, NEW c \in Conns, RangeAllStep(c)
  PROVE  Inv'
  <1> DEFINE after == After(c, "rangingAll")
  <1>1. /\ after \in HubState /\ after.pc \notin {"hello", "ranging", "reaping"}
    <2>1. hub \in HubState
      BY PartsOf DEF Inv
    <2> QED BY <2>1, LoopOK DEF After, HubState
  <1>2. /\ BroadcastTo(c, after)
        /\ UNCHANGED <<conn, stop, connectionCount, sessionErrors, snapshot,
                       served>>
    BY DEF RangeAllStep, history
  <1> HIDE DEF after
  <1>3. /\ IndexAgrees' /\ ConnsOK' /\ ChannelsOK' /\ CountSettles'
        /\ IsIndex(index)'
        /\ chan' \in [Conns -> [open : BOOLEAN, len : 0 .. sendQueueSize]]
        /\ hub' \in HubState /\ hub' = after
    BY <1>1, <1>2, BroadcastToInv
  <1>4. TypeOK'
    BY <1>2, <1>3, PartsOf, TypeParts DEF Inv
  <1>5. RangingOK' /\ RestOK'
    BY <1>1, <1>3, ElsewhereInv
  <1> QED BY <1>3, <1>4, <1>5 DEF Inv

(* The loop of a broadcast to a user: a removal writes at or below the      *)
(* place the loop is at, so what is left of the slice stays as it was       *)
(* (web_hub.go:543-546 and 629).                                            *)
LEMMA RangeStepInv ==
  ASSUME Inv, RangeStep
  PROVE  Inv'
  <1> DEFINE n == Len(snapshot)
             i == hub.i
             c == snapshot[i + 1]
             after == [hub EXCEPT !.i = @ + 1]
  <1>1. /\ hub \in HubState /\ snapshot \in Seq(Conns) /\ served \in Seq(Conns)
        /\ i \in Nat /\ n \in Nat /\ hub.cand \in Seq(Conns)
    BY PartsOf DEF Inv, HubState
  <1>2. /\ hub.pc = "ranging" /\ i < Len(hub.cand)
        /\ served' = Append(served, hub.cand[i + 1])
        /\ BroadcastTo(hub.cand[i + 1], after)
        /\ UNCHANGED <<conn, stop, connectionCount, sessionErrors, snapshot>>
    BY DEF RangeStep
  <1>3. /\ i <= n /\ Len(hub.cand) = n /\ Len(served) = i
        /\ \A j \in 1 .. i : served[j] = snapshot[j]
        /\ \A j \in i + 1 .. n :
             /\ hub.cand[j] = snapshot[j]
             /\ Has(index, snapshot[j]) => index.byConnection[snapshot[j]] < j
    BY <1>2 DEF Inv, RangingOK
  <1>4. i + 1 \in i + 1 .. n /\ i + 1 \in 1 .. n
    BY <1>1, <1>2, <1>3
  <1>5. /\ c \in Conns /\ hub.cand[i + 1] = c
        /\ Has(index, c) => index.byConnection[c] < i + 1
    BY <1>1, <1>3, <1>4
  <1>6. /\ after \in HubState /\ after.i = i + 1 /\ after.pc = "ranging"
        /\ after.cand = hub.cand
    <2>1. hub.i + 1 \in Nat
      BY <1>1
    <2>2. after \in HubState
      BY <2>1, <1>1 DEF HubState
    <2>3. after.i = i + 1 /\ after.pc = hub.pc /\ after.cand = hub.cand
      BY <1>1 DEF HubState
    <2> QED BY <2>2, <2>3, <1>2
  <1>7. /\ served' \in Seq(Conns) /\ Len(served') = i + 1
        /\ \A j \in 1 .. i + 1 : served'[j] = snapshot[j]
    <2>1. served' = Append(served, c)
      BY <1>2, <1>5
    <2> QED BY <2>1, <1>1, <1>3, <1>5
  <1>8. BroadcastTo(c, after)
    BY <1>2, <1>5
  <1> HIDE DEF n, i, c, after
  <1>9. /\ IndexAgrees' /\ ConnsOK' /\ ChannelsOK' /\ CountSettles'
        /\ IsIndex(index)'
        /\ chan' \in [Conns -> [open : BOOLEAN, len : 0 .. sendQueueSize]]
        /\ hub' \in HubState
        /\ \/ index' = index /\ hub' = after
           \/ /\ Has(index, c)
              /\ Removal(index, index', UserOf, c, conn[c].user)
              /\ hub' = IF after.pc = "ranging" /\ after.user = conn[c].user
                          THEN [after EXCEPT !.cand =
                                  Aliased(@, index, c, conn[c].user)]
                          ELSE after
    BY <1>2, <1>5, <1>6, <1>8, BroadcastToInv
  <1>10. TypeOK'
    BY <1>1, <1>2, <1>7, <1>9, PartsOf, TypeParts DEF Inv
  <1>11. /\ hub'.i = i + 1 /\ hub'.pc = "ranging" /\ Len(hub'.cand) = n
         /\ \A j \in i + 2 .. n :
              /\ hub'.cand[j] = snapshot[j]
              /\ Has(index', snapshot[j]) => index'.byConnection[snapshot[j]] < j
    <2>1. \A j \in i + 2 .. n : j \in i + 1 .. n
      BY <1>1
    <2>2. CASE index' = index /\ hub' = after
      BY <2>1, <2>2, <1>3, <1>6
    <2>3. CASE /\ Has(index, c)
               /\ Removal(index, index', UserOf, c, conn[c].user)
               /\ hub' = IF after.pc = "ranging" /\ after.user = conn[c].user
                           THEN [after EXCEPT !.cand =
                                   Aliased(@, index, c, conn[c].user)]
                           ELSE after
      <3> DEFINE u == conn[c].user
                 last == LastFor(index, u)
                 s == Aliased(hub.cand, index, c, u)
      <3>1. /\ last \in Conns
            /\ last # c => index'.byConnection[last] = index.byConnection[c]
            /\ \A d \in Conns \ {c, last} :
                 index'.byConnection[d] = index.byConnection[d]
            /\ \A d \in Conns : Has(index', d) <=> Has(index, d) /\ d # c
        BY <2>3 DEF Removal
      <3>2. /\ s \in Seq(Conns) /\ Len(s) = n
            /\ \A j \in 1 .. n : j # index.byConnection[c] + 1 =>
                 s[j] = hub.cand[j]
        <4>1. /\ s \in Seq(Conns) /\ Len(s) = Len(hub.cand)
              /\ \A j \in 1 .. Len(hub.cand) : j # index.byConnection[c] + 1 =>
                   s[j] = hub.cand[j]
          <5>1. hub.cand \in Seq(Conns) /\ c \in Conns
            BY <1>1, <1>5
          <5>2. LastFor(index, u) \in Conns
            BY <3>1
          <5> HIDE DEF u
          <5> HIDE DEF s
          <5>3. s = Aliased(hub.cand, index, c, u)
            BY DEF s
          <5>4. s \in Seq(Conns)
            BY <5>1, <5>2, <5>3, AliasedIs
          <5>5. Len(s) = Len(hub.cand)
            <6>1. s \in [1 .. Len(hub.cand) -> Conns]
              BY <5>1, <5>2, <5>3, AliasedIs
            <6>2. Len(hub.cand) \in Nat
              BY <5>1
            <6> QED BY <6>1, <6>2, <5>4
          <5>6. ASSUME NEW j \in 1 .. Len(hub.cand),
                       j # index.byConnection[c] + 1
                PROVE  s[j] = hub.cand[j]
            BY <5>1, <5>2, <5>3, <5>6, AliasedIs
          <5> QED BY <5>4, <5>5, <5>6
        <4> HIDE DEF s
        <4> QED BY <4>1, <1>3
      <3>3. index.byConnection[c] \in Nat /\ index.byConnection[c] < i + 1
        <4>1. index.byConnection \in [Conns -> Nat \cup {Absent}]
          BY PartsOf, IndexFields DEF Inv
        <4> QED BY <4>1, <2>3, <1>5 DEF Has
      <3>4. \/ hub' = after
            \/ hub' = [after EXCEPT !.cand = s]
        BY <2>3, <1>6
      <3>5. /\ hub'.i = i + 1 /\ hub'.pc = "ranging"
            /\ hub'.cand = hub.cand \/ hub'.cand = s
        BY <3>4, <1>6 DEF HubState
      <3> HIDE DEF s, last, u
      <3>6. ASSUME NEW j \in i + 2 .. n
            PROVE  /\ hub'.cand[j] = snapshot[j]
                   /\ Has(index', snapshot[j]) =>
                        index'.byConnection[snapshot[j]] < j
        <4>1. j \in i + 1 .. n /\ j \in 1 .. n /\ j > i + 1
          BY <1>1
        <4>2. /\ hub.cand[j] = snapshot[j]
              /\ Has(index, snapshot[j]) => index.byConnection[snapshot[j]] < j
          BY <4>1, <1>3
        <4>3. j # index.byConnection[c] + 1
          BY <4>1, <3>3, <1>1
        <4>4. hub'.cand[j] = snapshot[j]
          BY <4>1, <4>2, <4>3, <3>2, <3>5
        <4>5. snapshot[j] \in Conns
          BY <4>1, <1>1 DEF n
        <4>6. ASSUME Has(index', snapshot[j])
              PROVE  index'.byConnection[snapshot[j]] < j
          <5>1. Has(index, snapshot[j]) /\ snapshot[j] # c
            BY <4>5, <4>6, <3>1
          <5>2. CASE snapshot[j] = last
            <6>1. index'.byConnection[snapshot[j]] = index.byConnection[c]
              BY <5>1, <5>2, <3>1
            <6> QED BY <6>1, <4>1, <3>3, <1>1
          <5>3. CASE snapshot[j] # last
            <6>1. index'.byConnection[snapshot[j]]
                    = index.byConnection[snapshot[j]]
              BY <5>1, <5>3, <4>5, <3>1
            <6> QED BY <6>1, <5>1, <4>2
          <5> QED BY <5>2, <5>3
        <4> QED BY <4>4, <4>6
      <3> QED BY <3>2, <3>5, <3>6, <1>3
    <2> QED BY <2>2, <2>3, <1>9
  <1>12. RangingOK'
    <2>1. Len(snapshot') = n /\ snapshot' = snapshot /\ i + 1 <= n
      BY <1>2, <1>4, <1>1 DEF n
    <2>2. hub'.i + 1 = i + 2
      BY <1>11, <1>1
    <2> QED BY <2>1, <2>2, <1>7, <1>11 DEF RangingOK
  <1>13. RestOK'
    BY <1>11 DEF RestOK
  <1> QED BY <1>9, <1>10, <1>12, <1>13 DEF Inv

-----------------------------------------------------------------------------

(* Steps of the hub's goroutine that touch neither the connections nor the  *)
(* index.                                                                   *)
LEMMA HubMovesInv ==
  ASSUME Inv, UNCHANGED <<conn, chan, index, connectionCount, sessionErrors>>,
         stop' \in BOOLEAN, hub' \in HubState,
         snapshot' \in Seq(Conns), served' \in Seq(Conns),
         RangingOK', RestOK'
  PROVE  Inv'
  <1>1. IndexAgrees' /\ ConnsOK' /\ ChannelsOK' /\ CountSettles'
    BY DEF Inv, IndexAgrees, UserOf, ConnsOK, ChannelsOK, CountSettles
  <1>2. TypeOK'
    BY PartsOf, TypeParts DEF Inv
  <1> QED BY <1>1, <1>2 DEF Inv

(* Broadcasts end and begin; the reaper begins; the hub stops. *)
LEMMA SimpleMovesInv ==
  ASSUME Inv, RangeEnds \/ BroadcastAll \/ RemoveInactiveConnections
                \/ Stop \/ HubStops \/ DidStop
  PROVE  Inv'
  <1>1. /\ hub \in HubState /\ snapshot \in Seq(Conns) /\ served \in Seq(Conns)
        /\ stop \in BOOLEAN /\ <<>> \in Seq(Conns)
    BY PartsOf DEF Inv
  <1>2. CASE RangeEnds
    <2>1. RangingOK' /\ RestOK'
      BY <1>2, LoopOK, ElsewhereInv DEF RangeEnds
    <2> QED BY <1>1, <1>2, <2>1, LoopOK, HubMovesInv DEF RangeEnds
  <1>3. CASE BroadcastAll
    <2>1. /\ hub' \in HubState /\ hub'.pc = "rangingAll"
      BY <1>1, <1>3 DEF BroadcastAll, Loop, HubState, All
    <2>2. RangingOK' /\ RestOK'
      BY <2>1, ElsewhereInv
    <2> QED BY <1>1, <1>3, <2>1, <2>2, HubMovesInv DEF BroadcastAll, history
  <1>4. CASE RemoveInactiveConnections
    <2>1. PICK S \in SUBSET {c \in All(index) : ~conn[c].active} :
            hub' = [Loop EXCEPT !.pc = "reaping", !.rest = S]
      BY <1>4 DEF RemoveInactiveConnections
    <2>2. /\ S \in SUBSET Conns
          /\ \A c \in S : ~conn[c].active /\ conn[c].pump = "done"
      BY <2>1 DEF All, Inv, ConnsOK, ConnOK
    <2>3. /\ hub' \in HubState /\ hub'.pc = "reaping" /\ hub'.rest = S
      BY <1>1, <2>1, <2>2 DEF Loop, HubState
    <2>4. conn' = conn
      BY <1>4 DEF RemoveInactiveConnections
    <2>5. RangingOK' /\ RestOK'
      BY <2>2, <2>3, <2>4 DEF RangingOK, RestOK
    <2> QED BY <1>1, <1>4, <2>3, <2>5, HubMovesInv
            DEF RemoveInactiveConnections, history
  <1>5. CASE Stop
    <2>1. RangingOK' /\ RestOK'
      BY <1>5 DEF Inv, RangingOK, RestOK, Stop, history
    <2> QED BY <1>1, <1>5, <2>1, HubMovesInv DEF Stop, history
  <1>6. CASE HubStops
    <2>1. /\ hub' \in HubState /\ hub'.pc = "stopping"
      BY <1>1, <1>6 DEF HubStops, Loop, HubState, All
    <2>2. RangingOK' /\ RestOK'
      BY <2>1, ElsewhereInv
    <2> QED BY <1>1, <1>6, <2>1, <2>2, HubMovesInv DEF HubStops, history
  <1>7. CASE DidStop
    <2>1. /\ hub' \in HubState /\ hub'.pc = "stopped"
      BY <1>1, <1>7 DEF DidStop, Loop, HubState
    <2>2. RangingOK' /\ RestOK'
      BY <2>1, ElsewhereInv
    <2> QED BY <1>1, <1>7, <2>1, <2>2, HubMovesInv DEF DidStop, history
  <1> QED BY <1>2, <1>3, <1>4, <1>5, <1>6, <1>7

(* A broadcast to a user begins: the places recorded in the index are those *)
(* of the slice.                                                            *)
LEMMA BroadcastUserInv ==
  ASSUME Inv, NEW u \in Users, BroadcastUser(u)
  PROVE  Inv'
  <1> DEFINE s == index.byUserId[u]
  <1>1. /\ IsIndex(index) /\ stop \in BOOLEAN /\ <<>> \in Seq(Conns)
    BY PartsOf DEF Inv
  <1>2. s \in Seq(Conns) /\ Len(s) \in Nat
    BY <1>1, IndexFields
  <1>3. /\ hub' = [Loop EXCEPT !.pc = "ranging", !.cand = s, !.user = u]
        /\ snapshot' = s /\ served' = <<>> /\ index' = index
    BY DEF BroadcastUser, ForUser
  <1>4. \A j \in 1 .. Len(s) : index.byConnection[s[j]] = j - 1
    BY <1>1, SliceInPlace DEF Inv, IndexAgrees
  <1> HIDE DEF s
  <1>5. /\ hub' \in HubState /\ hub'.pc = "ranging" /\ hub'.i = 0
        /\ hub'.cand = s
    BY <1>2, <1>3 DEF Loop, HubState
  <1>6. RangingOK'
    BY <1>2, <1>3, <1>4, <1>5 DEF RangingOK
  <1>7. RestOK'
    BY <1>5 DEF RestOK
  <1> QED BY <1>1, <1>2, <1>3, <1>5, <1>6, <1>7, HubMovesInv DEF BroadcastUser

(* A write pump takes a message from its channel. *)
LEMMA WriterReceivesInv ==
  ASSUME Inv, NEW c \in Conns, WriterReceives(c)
  PROVE  Inv'
  <1>1. /\ conn \in [Conns -> ConnState]
        /\ chan \in [Conns -> [open : BOOLEAN, len : 0 .. sendQueueSize]]
        /\ \A d \in Conns : conn[d].send \in Conns
    BY PartsOf DEF Inv, ConnState
  <1> DEFINE k == conn[c].send
  <1>2. /\ chan' = [chan EXCEPT ![k].len = @ - 1] /\ chan[k].len > 0
        /\ UNCHANGED <<conn, index, hub, stop, connectionCount, sessionErrors,
                       snapshot, served>>
    BY DEF WriterReceives, history
  <1>3. k \in Conns
    BY <1>1
  <1> HIDE DEF k
  <1>4. chan[k].len - 1 \in 0 .. sendQueueSize
    BY <1>1, <1>2, <1>3, WebHubAssumption
  <1>5. chan' \in [Conns -> [open : BOOLEAN, len : 0 .. sendQueueSize]]
    BY <1>1, <1>2, <1>3, <1>4
  <1>6. \A d \in Conns : chan'[d].open = chan[d].open
    BY <1>1, <1>2, <1>3
  <1>7. TypeOK'
    BY <1>2, <1>5 DEF Inv, TypeOK
  <1>8. IndexAgrees' /\ ConnsOK' /\ CountSettles'
    BY <1>1, <1>2, <1>6 DEF Inv, IndexAgrees, UserOf, ConnsOK, CountSettles
  <1>9. ChannelsOK'
    BY <1>1, <1>2, <1>6 DEF Inv, ChannelsOK
  <1>10. RangingOK' /\ RestOK'
    BY <1>2 DEF Inv, RangingOK, RestOK
  <1> QED BY <1>7, <1>8, <1>9, <1>10 DEF Inv

(* The hello: its connection is in the index, so the channel is open. *)
LEMMA SendHelloInv ==
  ASSUME Inv, NEW c \in Conns, SendHello(c)
  PROVE  Inv'
  <1>1. /\ conn \in [Conns -> ConnState]
        /\ chan \in [Conns -> [open : BOOLEAN, len : 0 .. sendQueueSize]]
        /\ \A d \in Conns : conn[d].send \in Conns
    BY PartsOf DEF Inv, ConnState
  <1> DEFINE k == conn[c].send
  <1>2. k \in Conns
    BY <1>1
  <1>3. CASE chan[k].open
    <2>1. /\ chan' = [chan EXCEPT ![k].len = @ + 1]
          /\ chan[k].len < sendQueueSize /\ hub' = Loop
          /\ UNCHANGED <<conn, index, stop, connectionCount, sessionErrors,
                         snapshot, served>>
      BY <1>3 DEF SendHello, history
    <2> HIDE DEF k
    <2>2. chan[k].len + 1 \in 0 .. sendQueueSize
      BY <1>1, <1>2, <2>1, WebHubAssumption
    <2>3. chan' \in [Conns -> [open : BOOLEAN, len : 0 .. sendQueueSize]]
      BY <1>1, <1>2, <2>1, <2>2
    <2>4. \A d \in Conns : chan'[d].open = chan[d].open
      BY <1>1, <1>2, <2>1
    <2>5. TypeOK'
      BY <2>1, <2>3, LoopOK, PartsOf, TypeParts DEF Inv
    <2>6. IndexAgrees' /\ ConnsOK' /\ CountSettles'
      BY <1>1, <2>1, <2>4
         DEF Inv, IndexAgrees, UserOf, ConnsOK, CountSettles
    <2>7. ChannelsOK'
      BY <1>1, <2>1, <2>4 DEF Inv, ChannelsOK
    <2>8. RangingOK' /\ RestOK'
      BY <2>1, LoopOK, ElsewhereInv
    <2> QED BY <2>5, <2>6, <2>7, <2>8 DEF Inv
  <1>4. chan[k].open
    <2>1. Has(index, c)
      BY DEF SendHello, Inv, RestOK
    <2> QED BY <2>1, NoPanic
  <1> QED BY <1>3, <1>4

(* The reaper removes a connection, or passes by one that is gone. *)
LEMMA ReapStepInv ==
  ASSUME Inv, NEW c \in Conns, ReapStep(c)
  PROVE  Inv'
  <1>1. /\ hub.pc = "reaping" /\ c \in hub.rest
        /\ UNCHANGED <<conn, stop, connectionCount, sessionErrors, history>>
    BY DEF ReapStep
  <1>2. ~RemovePanics(index, c, conn[c].user)
    <2>1. CASE Has(index, c)
      BY <2>1, NoPanic
    <2>2. CASE ~Has(index, c)
      BY <2>2 DEF RemovePanics
    <2> QED BY <2>1, <2>2
  <1>3. Inv'
    <2> DEFINE after == After(c, "reaping")
    <2>1. /\ index' = Remove(index, c, conn[c].user) /\ hub' = after
          /\ chan' = chan
      BY <1>2 DEF ReapStep
    <2>2. /\ after \in HubState /\ after.pc \in {"loop", "reaping"}
          /\ after.rest \subseteq hub.rest
      <3>1. hub \in HubState
        BY PartsOf DEF Inv
      <3>2. CASE hub.rest = {c}
        <4>1. after = Loop /\ Loop.rest = {}
          BY <3>2 DEF After, Loop
        <4> QED BY <4>1, LoopOK
      <3>3. CASE hub.rest # {c}
        <4>1. after = [Loop EXCEPT !.pc = "reaping", !.rest = hub.rest \ {c}]
          BY <3>3 DEF After
        <4>2. hub.rest \ {c} \in SUBSET Conns
          BY <3>1 DEF HubState
        <4> QED BY <4>1, <4>2, LoopOK DEF HubState
      <3> QED BY <3>2, <3>3
    <2> HIDE DEF after
    <2>3. /\ IndexAgrees' /\ ConnsOK' /\ ChannelsOK' /\ CountSettles'
          /\ IsIndex(index)'
      <3>1. CASE Has(index, c)
        <4>1. Leaves(c)
          BY <1>1, <2>1, <3>1 DEF Leaves, Inv, RestOK
        <4> QED BY <4>1, LeavesInv DEF Removal
      <3>2. CASE ~Has(index, c)
        <4>1. index' = index
          BY <2>1, <3>2 DEF Remove
        <4> QED BY <4>1, <2>1, <1>1, PartsOf
                DEF Inv, IndexAgrees, UserOf, ConnsOK, ChannelsOK, CountSettles
      <3> QED BY <3>1, <3>2
    <2>4. TypeOK'
      BY <1>1, <2>1, <2>2, <2>3, PartsOf, TypeParts DEF Inv, history
    <2>5. RangingOK' /\ RestOK'
      BY <1>1, <2>1, <2>2 DEF Inv, RangingOK, RestOK
    <2> QED BY <2>3, <2>4, <2>5 DEF Inv
  <1> QED BY <1>3

(* The pumps of a connection have ended: it is marked inactive. *)
LEMMA UnregisterInv ==
  ASSUME Inv, NEW c \in Conns, Unregister(c)
  PROVE  Inv'
  <1>1. /\ conn[c] \in ConnState /\ conn \in [Conns -> ConnState]
        /\ ConnOK(c, conn[c], Has(index, c))
    BY Typed DEF Inv, ConnsOK
  <1> DEFINE r == [conn[c] EXCEPT !.active = FALSE, !.pump = "done"]
  <1>2. conn' = [conn EXCEPT ![c] = r]
    BY <1>1 DEF Unregister
  <1>3. /\ r \in ConnState /\ r.pump = "done" /\ r.user = conn[c].user
        /\ r.registering = conn[c].registering /\ r.writer = conn[c].writer
        /\ r.active = FALSE /\ r.send = conn[c].send
    BY <1>1 DEF ConnState
  <1> HIDE DEF r
  <1>4. OneConn(c, r)
    BY <1>1, <1>2, <1>3 DEF OneConn, Unregister, ConnOK, Holds, NeedsOpen
  <1>5. /\ IndexAgrees' /\ ConnsOK' /\ ChannelsOK'
        /\ conn' \in [Conns -> ConnState]
    BY <1>4, OneConnInv
  <1>6. /\ connectionCount' = AllActive(conn', index) /\ hub.pc = "loop"
        /\ UNCHANGED <<chan, index, hub, stop, sessionErrors, snapshot, served>>
    BY DEF Unregister, history
  <1>7. connectionCount' \in Nat
    BY <1>6, CountNat
  <1>8. TypeOK'
    BY <1>5, <1>6, <1>7 DEF Inv, TypeOK
  <1>9. RangingOK' /\ RestOK' /\ CountSettles'
    BY <1>6 DEF RangingOK, RestOK, CountSettles
  <1> QED BY <1>5, <1>8, <1>9 DEF Inv

(* The hub closes a connection's socket and waits for its pumps. *)
LEMMA CloseConnInv ==
  ASSUME Inv, NEW c \in Conns, CloseConn(c) \/ PumpFinished(c)
  PROVE  Inv'
  <1>1. /\ conn[c] \in ConnState /\ conn \in [Conns -> ConnState]
        /\ ConnOK(c, conn[c], Has(index, c)) /\ hub \in HubState
        /\ <<>> \in Seq(Conns) /\ <<c>> \in Seq(Conns)
        /\ stop \in BOOLEAN
        /\ snapshot \in Seq(Conns) /\ served \in Seq(Conns)
    BY PartsOf DEF Inv, ConnsOK
  <1>2. CASE CloseConn(c)
    <2> DEFINE r == [conn[c] EXCEPT !.sockOpen = FALSE]
    <2>1. conn' = [conn EXCEPT ![c] = r]
      BY <1>1, <1>2 DEF CloseConn
    <2>2. /\ r \in ConnState /\ r.pump = conn[c].pump /\ r.user = conn[c].user
          /\ r.registering = conn[c].registering /\ r.writer = conn[c].writer
          /\ r.active = conn[c].active /\ r.send = conn[c].send
      BY <1>1 DEF ConnState
    <2> HIDE DEF r
    <2>3. /\ hub.pc = "stopping" /\ c \in hub.rest
          /\ hub' = [hub EXCEPT !.cand = <<c>>]
          /\ UNCHANGED <<chan, index, stop, connectionCount, sessionErrors,
                         snapshot, served>>
      BY <1>2 DEF CloseConn, history
    <2>4. hub' \in HubState /\ hub'.pc = "stopping"
      BY <2>3, <1>1 DEF HubState
    <2>5. OneConn(c, r)
      BY <2>1, <2>2, <2>3, <1>1 DEF OneConn, ConnOK, Holds, NeedsOpen
    <2>6. /\ IndexAgrees' /\ ConnsOK' /\ ChannelsOK'
          /\ conn' \in [Conns -> ConnState]
          /\ conn'[c] = r /\ \A d \in Conns \ {c} : conn'[d] = conn[d]
      BY <2>5, OneConnInv
    <2>7. \A d \in Conns : conn'[d].active = conn[d].active
      BY <2>2, <2>6
    <2>8. CountSettles'
      <3>1. AllActive(conn', index') = AllActive(conn, index)
        BY <2>3, <2>7, CountSame
      <3>2. \A d \in Conns : conn'[d].send = conn[d].send
        BY <2>2, <2>6
      <3> QED BY <3>1, <3>2, <2>3, <2>7 DEF Inv, CountSettles
    <2>9. TypeOK'
      BY <2>3, <2>4, <2>6, PartsOf, TypeParts DEF Inv, IsIndex
    <2>10. RangingOK' /\ RestOK'
      BY <2>4, ElsewhereInv
    <2> QED BY <2>6, <2>8, <2>9, <2>10 DEF Inv
  <1>3. CASE PumpFinished(c)
    <2>1. /\ hub.pc = "stopping"
          /\ hub' = [hub EXCEPT !.cand = <<>>, !.rest = @ \ {c}]
      BY <1>3 DEF PumpFinished
    <2>2. hub.rest \ {c} \in SUBSET Conns
      BY <1>1 DEF HubState
    <2>3. hub' \in HubState /\ hub'.pc = "stopping"
      BY <2>1, <2>2, <1>1 DEF HubState
    <2>4. RangingOK' /\ RestOK'
      BY <2>3, ElsewhereInv
    <2> QED BY <1>1, <1>3, <2>3, <2>4, HubMovesInv DEF PumpFinished, history
  <1> QED BY <1>2, <1>3

(* A connection enters the index, which it was not in. *)
LEMMA RegisterInv ==
  ASSUME Inv, NEW c \in Conns, Register(c)
  PROVE  Inv'
  <1>1. /\ conn[c] \in ConnState /\ conn \in [Conns -> ConnState]
        /\ ConnOK(c, conn[c], Has(index, c)) /\ IsIndex(index)
        /\ UserOf[c] = conn[c].user /\ WantsRegister(c)
        /\ sessionErrors \in 0 .. MaxSessionErrors
    BY Typed DEF Inv, ConnsOK, Register, TypeOK
  <1>2. /\ ~Has(index, c) /\ conn[c].user \in Users
        /\ conn[c].pump \in {"new", "run"}
    BY <1>1 DEF ConnOK, WantsRegister
  <1>3. PICK authenticated \in BOOLEAN :
          /\ IF authenticated THEN UNCHANGED sessionErrors ELSE DropsSession
          /\ conn' = [conn EXCEPT ![c] = [Registered(@) EXCEPT
                                            !.active = TRUE,
                                            !.token = authenticated]]
          /\ hub' = IF authenticated /\ ~conn[c].reused
                      THEN [Loop EXCEPT !.pc = "hello", !.rest = {c}] ELSE Loop
    BY DEF Register
  <1> DEFINE r == [Registered(conn[c]) EXCEPT !.active = TRUE,
                                              !.token = authenticated]
  <1>4. conn' = [conn EXCEPT ![c] = r]
    BY <1>1, <1>3
  <1>5. /\ r \in ConnState /\ r.user = conn[c].user /\ r.active = TRUE
        /\ r.pump = IF conn[c].pump = "new" THEN "start" ELSE conn[c].pump
        /\ r.registering = FALSE /\ r.writer = conn[c].writer
        /\ r.send = conn[c].send
    BY <1>1 DEF ConnState, Registered
  <1> HIDE DEF r
  <1>6. /\ conn' \in [Conns -> ConnState]
        /\ conn'[c] = r /\ \A d \in Conns \ {c} : conn'[d] = conn[d]
    BY <1>1, <1>4, <1>5
  <1>7. UserOf' = UserOf
    BY <1>5, <1>6 DEF UserOf
  <1>8. /\ index' = Add(index, c, conn[c].user)
        /\ connectionCount' = AllActive(conn', index')
        /\ UNCHANGED <<chan, stop, snapshot, served>>
    BY DEF Register, history
  <1>9. /\ IsIndex(index') /\ Agrees(index', UserOf)
        /\ \A d \in Conns : Has(index', d) <=> Has(index, d) \/ d = c
    BY <1>1, <1>2, <1>8, AddAgrees DEF Inv, IndexAgrees
  <1>10. IndexAgrees'
    BY <1>7, <1>9 DEF IndexAgrees
  <1>11. ConnsOK'
    <2>1. ConnOK(c, r, TRUE)
      BY <1>1, <1>2, <1>5 DEF ConnOK
    <2>2. \A d \in Conns \ {c} :
            ConnOK(d, conn[d], Has(index, d)) /\ (Has(index', d) <=> Has(index, d))
      BY <1>9 DEF Inv, ConnsOK
    <2>3. Has(index', c)
      BY <1>9
    <2> QED BY <2>1, <2>2, <2>3, <1>6 DEF ConnsOK, ConnOK
  <1>12. ChannelsOK'
    <2>1. \A d \in Conns : conn'[d].send = conn[d].send
      BY <1>5, <1>6
    <2>2. \A d \in Conns : Holds(conn'[d], Has(index', d)) =>
                             Holds(conn[d], Has(index, d))
      BY <1>2, <1>6, <1>9 DEF Holds
    <2>3. \A d \in Conns : NeedsOpen(conn'[d], Has(index', d)) =>
                             NeedsOpen(conn[d], Has(index, d))
      BY <1>1, <1>6, <1>9 DEF NeedsOpen, WantsRegister
    <2>4. \A d \in Conns : conn'[d].pump = "none" => conn[d].pump = "none"
      BY <1>2, <1>5, <1>6
    <2> QED BY <2>1, <2>2, <2>3, <2>4, <1>8 DEF Inv, ChannelsOK
  <1>13. /\ hub' \in HubState
         /\ \/ hub'.pc = "loop"
            \/ hub'.pc = "hello" /\ hub'.rest = {c}
    BY <1>3, LoopOK DEF HubState
  <1>14. sessionErrors' \in 0 .. MaxSessionErrors
    BY <1>1, <1>3, WebHubAssumption DEF DropsSession
  <1>15. connectionCount' \in Nat
    BY <1>8, CountNat
  <1>16. TypeOK'
    BY <1>6, <1>8, <1>9, <1>13, <1>14, <1>15, PartsOf, TypeParts DEF Inv
  <1>17. RangingOK' /\ RestOK'
    BY <1>9, <1>13 DEF RangingOK, RestOK
  <1>18. CountSettles'
    BY <1>8 DEF CountSettles
  <1> QED BY <1>10, <1>11, <1>12, <1>16, <1>17, <1>18 DEF Inv

(* A reconnect takes the channel of an inactive connection, whose pumps     *)
(* have ended, and takes that connection out of the index.                  *)
LEMMA ConnectResumeInv ==
  ASSUME Inv, NEW c \in Conns, NEW u \in Users, ConnectResume(c, u)
  PROVE  Inv'
  <1>1. /\ conn[c] \in ConnState /\ conn \in [Conns -> ConnState]
        /\ \A d \in Conns : conn[d] \in ConnState /\ UserOf[d] = conn[d].user
        /\ \A d \in Conns : ConnOK(d, conn[d], Has(index, d))
        /\ IsIndex(index) /\ conn[c].pump = "none" /\ hub.pc = "loop"
        /\ UNCHANGED <<chan, hub, stop, connectionCount, sessionErrors,
                       snapshot, served>>
    BY Typed DEF Inv, ConnsOK, ConnectResume, history
  <1>2. PICK d :
          /\ d \in Conns /\ Has(index, d) /\ UserOf[d] = u
          /\ ~conn[d].active
          /\ index' = Remove(index, d, conn[d].user)
          /\ conn' = [conn EXCEPT
                         ![c].pump = "new", ![c].sockOpen = TRUE,
                         ![c].user = u, ![c].token = TRUE,
                         ![c].active = FALSE, ![c].reused = TRUE,
                         ![c].connID = conn[d].connID,
                         ![c].send = conn[d].send]
    <2>1. PICK i \in 1 .. Len(ForUser(index, u)) :
            LET d == ForUser(index, u)[i]
            IN  /\ Matches(d, conn[d].connID)
                /\ index' = Remove(index, d, conn[d].user)
                /\ conn' = [conn EXCEPT
                         ![c].pump = "new", ![c].sockOpen = TRUE,
                         ![c].user = u, ![c].token = TRUE,
                         ![c].active = FALSE, ![c].reused = TRUE,
                         ![c].connID = conn[d].connID,
                         ![c].send = conn[d].send]
      BY DEF ConnectResume
    <2>2. /\ index.byUserId[u][i] \in Conns
          /\ Has(index, index.byUserId[u][i])
          /\ UserOf[index.byUserId[u][i]] = u
      BY <1>1, <2>1, SliceInPlace, SMTT(30) DEF Inv, IndexAgrees, ForUser
    <2> QED BY <2>1, <2>2 DEF ForUser, Matches
  <1>3. /\ conn[d].pump = "done" /\ c # d /\ ~Has(index, c)
        /\ conn[d].send \in Conns /\ conn[d].connID \in Conns
        /\ conn[d].writer = FALSE /\ conn[c].writer = FALSE
        /\ conn[c].registering = FALSE /\ conn[c].active = FALSE
    <2>1. conn[d].pump = "done"
      BY <1>1, <1>2 DEF ConnOK
    <2>2. ~Has(index, c)
      BY <1>1 DEF ConnOK
    <2>3. ConnOK(c, conn[c], Has(index, c)) /\ ConnOK(d, conn[d], Has(index, d))
      BY <1>1, <1>2
    <2> QED BY <2>1, <2>2, <2>3, <1>1, <1>2 DEF ConnOK, ConnState
  <1> DEFINE r == [conn[c] EXCEPT !.pump = "new", !.sockOpen = TRUE,
                     !.user = u, !.token = TRUE, !.active = FALSE,
                     !.reused = TRUE, !.connID = conn[d].connID,
                     !.send = conn[d].send]
  <1>4. conn' = [conn EXCEPT ![c] = r]
    BY <1>1, <1>2
  <1>5. /\ r \in ConnState /\ r.user = u /\ r.active = FALSE
        /\ r.pump = "new" /\ r.registering = FALSE /\ r.writer = FALSE
        /\ r.send = conn[d].send
    BY <1>1, <1>3 DEF ConnState
  <1> HIDE DEF r
  <1>6. /\ conn' \in [Conns -> ConnState]
        /\ conn'[c] = r /\ \A e \in Conns \ {c} : conn'[e] = conn[e]
    BY <1>1, <1>4, <1>5
  <1>7. /\ Removal(index, index', UserOf, d, u) /\ Agrees(index', UserOf)
    BY <1>1, <1>2, RemoveIs, RemoveAgrees DEF Inv, IndexAgrees
  <1>8. /\ IsIndex(index')
        /\ \A e \in Conns : Has(index', e) <=> Has(index, e) /\ e # d
    BY <1>7 DEF Removal
  <1>9. IndexAgrees'
    <2>1. \A e \in Conns : Has(index', e) => UserOf'[e] = UserOf[e]
      BY <1>3, <1>6, <1>8 DEF UserOf
    <2>2. Agrees(index', UserOf')
      BY <2>1, <1>7, <1>8, AgreesToo
    <2> QED BY <2>2 DEF IndexAgrees
  <1>10. ConnsOK'
    <2>1. ~Has(index', c) /\ ConnOK(c, r, FALSE)
      BY <1>3, <1>5, <1>8 DEF ConnOK
    <2>2. ConnOK(d, conn[d], FALSE) /\ ~Has(index', d)
      BY <1>1, <1>2, <1>3, <1>8 DEF ConnOK
    <2>3. \A e \in Conns \ {c, d} :
            ConnOK(e, conn[e], Has(index, e)) /\ (Has(index', e) <=> Has(index, e))
      BY <1>1, <1>8
    <2> QED BY <2>1, <2>2, <2>3, <1>6 DEF ConnsOK, ConnOK
  <1>11. ChannelsOK'
    <2>1. Holds(conn[d], Has(index, d)) /\ ~Holds(conn[d], Has(index', d))
      BY <1>2, <1>3, <1>8 DEF Holds
    <2>2. \A e \in Conns \ {c} : Holds(conn[e], Has(index', e)) =>
                                   e # d /\ Holds(conn[e], Has(index, e))
      BY <2>1, <1>8 DEF Holds
    <2>3. \A e, f \in Conns :
            e # f /\ Holds(conn'[e], Has(index', e))
                  /\ Holds(conn'[f], Has(index', f))
              => conn'[e].send # conn'[f].send
      <3>1. \A e \in Conns \ {c} : Holds(conn[e], Has(index', e)) =>
                                     conn[e].send # conn[d].send
        BY <2>1, <2>2, <1>2 DEF Inv, ChannelsOK
      <3>2. \A e, f \in Conns \ {c} :
              e # f /\ Holds(conn[e], Has(index', e))
                    /\ Holds(conn[f], Has(index', f))
                => conn[e].send # conn[f].send
        BY <2>2 DEF Inv, ChannelsOK
      <3> QED BY <3>1, <3>2, <1>5, <1>6
    <2>4. \A e, f \in Conns :
            e # f /\ conn'[e].pump = "none" => conn'[f].send # e
      <3>1. \A e \in Conns \ {c} : conn[e].pump = "none" =>
                                     e # d /\ conn[d].send # e
        BY <1>2, <1>3 DEF Inv, ChannelsOK
      <3>2. \A e, f \in Conns \ {c} :
              e # f /\ conn[e].pump = "none" => conn[f].send # e
        BY DEF Inv, ChannelsOK
      <3> QED BY <3>1, <3>2, <1>5, <1>6
    <2>5. \A e \in Conns :
            NeedsOpen(conn'[e], Has(index', e)) => chan[conn'[e].send].open
      <3>1. chan[conn[d].send].open
        BY <1>2 DEF Inv, ChannelsOK, NeedsOpen
      <3>2. \A e \in Conns \ {c} :
              NeedsOpen(conn[e], Has(index', e)) => chan[conn[e].send].open
        BY <1>8 DEF Inv, ChannelsOK, NeedsOpen
      <3> QED BY <3>1, <3>2, <1>5, <1>6
    <2> QED BY <2>3, <2>4, <2>5, <1>1 DEF ChannelsOK
  <1>12. TypeOK'
    BY <1>1, <1>6, <1>8, PartsOf, TypeParts DEF Inv
  <1>13. RangingOK' /\ RestOK'
    BY <1>1, ElsewhereInv
  <1>14. CountSettles'
    <2>1. \A e \in Conns : conn'[e].active = conn[e].active
      BY <1>3, <1>5, <1>6
    <2>2. AllActive(conn', index') = AllActive(conn, index)
      <3>1. \A e \in Conns : Has(index', e) /\ conn'[e].active
                              <=> Has(index, e) /\ conn[e].active
        BY <2>1, <1>2, <1>8
      <3> QED BY <3>1, CountSame
    <2>3. \A e \in Conns : conn[e].active => conn'[e].send = conn[e].send
      BY <1>3, <1>6
    <2> QED BY <2>1, <2>2, <2>3, <1>1 DEF Inv, CountSettles
  <1> QED BY <1>9, <1>10, <1>11, <1>12, <1>13, <1>14 DEF Inv

-----------------------------------------------------------------------------

(* The invariant holds of a hub that has just been started. *)
LEMMA InitInv ==
  ASSUME Init
  PROVE  Inv
  <1>1. /\ conn = [c \in Conns |-> NoConn(c)]
        /\ chan = [c \in Conns |-> [open |-> TRUE, len |-> 0]]
        /\ index = NewIndex /\ hub = Loop /\ stop = FALSE
        /\ connectionCount = 0 /\ sessionErrors = 0
        /\ snapshot = <<>> /\ served = <<>>
    BY DEF Init
  <1>2. /\ IsIndex(index) /\ Agrees(index, UserOf)
        /\ \A c \in Conns : ~Has(index, c)
    BY <1>1, NewAgrees
  <1>3. \A c \in Conns : NoConn(c) \in ConnState
    BY DEF NoConn, ConnState
  <1>4. TypeOK
    <2>1. /\ conn \in [Conns -> ConnState]
          /\ chan \in [Conns -> [open : BOOLEAN, len : 0 .. sendQueueSize]]
      BY <1>1, <1>3, WebHubAssumption
    <2>2. connectionCount \in Nat /\ sessionErrors \in 0 .. MaxSessionErrors
      BY <1>1, WebHubAssumption
    <2>3. stop \in BOOLEAN
      BY <1>1
    <2>4. snapshot \in Seq(Conns) /\ served \in Seq(Conns)
      BY <1>1
    <2>5. hub \in HubState
      BY <1>1, LoopOK
    <2> QED BY <2>1, <2>2, <2>3, <2>4, <2>5, <1>2 DEF TypeOK, IsIndex, HubState
  <1>5. IndexAgrees
    BY <1>2 DEF IndexAgrees
  <1>6. ConnsOK
    BY <1>1, <1>2 DEF ConnsOK, ConnOK, NoConn
  <1>7. ChannelsOK
    BY <1>1, <1>2 DEF ChannelsOK, Holds, NoConn
  <1>8. RangingOK /\ RestOK
    BY <1>1, LoopOK DEF RangingOK, RestOK
  <1>9. CountSettles
    <2>1. {c \in All(index) : conn[c].active} = {}
      BY <1>2 DEF All
    <2> QED BY <2>1, <1>1, FS_EmptySet DEF CountSettles, AllActive
  <1> QED BY <1>4, <1>5, <1>6, <1>7, <1>8, <1>9 DEF Inv

(* Every step keeps it. *)
LEMMA NextInv ==
  ASSUME ReAuthenticates = FALSE, Inv, [Next]_vars
  PROVE  Inv'
  <1>1. CASE UNCHANGED vars
    BY <1>1 DEF vars, Inv, TypeOK, IndexAgrees, UserOf, ConnsOK, ChannelsOK,
                RangingOK, RestOK, CountSettles
  <1>2. ASSUME NEW c \in Conns, ConnStep(c)
        PROVE  Inv'
    BY <1>2, ConnectInv, ConnectResumeInv, SessionInv, PumpInv,
       WriterReceivesInv DEF ConnStep
  <1>3. ASSUME NEW c \in Conns, HubCase(c)
        PROVE  Inv'
    BY <1>3, RegisterInv, UnregisterInv, DirectMsgInv DEF HubCase
  <1>4. CASE HubBody
    BY <1>4, RangeStepInv, SimpleMovesInv, SendHelloInv, RangeAllStepInv,
       ReapStepInv, CloseConnInv DEF HubBody
  <1>5. ASSUME NEW u \in Users, BroadcastUser(u)
        PROVE  Inv'
    BY <1>5, BroadcastUserInv
  <1>6. CASE BroadcastAll \/ RemoveInactiveConnections \/ Stop \/ HubStops
    BY <1>6, SimpleMovesInv
  <1> QED BY <1>1, <1>2, <1>3, <1>4, <1>5, <1>6 DEF Next

(* The properties that the runs check follow from it. *)
LEMMA InvMeans ==
  ASSUME Inv
  PROVE  /\ TypeOK /\ IndexAgrees /\ CountSettles
         /\ IndexedAreOpen /\ OneWriter /\ EachServedOnce
  <1>1. IndexedAreOpen
    BY DEF Inv, ChannelsOK, NeedsOpen, IndexedAreOpen, All
  <1>2. OneWriter
    <2>1. \A c \in Conns : Owns(c) => Holds(conn[c], Has(index, c))
      BY DEF Inv, ConnsOK, ConnOK, Owns, Holds
    <2> QED BY <2>1 DEF Inv, ChannelsOK, OneWriter
  <1>3. EachServedOnce
    <2>1. SUFFICES ASSUME hub.pc = "ranging"
                   PROVE  served = SubSeq(snapshot, 1, hub.i)
      BY DEF EachServedOnce
    <2>2. /\ snapshot \in Seq(Conns) /\ served \in Seq(Conns) /\ hub.i \in Nat
      BY PartsOf DEF Inv, HubState
    <2>3. /\ hub.i <= Len(snapshot) /\ Len(served) = hub.i
          /\ \A j \in 1 .. hub.i : served[j] = snapshot[j]
      BY <2>1 DEF Inv, RangingOK
    <2> DEFINE t == SubSeq(snapshot, 1, hub.i)
    <2>4. /\ t \in Seq(Conns) /\ Len(t) = hub.i
          /\ \A j \in 1 .. hub.i : t[j] = snapshot[j]
      BY <2>2, <2>3
    <2> HIDE DEF t
    <2>5. served = t
      BY <2>2, <2>3, <2>4
    <2> QED BY <2>5 DEF t
  <1> QED BY <1>1, <1>2, <1>3 DEF Inv

(* The inductive invariant holds throughout. *)
THEOREM HubInvariant ==
  ASSUME ReAuthenticates = FALSE
  PROVE  Spec => []Inv
  <1>1. Init => Inv
    BY InitInv
  <1>2. Inv /\ [Next]_vars => Inv'
    BY NextInv
  <1> QED BY <1>1, <1>2, PTL DEF Spec

(* Every variable of the hub keeps its type: in particular no channel is    *)
(* filled beyond its capacity (web_hub.go:533-539).                         *)
THEOREM HubTypeCorrect ==
  ASSUME ReAuthenticates = FALSE
  PROVE  Spec => []TypeOK
  <1>1. Inv => TypeOK
    BY InvMeans
  <1> QED BY <1>1, HubInvariant, PTL

(* The two maps of hubConnectionIndex agree after any sequence of           *)
(* registrations, hand-overs, removals and reaps (web_hub.go:597-636).      *)
THEOREM HubIndexAgrees ==
  ASSUME ReAuthenticates = FALSE
  PROVE  Spec => []IndexAgrees
  <1>1. Inv => IndexAgrees
    BY InvMeans
  <1> QED BY <1>1, HubInvariant, PTL

(* A broadcast to a user comes to each connection of the slice once and in  *)
(* order, whatever is removed meanwhile (web_hub.go:543-546).               *)
THEOREM BroadcastServesEachOnce ==
  ASSUME ReAuthenticates = FALSE
  PROVE  Spec => []EachServedOnce
  <1>1. Inv => EachServedOnce
    BY InvMeans
  <1> QED BY <1>1, HubInvariant, PTL

(* The hub never sends on, nor closes, a closed channel (web_hub.go:517,    *)
(* 520, 534, 537).                                                          *)
THEOREM HubSendsOnOpenChannels ==
  ASSUME ReAuthenticates = FALSE
  PROVE  Spec => []IndexedAreOpen
  <1>1. Inv => IndexedAreOpen
    BY InvMeans
  <1> QED BY <1>1, HubInvariant, PTL

(* A send channel and its queues have one owner at a time, through any      *)
(* chain of reconnects (web_hub.go:436-446).                                *)
THEOREM ChannelHasOneWriter ==
  ASSUME ReAuthenticates = FALSE
  PROVE  Spec => []OneWriter
  <1>1. Inv => OneWriter
    BY InvMeans
  <1> QED BY <1>1, HubInvariant, PTL

(* connectionCount is right whenever every active connection is in the      *)
(* index (web_hub.go:457, 471, 538).                                        *)
THEOREM HubCountSettles ==
  ASSUME ReAuthenticates = FALSE
  PROVE  Spec => []CountSettles
  <1>1. Inv => CountSettles
    BY InvMeans
  <1> QED BY <1>1, HubInvariant, PTL
=============================================================================
