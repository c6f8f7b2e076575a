---------------------------- MODULE TxLibProofs ----------------------------
(***************************************************************************)
(* The data structures of modules/txlib, for any number of transactions,   *)
(* objects and entries, and for calls in any order.                        *)
(***************************************************************************)
EXTENDS TxLib, FiniteSetTheorems, WellFoundedInduction, TLAPS

-----------------------------------------------------------------------------
(* Functions that follow links until a node where they stop.               *)

LEMMA LowestOf ==
    ASSUME NEW S, S # {}, S \subseteq Nat
    PROVE  \E i \in S : \A j \in S : i <= j
  <1>1. PICK i \in S : \A j \in S : ~ (<<j, i>> \in OpToRel(<, Nat))
    BY NatLessThanWellFounded, WFMin
  <1>2. \A j \in S : i <= j
    <2> SUFFICES ASSUME NEW j \in S PROVE ~ (j < i)
      OBVIOUS
    <2>1. i \in Nat /\ j \in Nat
      OBVIOUS
    <2>2. <<j, i>> \in {ss \in Nat \X Nat : ss[1] < ss[2]} <=> j < i
      BY <2>1
    <2>3. OpToRel(<, Nat) = {ss \in Nat \X Nat : ss[1] < ss[2]}
      BY DEF OpToRel
    <2> QED  BY <1>1, <2>2, <2>3
  <1> QED  BY <1>2

LEMMA UpwardInduction ==
    ASSUME NEW S, S \subseteq Nat, 0 \in S, \A n \in S : n + 1 \in S
    PROVE  S = Nat
  <1> SUFFICES ASSUME Nat \ S # {} PROVE FALSE
    OBVIOUS
  <1> DEFINE T == Nat \ S
  <1>1. PICK i \in T : \A j \in T : i <= j
    BY LowestOf
  <1>2. i # 0 /\ i \in Nat
    BY <1>1
  <1>3. i - 1 \in Nat /\ ~ (i <= i - 1) /\ (i - 1) + 1 = i
    BY <1>2
  <1>4. i - 1 \in S
    BY <1>1, <1>3
  <1> QED  BY <1>1, <1>3, <1>4

(* Follows(f, ...): f leads from each node to the node where it stops.     *)
Follows(f, S, stop, next) == \A n \in S : f[n] = IF n \in stop THEN n ELSE f[next[n]]

Falls(h, S, stop, next) == \A n \in S : n \notin stop => next[n] \in S /\ h[next[n]] < h[n]

LEMMA Descent ==
    ASSUME NEW S, NEW stop, NEW next, NEW h \in [S -> Nat], NEW K \in Nat,
           \A n \in S : h[n] < K, Falls(h, S, stop, next)
    PROVE  \E f \in [S -> S] : Follows(f, S, stop, next)
  <1> DEFINE Upto(f, k) == \A n \in S : h[n] < k => f[n] = IF n \in stop THEN n ELSE f[next[n]]
             T == {k \in Nat : \E f \in [S -> S] : Upto(f, k)}
  <1>1. 0 \in T
    <2>1. [n \in S |-> n] \in [S -> S] /\ Upto([n \in S |-> n], 0)
      OBVIOUS
    <2> QED  BY <2>1
  <1>2. ASSUME NEW k \in T PROVE k + 1 \in T
    <2>1. PICK f \in [S -> S] : Upto(f, k)
      OBVIOUS
    <2> DEFINE g == [n \in S |-> IF h[n] < k THEN f[n] ELSE IF n \in stop THEN n
                                 ELSE IF next[n] \in S THEN f[next[n]] ELSE n]
    <2>2. g \in [S -> S]
      OBVIOUS
    <2>3. \A n \in S : g[n] = IF h[n] < k THEN f[n] ELSE IF n \in stop THEN n
                              ELSE IF next[n] \in S THEN f[next[n]] ELSE n
      OBVIOUS
    <2> HIDE DEF g
    <2>4. ASSUME NEW n \in S, h[n] < k + 1 PROVE g[n] = IF n \in stop THEN n ELSE g[next[n]]
      <3>1. CASE n \in stop
        BY <2>1, <2>3, <3>1
      <3>2. CASE n \notin stop
        <4>1. next[n] \in S /\ h[next[n]] < k
          BY <2>4, <3>2 DEF Falls
        <4>2. g[next[n]] = f[next[n]]
          BY <2>3, <4>1
        <4>3. g[n] = f[next[n]]
          BY <2>1, <2>3, <3>2, <4>1
        <4> QED  BY <3>2, <4>2, <4>3
      <3> QED  BY <3>1, <3>2
    <2>5. k + 1 \in Nat /\ Upto(g, k + 1)
      BY <2>4
    <2> QED  BY <2>2, <2>5
  <1> HIDE DEF T
  <1>3. T = Nat
    <2>1. T \subseteq Nat
      BY DEF T
    <2> QED  BY <1>1, <1>2, <2>1, UpwardInduction
  <1>4. PICK f \in [S -> S] : Upto(f, K)
    BY <1>3 DEF T
  <1> QED  BY <1>4 DEF Follows

(* It does not leave a set that is closed under the links.                 *)
LEMMA DescentStays ==
    ASSUME NEW S, NEW stop, NEW next, NEW h \in [S -> Nat], Falls(h, S, stop, next),
           NEW f, Follows(f, S, stop, next),
           NEW P \in SUBSET S, \A n \in P : n \notin stop => next[n] \in P
    PROVE  \A n \in P : f[n] \in P /\ f[n] \in stop
  <1> DEFINE T == {k \in Nat : \A n \in P : h[n] < k => f[n] \in P /\ f[n] \in stop}
  <1>1. 0 \in T
    OBVIOUS
  <1>2. ASSUME NEW k \in T PROVE k + 1 \in T
    <2>1. k + 1 \in Nat
      OBVIOUS
    <2>2. ASSUME NEW n \in P, h[n] < k + 1 PROVE f[n] \in P /\ f[n] \in stop
      <3>1. CASE n \in stop
        BY <3>1 DEF Follows
      <3>2. CASE n \notin stop
        <4>1. next[n] \in P /\ h[next[n]] < k
          BY <2>2, <3>2 DEF Falls
        <4> QED  BY <3>2, <4>1 DEF Follows
      <3> QED  BY <3>1, <3>2
    <2> QED  BY <2>1, <2>2
  <1> HIDE DEF T
  <1>3. T = Nat
    <2>1. T \subseteq Nat
      BY DEF T
    <2> QED  BY <1>1, <1>2, <2>1, UpwardInduction
  <1>4. ASSUME NEW n \in P PROVE h[n] + 1 \in T /\ h[n] < h[n] + 1
    BY <1>3
  <1> QED  BY <1>4 DEF T

-----------------------------------------------------------------------------
(* Walks over a tree.                                                      *)

(* Along the "lt" links, which lead down by a measure h.                   *)
LEMMA BottomMost ==
    ASSUME NEW tree, NEW h \in [Members(tree) -> Nat], NEW K \in Nat,
           \A n \in Members(tree) : h[n] < K,
           \A n \in Members(tree) : tree[n].lt # NULL =>
               tree[n].lt \in Members(tree) /\ h[tree[n].lt] < h[n],
           NEW P \in SUBSET Members(tree),
           \A n \in P : tree[n].lt # NULL => tree[n].lt \in P
    PROVE  \A n \in P : bottom_most_lt(tree, n) \in P /\ tree[bottom_most_lt(tree, n)].lt = NULL
  <1> DEFINE M == Members(tree)
             stop == {n \in M : tree[n].lt = NULL}
             next == [n \in M |-> tree[n].lt]
             Eq(f) == f = [n \in M |-> IF tree[n].lt = NULL THEN n ELSE f[tree[n].lt]]
             down == CHOOSE f : Eq(f)
  <1>1. \A e : bottom_most_lt(tree, e) = down[e]
    BY Zenon DEF bottom_most_lt
  <1>2. Falls(h, M, stop, next)
    BY DEF Falls
  <1>3. PICK g \in [M -> M] : Follows(g, M, stop, next)
    <2> HIDE DEF M, stop, next
    <2> QED  BY <1>2, Descent DEF M
  <1>4. Eq(g)
    <2>1. \A n \in M : g[n] = IF tree[n].lt = NULL THEN n ELSE g[tree[n].lt]
      BY <1>3 DEF Follows
    <2>2. g = [n \in M |-> g[n]]
      BY <1>3
    <2> HIDE DEF M
    <2> QED  BY <2>1, <2>2
  <1> HIDE DEF Eq
  <1>5. Eq(down)
    BY Zenon, <1>4
  <1> HIDE DEF down
  <1>6. Follows(down, M, stop, next)
    <2>1. \A n \in M : down[n] = IF tree[n].lt = NULL THEN n ELSE down[tree[n].lt]
      BY <1>5 DEF Eq
    <2> QED  BY <2>1 DEF Follows
  <1>7. \A n \in P : n \notin stop => next[n] \in P
    OBVIOUS
  <1>8. \A n \in P : down[n] \in P /\ down[n] \in stop
    <2> HIDE DEF stop, next
    <2> QED  BY <1>2, <1>6, <1>7, DescentStays
  <1> QED  BY <1>1, <1>8

(* Up, until a node of which the last one was not the "ge" entry.          *)
LEMMA NearestParent ==
    ASSUME NEW tree, NEW h \in [Members(tree) -> Nat], NEW K \in Nat,
           \A n \in Members(tree) : h[n] < K,
           \A n \in Members(tree) : tree[tree[n].parent].ge = n =>
               tree[n].parent \in Members(tree) /\ h[tree[n].parent] < h[n],
           NEW P \in SUBSET Members(tree),
           \A n \in P : tree[tree[n].parent].ge = n => tree[n].parent \in P
    PROVE  \A n \in P : \E m \in P : /\ tree[tree[m].parent].ge # m
                                     /\ nearest_lt_parent(tree, n) = tree[m].parent
  <1> DEFINE M == Members(tree)
             stop == {n \in M : tree[tree[n].parent].ge # n}
             next == [n \in M |-> tree[n].parent]
             Eq(f) == f = [n \in M |-> LET p == tree[n].parent
                                       IN  IF tree[p].ge = n THEN f[p] ELSE p]
             up == CHOOSE f : Eq(f)
  <1>1. \A e : nearest_lt_parent(tree, e) = up[e]
    BY Zenon DEF nearest_lt_parent
  <1>2. Falls(h, M, stop, next)
    BY DEF Falls
  <1>3. PICK g \in [M -> M] : Follows(g, M, stop, next)
    <2> HIDE DEF M, stop, next
    <2> QED  BY <1>2, Descent DEF M
  <1> DEFINE u == [n \in M |-> tree[g[n]].parent]
  <1>4. Eq(u)
    <2>1. ASSUME NEW n \in M PROVE u[n] = IF tree[tree[n].parent].ge = n THEN u[tree[n].parent]
                                                                      ELSE tree[n].parent
      <3>1. CASE tree[tree[n].parent].ge = n
        BY <1>3, <3>1 DEF Follows
      <3>2. CASE tree[tree[n].parent].ge # n
        BY <1>3, <3>2 DEF Follows
      <3> QED  BY <3>1, <3>2
    <2>2. u = [n \in M |-> u[n]]
      OBVIOUS
    <2> HIDE DEF M, u
    <2> QED  BY <2>1, <2>2
  <1> HIDE DEF Eq
  <1>5. Eq(up)
    BY Zenon, <1>4
  <1> HIDE DEF up, u
  <1>6. \A n \in M : up[n] = IF tree[tree[n].parent].ge = n THEN up[tree[n].parent]
                                                          ELSE tree[n].parent
    BY <1>5 DEF Eq
  <1> DEFINE Q == {n \in P : \E m \in P : tree[tree[m].parent].ge # m /\ up[n] = tree[m].parent}
             T == {k \in Nat : \A n \in P : h[n] < k => n \in Q}
  <1>7. 0 \in T
    OBVIOUS
  <1>8. ASSUME NEW k \in T PROVE k + 1 \in T
    <2>1. k + 1 \in Nat
      OBVIOUS
    <2>2. ASSUME NEW n \in P, h[n] < k + 1 PROVE n \in Q
      <3>1. CASE tree[tree[n].parent].ge # n
        BY <1>6, <3>1
      <3>2. CASE tree[tree[n].parent].ge = n
        <4>1. tree[n].parent \in P /\ h[tree[n].parent] < k
          BY <2>2, <3>2
        <4>2. tree[n].parent \in Q
          BY <4>1
        <4>3. up[n] = up[tree[n].parent]
          BY <1>6, <3>2
        <4> QED  BY <4>2, <4>3
      <3> QED  BY <3>1, <3>2
    <2> QED  BY <2>1, <2>2
  <1> HIDE DEF T, Q
  <1>9. T = Nat
    <2>1. T \subseteq Nat
      BY DEF T
    <2> QED  BY <1>7, <1>8, <2>1, UpwardInduction
  <1>10. ASSUME NEW n \in P PROVE n \in Q
    BY <1>9 DEF T
  <1> QED  BY <1>1, <1>10 DEF Q

(* To the entry below which, or in whose place, a key belongs.             *)
LEMMA PlaceReached ==
    ASSUME NEW tree, NEW key \in Int, NEW h \in [EntriesOf(tree) -> Nat], NEW K \in Nat,
           \A n \in EntriesOf(tree) : h[n] < K,
           \A n \in EntriesOf(tree) : tree[n].lt # NULL =>
               tree[n].lt \in EntriesOf(tree) /\ h[tree[n].lt] < h[n],
           \A n \in EntriesOf(tree) : tree[n].ge # NULL =>
               tree[n].ge \in EntriesOf(tree) /\ h[tree[n].ge] < h[n],
           NEW P \in SUBSET EntriesOf(tree),
           \A n \in P : key < Key[n] /\ tree[n].lt # NULL => tree[n].lt \in P,
           \A n \in P : ~(key < Key[n] /\ tree[n].lt # NULL) /\ key > Key[n] /\ tree[n].ge # NULL
                           => tree[n].ge \in P,
           tree[HEAD].lt \in P
    PROVE  /\ Place(tree, key) \in P
           /\ key < Key[Place(tree, key)] => tree[Place(tree, key)].lt = NULL
           /\ ~(key < Key[Place(tree, key)]) /\ key > Key[Place(tree, key)] =>
                  tree[Place(tree, key)].ge = NULL
  <1> DEFINE S == EntriesOf(tree)
             Left(n) == key < Key[n] /\ tree[n].lt # NULL
             Right(n) == key > Key[n] /\ tree[n].ge # NULL
             stop == {n \in S : ~Left(n) /\ ~Right(n)}
             next == [n \in S |-> IF Left(n) THEN tree[n].lt ELSE tree[n].ge]
             Eq(f) == f = [n \in S |-> CASE key < Key[n] /\ tree[n].lt # NULL -> f[tree[n].lt]
                                         [] key > Key[n] /\ tree[n].ge # NULL -> f[tree[n].ge]
                                         [] OTHER -> n]
             down == CHOOSE f : Eq(f)
  <1>1. Place(tree, key) = down[tree[HEAD].lt]
    BY Zenon DEF Place
  <1>2. Falls(h, S, stop, next)
    BY DEF Falls
  <1>3. PICK g \in [S -> S] : Follows(g, S, stop, next)
    <2> HIDE DEF S, stop, next
    <2> QED  BY <1>2, Descent DEF S
  <1>4. \A n \in S : ~(key < Key[n] /\ key > Key[n])
    BY KeyAssumption DEF EntriesOf
  <1>5. Eq(g)
    <2>1. ASSUME NEW n \in S
          PROVE  g[n] = CASE key < Key[n] /\ tree[n].lt # NULL -> g[tree[n].lt]
                          [] key > Key[n] /\ tree[n].ge # NULL -> g[tree[n].ge]
                          [] OTHER -> n
      <3>1. CASE Left(n)
        <4>1. g[n] = g[tree[n].lt]
          BY <1>3, <3>1 DEF Follows
        <4> QED  BY <1>4, <3>1, <4>1
      <3>2. CASE ~Left(n) /\ Right(n)
        <4>1. g[n] = g[tree[n].ge]
          BY <1>3, <3>2 DEF Follows
        <4> QED  BY <3>2, <4>1
      <3>3. CASE ~Left(n) /\ ~Right(n)
        <4>1. g[n] = n
          BY <1>3, <3>3 DEF Follows
        <4> QED  BY <3>3, <4>1
      <3> QED  BY <3>1, <3>2, <3>3
    <2>2. g = [n \in S |-> g[n]]
      BY <1>3
    <2> HIDE DEF S
    <2> QED  BY <2>1, <2>2
  <1> HIDE DEF Eq
  <1>6. Eq(down)
    BY Zenon, <1>5
  <1> HIDE DEF down
  <1>7. Follows(down, S, stop, next)
    <2>1. \A n \in S : down[n] = CASE key < Key[n] /\ tree[n].lt # NULL -> down[tree[n].lt]
                                   [] key > Key[n] /\ tree[n].ge # NULL -> down[tree[n].ge]
                                   [] OTHER -> n
      BY <1>6 DEF Eq
    <2>2. ASSUME NEW n \in S PROVE down[n] = IF n \in stop THEN n ELSE down[next[n]]
      <3>1. CASE Left(n)
        BY <1>4, <2>1, <3>1
      <3>2. CASE ~Left(n) /\ Right(n)
        BY <1>4, <2>1, <3>2
      <3>3. CASE ~Left(n) /\ ~Right(n)
        BY <2>1, <3>3
      <3> QED  BY <3>1, <3>2, <3>3
    <2> QED  BY <2>2 DEF Follows
  <1>8. \A n \in P : n \notin stop => next[n] \in P
    OBVIOUS
  <1>9. \A n \in P : down[n] \in P /\ down[n] \in stop
    <2> HIDE DEF stop, next
    <2> QED  BY <1>2, <1>7, <1>8, DescentStays
  <1> QED  BY <1>1, <1>9

-----------------------------------------------------------------------------
(* The shape of a tree.                                                    *)

Links == [lt : Nodes \cup {NULL}, ge : Nodes \cup {NULL}, parent : Nodes \cup {NULL}]

(* Every member n of a tree has a place at[n] in the order of the          *)
(* iteration, and lo[n] and hi[n] are the places between which those of    *)
(* the entries below it lie.  M is the set of members.                     *)
Ordered(M, lo, at, hi) ==
    \A n \in M :
        /\ lo[n] < at[n] /\ at[n] < hi[n] /\ lo[HEAD] <= lo[n]
        /\ n # HEAD => hi[n] <= at[HEAD]
        /\ \A m \in M : m # n => at[m] < at[n] \/ at[n] < at[m]

(* Of two members one is below the other or they have nothing in common.   *)
Nested(lo, at, hi, n, m) ==
    /\ lo[n] < at[m] /\ at[m] < at[n] => lo[n] <= lo[m] /\ hi[m] <= at[n]
    /\ at[n] < at[m] /\ at[m] < hi[n] => at[n] <= lo[m] /\ hi[m] <= hi[n]
    /\ hi[n] <= at[m] /\ at[m] <= hi[n] => lo[m] <= lo[n]
    /\ lo[n] <= at[m] /\ at[m] <= lo[n] => hi[n] <= hi[m]

HeadFits(tree) == tree[HEAD].ge = NULL /\ tree[HEAD].parent = HEAD

ChildrenFit(tree, M, lo, at, hi) ==
    \A n \in M :
        /\ tree[n].lt # NULL =>
               /\ tree[n].lt \in M \ {HEAD} /\ tree[tree[n].lt].parent = n
               /\ lo[tree[n].lt] = lo[n] /\ hi[tree[n].lt] = at[n]
        /\ tree[n].ge # NULL =>
               /\ tree[n].ge \in M \ {HEAD} /\ tree[tree[n].ge].parent = n
               /\ lo[tree[n].ge] = at[n] /\ hi[tree[n].ge] = hi[n]

ParentsFit(tree, M) ==
    \A n \in M \ {HEAD} :
        /\ tree[n].parent \in M
        /\ tree[tree[n].parent].lt = n \/ tree[tree[n].parent].ge = n

(* Nobody is in a place that no link leads to.                             *)
Complete(tree, M, lo, at, hi) ==
    \A n, m \in M :
        /\ lo[n] < at[m] /\ at[m] < at[n] => tree[n].lt # NULL
        /\ at[n] < at[m] /\ at[m] < hi[n] => tree[n].ge # NULL

(* Keys rise along the iteration, and below on the left they are smaller.  *)
KeysRise(M, lo, at) ==
    \A n, m \in M \ {HEAD} : at[m] < at[n] =>
        Key[m] <= Key[n] /\ (lo[n] < at[m] => Key[m] < Key[n])

UnusedFit(tree, M) == \A e \in Entries \ M : tree[e] = txmultiset_entry_init

Shape(tree, M, lo, at, hi) ==
    /\ Ordered(M, lo, at, hi) /\ \A n, m \in M : Nested(lo, at, hi, n, m)
    /\ HeadFits(tree)
    /\ ChildrenFit(tree, M, lo, at, hi) /\ ParentsFit(tree, M)
    /\ Complete(tree, M, lo, at, hi) /\ KeysRise(M, lo, at) /\ UnusedFit(tree, M)

TreeFits(tree) ==
    /\ tree \in [Nodes -> Links]
    /\ \E lo, at, hi \in [Nodes -> Int] : Shape(tree, Members(tree), lo, at, hi)

LEMMA NodesDiffer ==
    /\ HEAD \in Nodes /\ HEAD \notin Entries /\ HEAD # NULL /\ NULL \notin Entries
    /\ NULL \notin Nodes /\ Entries \subseteq Nodes /\ Nodes = Entries \cup {HEAD}
    /\ \A e \in Entries : Key[e] \in Int /\ e # HEAD /\ e # NULL
  BY HeadAssumption, KeyAssumption DEF Nodes

LEMMA MembersAre ==
    ASSUME NEW tree
    PROVE  /\ Members(tree) \subseteq Nodes /\ EntriesOf(tree) \subseteq Entries
           /\ Members(tree) \ {HEAD} = EntriesOf(tree) /\ HEAD \in Members(tree)
           /\ \A e \in Entries : e \in Members(tree) <=> tree[e].parent # NULL
           /\ \A e \in Entries : e \in EntriesOf(tree) <=> tree[e].parent # NULL
  BY NodesDiffer DEF Members, EntriesOf, txmultiset_entry_is_enqueued

(* A new entry below p on the left, at the end of a branch.                *)
LeftLeaf(tree, M, lo, at, hi, p, e, new) ==
    /\ tree \in [Nodes -> Links] /\ M \in SUBSET Nodes /\ HEAD \in M
    /\ lo \in [Nodes -> Int] /\ at \in [Nodes -> Int] /\ hi \in [Nodes -> Int]
    /\ Shape(tree, M, lo, at, hi) /\ p \in M /\ tree[p].lt = NULL
    /\ e \in Entries /\ e \notin M
    /\ \A m \in M \ {HEAD} : IF at[m] < at[p] THEN Key[m] < Key[e] ELSE Key[e] < Key[m]
    /\ new \in [Nodes -> Links]
    /\ new[e].lt = NULL /\ new[e].ge = NULL /\ new[e].parent = p /\ new[p].lt = e
    /\ \A n \in Nodes : /\ n # e => new[n].ge = tree[n].ge /\ new[n].parent = tree[n].parent
                        /\ n # e /\ n # p => new[n].lt = tree[n].lt

LEMMA LeafOnTheLeft ==
    ASSUME NEW tree, NEW M, NEW lo, NEW at, NEW hi, NEW p, NEW e, NEW new,
           LeftLeaf(tree, M, lo, at, hi, p, e, new)
    PROVE  \E lo2, at2, hi2 \in [Nodes -> Int] : Shape(new, M \cup {e}, lo2, at2, hi2)
  <1> USE DEF LeftLeaf
  <1> DEFINE lo2 == [n \in Nodes |-> IF n = e THEN 2 * lo[p] ELSE 2 * lo[n]]
             at2 == [n \in Nodes |-> IF n = e THEN 2 * at[p] - 1 ELSE 2 * at[n]]
             hi2 == [n \in Nodes |-> IF n = e THEN 2 * at[p] ELSE 2 * hi[n]]
             N == M \cup {e}
  <1>1. lo2 \in [Nodes -> Int] /\ at2 \in [Nodes -> Int] /\ hi2 \in [Nodes -> Int]
    OBVIOUS
  <1>2. \A n \in M : lo2[n] = 2 * lo[n] /\ at2[n] = 2 * at[n] /\ hi2[n] = 2 * hi[n]
    OBVIOUS
  <1>3. lo2[e] = 2 * lo[p] /\ at2[e] = 2 * at[p] - 1 /\ hi2[e] = 2 * at[p] /\ e \in Nodes
    BY NodesDiffer
  <1>4. e # HEAD /\ e # p /\ e # NULL /\ NULL \notin Nodes /\ Nodes = Entries \cup {HEAD}
    BY NodesDiffer
  <1> HIDE DEF lo2, at2, hi2
  <1>5. M \subseteq Nodes /\ \A n \in M : n # e
    OBVIOUS
  <1>6. Ordered(M, lo, at, hi) /\ (\A n, m \in M : Nested(lo, at, hi, n, m))
        /\ Complete(tree, M, lo, at, hi)
    BY DEF Shape
  <1>7. lo[p] < at[p] /\ at[p] < hi[p] /\ lo[HEAD] <= lo[p] /\ (p # HEAD => hi[p] <= at[HEAD])
        /\ lo[HEAD] < at[HEAD] /\ at[HEAD] < hi[HEAD]
    BY <1>6 DEF Ordered
  (* Nobody is just in front of p, or would have to be.                    *)
  <1>8. ASSUME NEW m \in M PROVE ~(lo[p] < at[m] /\ at[m] < at[p]) /\ (hi[m] < at[p] \/ at[p] < hi[m])
    <2>1. ~(lo[p] < at[m] /\ at[m] < at[p])
      BY <1>6 DEF Complete
    <2>2. lo[m] < at[m] /\ at[m] < hi[m]
      BY <1>6 DEF Ordered
    <2>3. hi[m] <= at[p] /\ at[p] <= hi[m] => lo[p] <= lo[m]
      BY <1>6 DEF Nested
    <2> QED  BY <1>5, <2>1, <2>2, <2>3
  <1>9. Ordered(N, lo2, at2, hi2)
    <2>1. ASSUME NEW n \in M, NEW m \in M
          PROVE  /\ lo2[n] < at2[n] /\ at2[n] < hi2[n] /\ lo2[HEAD] <= lo2[n]
                 /\ n # HEAD => hi2[n] <= at2[HEAD]
                 /\ m # n => at2[m] < at2[n] \/ at2[n] < at2[m]
                 /\ at2[n] < at2[e] \/ at2[e] < at2[n]
      <3>1. lo[n] < at[n] /\ at[n] < hi[n] /\ lo[HEAD] <= lo[n] /\ (n # HEAD => hi[n] <= at[HEAD])
            /\ (m # n => at[m] < at[n] \/ at[n] < at[m])
        BY <1>6 DEF Ordered
      <3> QED  BY <1>1, <1>2, <1>3, <1>5, <3>1
    <2>2. lo2[e] < at2[e] /\ at2[e] < hi2[e] /\ lo2[HEAD] <= lo2[e] /\ hi2[e] <= at2[HEAD]
      BY <1>1, <1>2, <1>3, <1>5, <1>7
    <2> QED  BY <2>1, <2>2 DEF Ordered
  <1>10. \A n, m \in N : Nested(lo2, at2, hi2, n, m)
    <2>1. ASSUME NEW n \in M, NEW m \in M PROVE Nested(lo2, at2, hi2, n, m)
      <3>1. Nested(lo, at, hi, n, m)
        BY <1>6
      <3> QED  BY <1>1, <1>2, <1>5, <3>1 DEF Nested
    <2>2. ASSUME NEW n \in M PROVE Nested(lo2, at2, hi2, n, e)
      <3>1. Nested(lo, at, hi, n, p) /\ (hi[n] < at[p] \/ at[p] < hi[n])
        BY <1>6, <1>8
      <3>2. n = p \/ at[n] < at[p] \/ at[p] < at[n]
        BY <1>6 DEF Ordered
      <3> QED  BY <1>1, <1>2, <1>3, <1>5, <1>7, <3>1, <3>2 DEF Nested
    <2>3. ASSUME NEW m \in M PROVE Nested(lo2, at2, hi2, e, m)
      <3>1. Nested(lo, at, hi, p, m) /\ ~(lo[p] < at[m] /\ at[m] < at[p])
        BY <1>6, <1>8
      <3>2. m = p \/ at[m] < at[p] \/ at[p] < at[m]
        BY <1>6 DEF Ordered
      <3> QED  BY <1>1, <1>2, <1>3, <1>5, <1>7, <3>1, <3>2 DEF Nested
    <2>4. Nested(lo2, at2, hi2, e, e)
      BY <1>1, <1>3, <1>7 DEF Nested
    <2> QED  BY <2>1, <2>2, <2>3, <2>4
  <1>11. HeadFits(new)
    BY <1>4, NodesDiffer DEF Shape, HeadFits
  <1>12. ChildrenFit(new, N, lo2, at2, hi2)
    <2>1. ChildrenFit(tree, M, lo, at, hi)
      BY DEF Shape
    <2> QED  BY <1>2, <1>3, <1>4, <1>5, <2>1 DEF ChildrenFit
  <1>13. ParentsFit(new, N)
    <2>1. ParentsFit(tree, M)
      BY DEF Shape
    <2> QED  BY <1>4, <1>5, <2>1 DEF ParentsFit
  <1>14. Complete(new, N, lo2, at2, hi2)
    <2>1. ASSUME NEW n \in M, NEW m \in M
          PROVE  /\ lo2[n] < at2[m] /\ at2[m] < at2[n] => new[n].lt # NULL
                 /\ at2[n] < at2[m] /\ at2[m] < hi2[n] => new[n].ge # NULL
      <3>1. /\ lo[n] < at[m] /\ at[m] < at[n] => tree[n].lt # NULL
            /\ at[n] < at[m] /\ at[m] < hi[n] => tree[n].ge # NULL
        BY <1>6 DEF Complete
      <3> QED  BY <1>1, <1>2, <1>4, <1>5, <3>1
    <2>2. ASSUME NEW n \in M
          PROVE  /\ lo2[n] < at2[e] /\ at2[e] < at2[n] => new[n].lt # NULL
                 /\ at2[n] < at2[e] /\ at2[e] < hi2[n] => new[n].ge # NULL
      <3>1. /\ lo[n] < at[p] /\ at[p] < at[n] => tree[n].lt # NULL
            /\ at[n] < at[p] /\ at[p] < hi[n] => tree[n].ge # NULL
        BY <1>6 DEF Complete
      <3>2. (n = p \/ at[n] < at[p] \/ at[p] < at[n]) /\ (hi[n] < at[p] \/ at[p] < hi[n])
        BY <1>6, <1>8 DEF Ordered
      <3> QED  BY <1>1, <1>2, <1>3, <1>4, <1>5, <3>1, <3>2
    <2>3. ASSUME NEW m \in N
          PROVE ~(lo2[e] < at2[m] /\ at2[m] < at2[e]) /\ ~(at2[e] < at2[m] /\ at2[m] < hi2[e])
      <3>1. m \in M => ~(lo[p] < at[m] /\ at[m] < at[p])
        BY <1>8
      <3> QED  BY <1>1, <1>2, <1>3, <1>5, <3>1
    <2> QED  BY <2>1, <2>2, <2>3 DEF Complete
  <1>15. KeysRise(N, lo2, at2)
    <2>1. ASSUME NEW n \in M \ {HEAD}, NEW m \in M \ {HEAD}, at2[m] < at2[n]
          PROVE  Key[m] <= Key[n] /\ (lo2[n] < at2[m] => Key[m] < Key[n])
      <3>1. at[m] < at[n]
        BY <1>1, <1>2, <1>5, <2>1
      <3>2. Key[m] <= Key[n] /\ (lo[n] < at[m] => Key[m] < Key[n])
        BY <3>1 DEF Shape, KeysRise
      <3> QED  BY <1>1, <1>2, <1>5, <3>2
    <2>2. ASSUME NEW m \in M \ {HEAD}
          PROVE  /\ at2[m] < at2[e] => Key[m] < Key[e]
                 /\ at2[e] < at2[m] => Key[e] < Key[m]
      BY <1>1, <1>2, <1>3, <1>5
    <2>3. \A m \in N \ {HEAD} : Key[m] \in Int
      BY <1>5, NodesDiffer
    <2> QED  BY <1>1, <1>3, <2>1, <2>2, <2>3 DEF KeysRise
  <1>16. UnusedFit(new, N)
    BY <1>4, NodesDiffer DEF Shape, UnusedFit, Links, txmultiset_entry_init, Node
  <1> HIDE DEF N
  <1>17. Shape(new, N, lo2, at2, hi2)
    BY <1>9, <1>10, <1>11, <1>12, <1>13, <1>14, <1>15, <1>16 DEF Shape
  <1> QED  BY <1>1, <1>17 DEF N

(* The same on the right.                                                  *)
RightLeaf(tree, M, lo, at, hi, p, e, new) ==
    /\ tree \in [Nodes -> Links] /\ M \in SUBSET Nodes /\ HEAD \in M
    /\ lo \in [Nodes -> Int] /\ at \in [Nodes -> Int] /\ hi \in [Nodes -> Int]
    /\ Shape(tree, M, lo, at, hi) /\ p \in M \ {HEAD} /\ tree[p].ge = NULL
    /\ e \in Entries /\ e \notin M
    /\ \A m \in M \ {HEAD} : IF at[p] < at[m] THEN Key[e] < Key[m] ELSE Key[m] < Key[e]
    /\ new \in [Nodes -> Links]
    /\ new[e].lt = NULL /\ new[e].ge = NULL /\ new[e].parent = p /\ new[p].ge = e
    /\ \A n \in Nodes : /\ n # e => new[n].lt = tree[n].lt /\ new[n].parent = tree[n].parent
                        /\ n # e /\ n # p => new[n].ge = tree[n].ge

LEMMA LeafOnTheRight ==
    ASSUME NEW tree, NEW M, NEW lo, NEW at, NEW hi, NEW p, NEW e, NEW new,
           RightLeaf(tree, M, lo, at, hi, p, e, new)
    PROVE  \E lo2, at2, hi2 \in [Nodes -> Int] : Shape(new, M \cup {e}, lo2, at2, hi2)
  <1> USE DEF RightLeaf
  <1> DEFINE lo2 == [n \in Nodes |-> IF n = e THEN 2 * at[p] ELSE 2 * lo[n]]
             at2 == [n \in Nodes |-> IF n = e THEN 2 * at[p] + 1 ELSE 2 * at[n]]
             hi2 == [n \in Nodes |-> IF n = e THEN 2 * hi[p] ELSE 2 * hi[n]]
             N == M \cup {e}
  <1>1. lo2 \in [Nodes -> Int] /\ at2 \in [Nodes -> Int] /\ hi2 \in [Nodes -> Int]
    OBVIOUS
  <1>2. \A n \in M : lo2[n] = 2 * lo[n] /\ at2[n] = 2 * at[n] /\ hi2[n] = 2 * hi[n]
    OBVIOUS
  <1>3. lo2[e] = 2 * at[p] /\ at2[e] = 2 * at[p] + 1 /\ hi2[e] = 2 * hi[p] /\ e \in Nodes
    BY NodesDiffer
  <1>4. e # HEAD /\ e # p /\ e # NULL /\ NULL \notin Nodes /\ Nodes = Entries \cup {HEAD}
    BY NodesDiffer
  <1> HIDE DEF lo2, at2, hi2
  <1>5. M \subseteq Nodes /\ \A n \in M : n # e
    OBVIOUS
  <1>6. Ordered(M, lo, at, hi) /\ (\A n, m \in M : Nested(lo, at, hi, n, m))
        /\ Complete(tree, M, lo, at, hi)
    BY DEF Shape
  <1>7. lo[p] < at[p] /\ at[p] < hi[p] /\ lo[HEAD] <= lo[p] /\ hi[p] <= at[HEAD]
        /\ lo[HEAD] < at[HEAD] /\ at[HEAD] < hi[HEAD]
    BY <1>6 DEF Ordered
  (* Nobody is just behind p, or would have to be.                         *)
  <1>8. ASSUME NEW m \in M PROVE ~(at[p] < at[m] /\ at[m] < hi[p]) /\ (lo[m] < at[p] \/ at[p] < lo[m])
    <2>1. ~(at[p] < at[m] /\ at[m] < hi[p])
      BY <1>6 DEF Complete
    <2>2. lo[m] < at[m] /\ at[m] < hi[m]
      BY <1>6 DEF Ordered
    <2>3. lo[m] <= at[p] /\ at[p] <= lo[m] => hi[m] <= hi[p]
      BY <1>6 DEF Nested
    <2> QED  BY <1>5, <2>1, <2>2, <2>3
  <1>9. Ordered(N, lo2, at2, hi2)
    <2>1. ASSUME NEW n \in M, NEW m \in M
          PROVE  /\ lo2[n] < at2[n] /\ at2[n] < hi2[n] /\ lo2[HEAD] <= lo2[n]
                 /\ n # HEAD => hi2[n] <= at2[HEAD]
                 /\ m # n => at2[m] < at2[n] \/ at2[n] < at2[m]
                 /\ at2[n] < at2[e] \/ at2[e] < at2[n]
      <3>1. lo[n] < at[n] /\ at[n] < hi[n] /\ lo[HEAD] <= lo[n] /\ (n # HEAD => hi[n] <= at[HEAD])
            /\ (m # n => at[m] < at[n] \/ at[n] < at[m])
        BY <1>6 DEF Ordered
      <3> QED  BY <1>1, <1>2, <1>3, <1>5, <3>1
    <2>2. lo2[e] < at2[e] /\ at2[e] < hi2[e] /\ lo2[HEAD] <= lo2[e] /\ hi2[e] <= at2[HEAD]
      BY <1>1, <1>2, <1>3, <1>5, <1>7
    <2> QED  BY <2>1, <2>2 DEF Ordered
  <1>10. \A n, m \in N : Nested(lo2, at2, hi2, n, m)
    <2>1. ASSUME NEW n \in M, NEW m \in M PROVE Nested(lo2, at2, hi2, n, m)
      <3>1. Nested(lo, at, hi, n, m)
        BY <1>6
      <3> QED  BY <1>1, <1>2, <1>5, <3>1 DEF Nested
    <2>2. ASSUME NEW n \in M PROVE Nested(lo2, at2, hi2, n, e)
      <3>1. Nested(lo, at, hi, n, p) /\ (lo[n] < at[p] \/ at[p] < lo[n])
        BY <1>6, <1>8
      <3>2. n = p \/ at[n] < at[p] \/ at[p] < at[n]
        BY <1>6 DEF Ordered
      <3> QED  BY <1>1, <1>2, <1>3, <1>5, <1>7, <3>1, <3>2 DEF Nested
    <2>3. ASSUME NEW m \in M PROVE Nested(lo2, at2, hi2, e, m)
      <3>1. Nested(lo, at, hi, p, m) /\ ~(at[p] < at[m] /\ at[m] < hi[p])
        BY <1>6, <1>8
      <3>2. m = p \/ at[m] < at[p] \/ at[p] < at[m]
        BY <1>6 DEF Ordered
      <3> QED  BY <1>1, <1>2, <1>3, <1>5, <1>7, <3>1, <3>2 DEF Nested
    <2>4. Nested(lo2, at2, hi2, e, e)
      BY <1>1, <1>3, <1>7 DEF Nested
    <2> QED  BY <2>1, <2>2, <2>3, <2>4
  <1>11. HeadFits(new)
    BY <1>4, NodesDiffer DEF Shape, HeadFits
  <1>12. ChildrenFit(new, N, lo2, at2, hi2)
    <2>1. ChildrenFit(tree, M, lo, at, hi)
      BY DEF Shape
    <2> QED  BY <1>2, <1>3, <1>4, <1>5, <2>1 DEF ChildrenFit
  <1>13. ParentsFit(new, N)
    <2>1. ParentsFit(tree, M)
      BY DEF Shape
    <2> QED  BY <1>4, <1>5, <2>1 DEF ParentsFit
  <1>14. Complete(new, N, lo2, at2, hi2)
    <2>1. ASSUME NEW n \in M, NEW m \in M
          PROVE  /\ lo2[n] < at2[m] /\ at2[m] < at2[n] => new[n].lt # NULL
                 /\ at2[n] < at2[m] /\ at2[m] < hi2[n] => new[n].ge # NULL
      <3>1. /\ lo[n] < at[m] /\ at[m] < at[n] => tree[n].lt # NULL
            /\ at[n] < at[m] /\ at[m] < hi[n] => tree[n].ge # NULL
        BY <1>6 DEF Complete
      <3> QED  BY <1>1, <1>2, <1>4, <1>5, <3>1
    <2>2. ASSUME NEW n \in M
          PROVE  /\ lo2[n] < at2[e] /\ at2[e] < at2[n] => new[n].lt # NULL
                 /\ at2[n] < at2[e] /\ at2[e] < hi2[n] => new[n].ge # NULL
      <3>1. /\ lo[n] < at[p] /\ at[p] < at[n] => tree[n].lt # NULL
            /\ at[n] < at[p] /\ at[p] < hi[n] => tree[n].ge # NULL
        BY <1>6 DEF Complete
      <3>2. (n = p \/ at[n] < at[p] \/ at[p] < at[n]) /\ (lo[n] < at[p] \/ at[p] < lo[n])
        BY <1>6, <1>8 DEF Ordered
      <3> QED  BY <1>1, <1>2, <1>3, <1>4, <1>5, <3>1, <3>2
    <2>3. ASSUME NEW m \in N
          PROVE ~(lo2[e] < at2[m] /\ at2[m] < at2[e]) /\ ~(at2[e] < at2[m] /\ at2[m] < hi2[e])
      <3>1. m \in M => ~(at[p] < at[m] /\ at[m] < hi[p])
        BY <1>8
      <3> QED  BY <1>1, <1>2, <1>3, <1>5, <3>1
    <2> QED  BY <2>1, <2>2, <2>3 DEF Complete
  <1>15. KeysRise(N, lo2, at2)
    <2>1. ASSUME NEW n \in M \ {HEAD}, NEW m \in M \ {HEAD}, at2[m] < at2[n]
          PROVE  Key[m] <= Key[n] /\ (lo2[n] < at2[m] => Key[m] < Key[n])
      <3>1. at[m] < at[n]
        BY <1>1, <1>2, <1>5, <2>1
      <3>2. Key[m] <= Key[n] /\ (lo[n] < at[m] => Key[m] < Key[n])
        BY <3>1 DEF Shape, KeysRise
      <3> QED  BY <1>1, <1>2, <1>5, <3>2
    <2>2. ASSUME NEW m \in M \ {HEAD}
          PROVE  /\ at2[m] < at2[e] => Key[m] < Key[e]
                 /\ at2[e] < at2[m] => Key[e] < Key[m]
      BY <1>1, <1>2, <1>3, <1>5
    <2>3. \A m \in N \ {HEAD} : Key[m] \in Int
      BY <1>5, NodesDiffer
    <2> QED  BY <1>1, <1>3, <2>1, <2>2, <2>3 DEF KeysRise
  <1>16. UnusedFit(new, N)
    BY <1>4, NodesDiffer DEF Shape, UnusedFit, Links, txmultiset_entry_init, Node
  <1> HIDE DEF N
  <1>17. Shape(new, N, lo2, at2, hi2)
    BY <1>9, <1>10, <1>11, <1>12, <1>13, <1>14, <1>15, <1>16 DEF Shape
  <1> QED  BY <1>1, <1>17 DEF N

(* A new entry in the place of p, which has the same key and nothing below *)
(* it on the left.                                                         *)
InPlace(tree, M, lo, at, hi, p, e, new, q) ==
    /\ tree \in [Nodes -> Links] /\ M \in SUBSET Nodes /\ HEAD \in M
    /\ lo \in [Nodes -> Int] /\ at \in [Nodes -> Int] /\ hi \in [Nodes -> Int]
    /\ Shape(tree, M, lo, at, hi) /\ p \in M \ {HEAD} /\ tree[p].lt = NULL
    /\ e \in Entries /\ e \notin M /\ Key[e] = Key[p] /\ q = tree[p].parent
    /\ new \in [Nodes -> Links]
    /\ new[e].lt = NULL /\ new[e].ge = p /\ new[e].parent = q
    /\ \A n \in Nodes : n # e =>
          /\ new[n].lt = IF n = q /\ tree[q].lt = p THEN e ELSE tree[n].lt
          /\ new[n].ge = IF n = q /\ tree[q].lt # p THEN e ELSE tree[n].ge
          /\ new[n].parent = IF n = p THEN e ELSE tree[n].parent

LEMMA InsertInPlace ==
    ASSUME NEW tree, NEW M, NEW lo, NEW at, NEW hi, NEW p, NEW e, NEW new, NEW q,
           InPlace(tree, M, lo, at, hi, p, e, new, q)
    PROVE  \E lo2, at2, hi2 \in [Nodes -> Int] : Shape(new, M \cup {e}, lo2, at2, hi2)
  <1> USE DEF InPlace
  <1> DEFINE lo2 == [n \in Nodes |-> IF n = e THEN 2 * lo[p] ELSE IF n = p THEN 2 * at[p] - 1
                                     ELSE 2 * lo[n]]
             at2 == [n \in Nodes |-> IF n = e THEN 2 * at[p] - 1 ELSE 2 * at[n]]
             hi2 == [n \in Nodes |-> IF n = e THEN 2 * hi[p] ELSE 2 * hi[n]]
             N == M \cup {e}
  <1>1. lo2 \in [Nodes -> Int] /\ at2 \in [Nodes -> Int] /\ hi2 \in [Nodes -> Int]
    OBVIOUS
  <1>4. e # HEAD /\ e # p /\ e # NULL /\ NULL \notin Nodes /\ Nodes = Entries \cup {HEAD} /\ p \in Nodes
    BY NodesDiffer
  <1>2. /\ \A n \in M : n # p => lo2[n] = 2 * lo[n]
        /\ \A n \in M : at2[n] = 2 * at[n] /\ hi2[n] = 2 * hi[n]
        /\ lo2[p] = 2 * at[p] - 1
    BY <1>4
  <1>3. lo2[e] = 2 * lo[p] /\ at2[e] = 2 * at[p] - 1 /\ hi2[e] = 2 * hi[p] /\ e \in Nodes
    BY NodesDiffer
  <1> HIDE DEF lo2, at2, hi2
  <1>5. M \subseteq Nodes /\ \A n \in M : n # e
    OBVIOUS
  <1>6. Ordered(M, lo, at, hi) /\ (\A n, m \in M : Nested(lo, at, hi, n, m))
        /\ Complete(tree, M, lo, at, hi) /\ ChildrenFit(tree, M, lo, at, hi)
        /\ ParentsFit(tree, M) /\ KeysRise(M, lo, at)
    BY DEF Shape
  <1>7. lo[p] < at[p] /\ at[p] < hi[p] /\ lo[HEAD] <= lo[p] /\ hi[p] <= at[HEAD]
        /\ lo[HEAD] < at[HEAD] /\ at[HEAD] < hi[HEAD]
    BY <1>6 DEF Ordered
  <1>8. ASSUME NEW m \in M PROVE ~(lo[p] < at[m] /\ at[m] < at[p]) /\ (hi[m] < at[p] \/ at[p] < hi[m])
    <2>1. ~(lo[p] < at[m] /\ at[m] < at[p])
      BY <1>6 DEF Complete
    <2>2. lo[m] < at[m] /\ at[m] < hi[m]
      BY <1>6 DEF Ordered
    <2>3. hi[m] <= at[p] /\ at[p] <= hi[m] => lo[p] <= lo[m]
      BY <1>6 DEF Nested
    <2> QED  BY <1>5, <2>1, <2>2, <2>3
  <1>17. q \in M /\ q # p /\ (tree[q].lt = p \/ tree[q].ge = p)
         /\ ~(tree[q].lt = p /\ tree[q].ge = p)
    <2>1. q \in M /\ (tree[q].lt = p \/ tree[q].ge = p)
      BY <1>6 DEF ParentsFit
    <2>2. lo[q] < at[q]
      BY <1>6, <2>1 DEF Ordered
    <2>3. tree[q].lt = p => lo[p] = lo[q] /\ hi[p] = at[q]
      BY <1>4, <1>6, <2>1 DEF ChildrenFit
    <2>4. tree[q].ge = p => lo[p] = at[q]
      BY <1>4, <1>6, <2>1 DEF ChildrenFit
    <2> QED  BY <1>5, <1>7, <2>1, <2>2, <2>3, <2>4
  <1>9. Ordered(N, lo2, at2, hi2)
    <2>1. ASSUME NEW n \in M, NEW m \in M
          PROVE  /\ lo2[n] < at2[n] /\ at2[n] < hi2[n] /\ lo2[HEAD] <= lo2[n]
                 /\ n # HEAD => hi2[n] <= at2[HEAD]
                 /\ m # n => at2[m] < at2[n] \/ at2[n] < at2[m]
                 /\ at2[n] < at2[e] \/ at2[e] < at2[n]
      <3>1. lo[n] < at[n] /\ at[n] < hi[n] /\ lo[HEAD] <= lo[n] /\ (n # HEAD => hi[n] <= at[HEAD])
            /\ (m # n => at[m] < at[n] \/ at[n] < at[m])
        BY <1>6 DEF Ordered
      <3> QED  BY <1>1, <1>2, <1>3, <1>5, <1>7, <3>1
    <2>2. lo2[e] < at2[e] /\ at2[e] < hi2[e] /\ lo2[HEAD] <= lo2[e] /\ hi2[e] <= at2[HEAD]
      BY <1>1, <1>2, <1>3, <1>5, <1>7
    <2> QED  BY <2>1, <2>2 DEF Ordered
  <1>10. \A n, m \in N : Nested(lo2, at2, hi2, n, m)
    <2>1. ASSUME NEW n \in M, NEW m \in M, n # p, m # p PROVE Nested(lo2, at2, hi2, n, m)
      <3>1. Nested(lo, at, hi, n, m)
        BY <1>6
      <3> QED  BY <1>1, <1>2, <1>5, <2>1, <3>1 DEF Nested
    <2>2. ASSUME NEW n \in M, n # p PROVE Nested(lo2, at2, hi2, n, e) /\ Nested(lo2, at2, hi2, n, p)
      <3>1. Nested(lo, at, hi, n, p) /\ (hi[n] < at[p] \/ at[p] < hi[n]) /\ Nested(lo, at, hi, p, n)
        BY <1>6, <1>8
      <3>2. at[n] < at[p] \/ at[p] < at[n]
        BY <1>6, <2>2 DEF Ordered
      <3>3. lo[n] < at[n] /\ at[n] < hi[n]
        BY <1>6 DEF Ordered
      <3> QED  BY <1>1, <1>2, <1>3, <1>5, <1>7, <2>2, <3>1, <3>2, <3>3 DEF Nested
    <2>3. ASSUME NEW m \in M, m # p PROVE Nested(lo2, at2, hi2, e, m) /\ Nested(lo2, at2, hi2, p, m)
      <3>1. Nested(lo, at, hi, p, m) /\ ~(lo[p] < at[m] /\ at[m] < at[p])
        BY <1>6, <1>8
      <3>2. at[m] < at[p] \/ at[p] < at[m]
        BY <1>6, <2>3 DEF Ordered
      <3>3. lo[m] < at[m] /\ at[m] < hi[m]
        BY <1>6 DEF Ordered
      <3> QED  BY <1>1, <1>2, <1>3, <1>5, <1>7, <2>3, <3>1, <3>2, <3>3 DEF Nested
    <2>4. Nested(lo2, at2, hi2, e, e) /\ Nested(lo2, at2, hi2, p, p)
          /\ Nested(lo2, at2, hi2, e, p) /\ Nested(lo2, at2, hi2, p, e)
      BY <1>1, <1>2, <1>3, <1>7 DEF Nested
    <2> QED  BY <2>1, <2>2, <2>3, <2>4
  <1>11. HeadFits(new)
    <2>1. tree[HEAD].ge = NULL /\ tree[HEAD].parent = HEAD
      BY DEF Shape, HeadFits
    <2> QED  BY <1>4, <1>17, <2>1, NodesDiffer DEF HeadFits
  <1>12. ChildrenFit(new, N, lo2, at2, hi2)
    <2>1. ChildrenFit(tree, M, lo, at, hi)
      BY DEF Shape
    <2>2. ASSUME NEW n \in M, tree[n].lt # NULL
          PROVE  /\ tree[n].lt \in M \ {HEAD} /\ tree[tree[n].lt].parent = n
                 /\ lo[tree[n].lt] = lo[n] /\ hi[tree[n].lt] = at[n]
      BY <2>1, <2>2 DEF ChildrenFit
    <2>3. ASSUME NEW n \in M, tree[n].ge # NULL
          PROVE  /\ tree[n].ge \in M \ {HEAD} /\ tree[tree[n].ge].parent = n
                 /\ lo[tree[n].ge] = at[n] /\ hi[tree[n].ge] = hi[n]
      BY <2>1, <2>3 DEF ChildrenFit
    <2>4. ASSUME NEW n \in M, new[n].lt # NULL
          PROVE  /\ new[n].lt \in N \ {HEAD} /\ new[new[n].lt].parent = n
                 /\ lo2[new[n].lt] = lo2[n] /\ hi2[new[n].lt] = at2[n]
      <3>1. CASE n = q /\ tree[q].lt = p
        <4>1. new[n].lt = e
          BY <1>5, <3>1
        <4>2. lo[p] = lo[q] /\ hi[p] = at[q]
          BY <1>4, <1>17, <2>2, <3>1
        <4> QED  BY <1>2, <1>3, <1>4, <1>17, <3>1, <4>1, <4>2
      <3>2. CASE ~(n = q /\ tree[q].lt = p)
        <4>1. new[n].lt = tree[n].lt
          BY <1>5, <3>2
        <4>2. tree[n].lt # p /\ n # p
          BY <1>4, <2>2, <2>4, <3>2, <4>1
        <4>3. tree[n].lt \in M /\ tree[n].lt # e
          BY <1>5, <2>2, <2>4, <4>1
        <4> QED  BY <1>2, <1>5, <2>2, <2>4, <4>1, <4>2, <4>3
      <3> QED  BY <3>1, <3>2
    <2>5. ASSUME NEW n \in M, new[n].ge # NULL
          PROVE  /\ new[n].ge \in N \ {HEAD} /\ new[new[n].ge].parent = n
                 /\ lo2[new[n].ge] = at2[n] /\ hi2[new[n].ge] = hi2[n]
      <3>1. CASE n = q /\ tree[q].lt # p
        <4>1. new[n].ge = e
          BY <1>5, <3>1
        <4>2. lo[p] = at[q] /\ hi[p] = hi[q]
          BY <1>4, <1>17, <2>3, <3>1
        <4> QED  BY <1>2, <1>3, <1>4, <1>17, <3>1, <4>1, <4>2
      <3>2. CASE ~(n = q /\ tree[q].lt # p)
        <4>1. new[n].ge = tree[n].ge
          BY <1>5, <3>2
        <4>2. tree[n].ge # p
          BY <1>4, <1>17, <2>3, <2>5, <3>2, <4>1
        <4>3. tree[n].ge \in M /\ tree[n].ge # e
          BY <1>5, <2>3, <2>5, <4>1
        <4> QED  BY <1>2, <1>5, <2>3, <2>5, <4>1, <4>2, <4>3
      <3> QED  BY <3>1, <3>2
    <2>6. /\ new[e].ge \in N \ {HEAD} /\ new[new[e].ge].parent = e
          /\ lo2[new[e].ge] = at2[e] /\ hi2[new[e].ge] = hi2[e]
      BY <1>2, <1>3, <1>4, <1>17
    <2> QED  BY <2>4, <2>5, <2>6 DEF ChildrenFit
  <1>13. ParentsFit(new, N)
    <2>1. ParentsFit(tree, M)
      BY DEF Shape
    <2>2. new[e].parent \in M /\ (new[new[e].parent].lt = e \/ new[new[e].parent].ge = e)
      BY <1>5, <1>17
    <2>3. new[p].parent = e /\ new[e].ge = p
      BY <1>4
    <2>4. ASSUME NEW n \in M \ {HEAD}, n # p
          PROVE  new[n].parent \in M /\ (new[new[n].parent].lt = n \/ new[new[n].parent].ge = n)
      <3>1. tree[n].parent \in M /\ (tree[tree[n].parent].lt = n \/ tree[tree[n].parent].ge = n)
        BY <2>1 DEF ParentsFit
      <3>2. new[n].parent = tree[n].parent
        BY <1>5, <2>4
      <3> QED  BY <1>5, <1>17, <2>4, <3>1, <3>2
    <2> QED  BY <2>2, <2>3, <2>4 DEF ParentsFit
  <1>14. Complete(new, N, lo2, at2, hi2)
    <2>1. ASSUME NEW n \in M
          PROVE  (tree[n].lt # NULL => new[n].lt # NULL) /\ (tree[n].ge # NULL => new[n].ge # NULL)
      BY <1>4, <1>5
    <2>2. ASSUME NEW n \in M, NEW m \in M
          PROVE  /\ lo2[n] < at2[m] /\ at2[m] < at2[n] => new[n].lt # NULL
                 /\ at2[n] < at2[m] /\ at2[m] < hi2[n] => new[n].ge # NULL
      <3>1. /\ lo[n] < at[m] /\ at[m] < at[n] => tree[n].lt # NULL
            /\ at[n] < at[m] /\ at[m] < hi[n] => tree[n].ge # NULL
        BY <1>6 DEF Complete
      <3> QED  BY <1>1, <1>2, <1>5, <1>7, <2>1, <3>1
    <2>3. ASSUME NEW n \in M
          PROVE  /\ lo2[n] < at2[e] /\ at2[e] < at2[n] => new[n].lt # NULL
                 /\ at2[n] < at2[e] /\ at2[e] < hi2[n] => new[n].ge # NULL
      <3>1. /\ lo[n] < at[p] /\ at[p] < at[n] => tree[n].lt # NULL
            /\ at[n] < at[p] /\ at[p] < hi[n] => tree[n].ge # NULL
        BY <1>6 DEF Complete
      <3>2. (n = p \/ at[n] < at[p] \/ at[p] < at[n]) /\ (hi[n] < at[p] \/ at[p] < hi[n])
        BY <1>6, <1>8 DEF Ordered
      <3> QED  BY <1>1, <1>2, <1>3, <1>5, <1>7, <2>1, <3>1, <3>2
    <2>4. ASSUME NEW m \in N PROVE ~(lo2[e] < at2[m] /\ at2[m] < at2[e]) /\ new[e].ge # NULL
      <3>1. m \in M => ~(lo[p] < at[m] /\ at[m] < at[p])
        BY <1>8
      <3> QED  BY <1>1, <1>2, <1>3, <1>4, <1>5, <3>1
    <2> QED  BY <2>2, <2>3, <2>4 DEF Complete
  <1>15. KeysRise(N, lo2, at2)
    <2>1. ASSUME NEW n \in M \ {HEAD}, NEW m \in M \ {HEAD}, at2[m] < at2[n]
          PROVE  Key[m] <= Key[n] /\ (lo2[n] < at2[m] => Key[m] < Key[n])
      <3>1. at[m] < at[n]
        BY <1>1, <1>2, <1>5, <2>1
      <3>2. Key[m] <= Key[n] /\ (lo[n] < at[m] => Key[m] < Key[n])
        BY <3>1, <1>6 DEF KeysRise
      <3> QED  BY <1>1, <1>2, <1>5, <1>7, <3>2, <3>1
    <2>2. ASSUME NEW m \in M \ {HEAD}
          PROVE  /\ at2[m] < at2[e] => Key[m] <= Key[e] /\ (lo2[e] < at2[m] => Key[m] < Key[e])
                 /\ at2[e] < at2[m] => Key[e] <= Key[m] /\ (lo2[m] < at2[e] => Key[e] < Key[m])
      <3>1. /\ at[m] < at[p] => Key[m] <= Key[p] /\ (lo[p] < at[m] => Key[m] < Key[p])
            /\ at[p] < at[m] => Key[p] <= Key[m] /\ (lo[m] < at[p] => Key[p] < Key[m])
        BY <1>6 DEF KeysRise
      <3>2. m = p \/ at[m] < at[p] \/ at[p] < at[m]
        BY <1>6 DEF Ordered
      <3>3. Key[m] \in Int /\ Key[p] \in Int
        BY <1>4, <1>5, NodesDiffer
      <3> QED  BY <1>1, <1>2, <1>3, <1>5, <1>7, <3>1, <3>2, <3>3
    <2>3. ~(at2[e] < at2[e])
      BY <1>1, <1>3
    <2> QED  BY <2>1, <2>2, <2>3 DEF KeysRise
  <1>16. UnusedFit(new, N)
    BY <1>4, <1>17, NodesDiffer DEF Shape, UnusedFit, Links, txmultiset_entry_init, Node
  <1> HIDE DEF N
  <1>18. Shape(new, N, lo2, at2, hi2)
    BY <1>9, <1>10, <1>11, <1>12, <1>13, <1>14, <1>15, <1>16 DEF Shape
  <1> QED  BY <1>1, <1>18 DEF N

(* Where the descent for a key ends, the key belongs.                      *)
LEMMA PlaceFits ==
    ASSUME NEW tree \in [Nodes -> Links],
           NEW lo \in [Nodes -> Int], NEW at \in [Nodes -> Int], NEW hi \in [Nodes -> Int],
           Shape(tree, Members(tree), lo, at, hi), NEW key \in Int, tree[HEAD].lt # NULL,
           NEW p, p = Place(tree, key)
    PROVE  /\ p \in Members(tree) \ {HEAD}
           /\ key < Key[p] =>
                 /\ tree[p].lt = NULL
                 /\ \A m \in Members(tree) \ {HEAD} :
                       IF at[m] < at[p] THEN Key[m] < key ELSE key < Key[m]
           /\ key > Key[p] =>
                 /\ tree[p].ge = NULL
                 /\ \A m \in Members(tree) \ {HEAD} :
                       IF at[p] < at[m] THEN key < Key[m] ELSE Key[m] < key
  <1> DEFINE M == Members(tree)
             S == EntriesOf(tree)
             h == [n \in S |-> hi[n] - lo[n]]
             K == hi[HEAD] - lo[HEAD] + 1
             P == {n \in S : \A m \in S : /\ at[m] <= lo[n] => Key[m] < key
                                          /\ hi[n] <= at[m] => key < Key[m]}
  <1>1. /\ M \subseteq Nodes /\ S \subseteq Nodes /\ S = M \ {HEAD} /\ HEAD \in M
        /\ \A n \in S : Key[n] \in Int
    BY MembersAre, NodesDiffer
  <1>2. Ordered(M, lo, at, hi) /\ Complete(tree, M, lo, at, hi) /\ ChildrenFit(tree, M, lo, at, hi)
        /\ KeysRise(M, lo, at)
    BY DEF Shape
  <1> HIDE DEF S, M
  <1>3. ASSUME NEW n \in S
        PROVE  /\ lo[n] < at[n] /\ at[n] < hi[n] /\ lo[HEAD] <= lo[n] /\ hi[n] <= at[HEAD]
               /\ at[HEAD] < hi[HEAD]
               /\ lo[n] \in Int /\ at[n] \in Int /\ hi[n] \in Int
               /\ lo[HEAD] \in Int /\ at[HEAD] \in Int /\ hi[HEAD] \in Int
    BY <1>1, <1>2 DEF Ordered
  <1>4. ASSUME NEW n \in S, tree[n].lt # NULL
        PROVE  tree[n].lt \in S /\ lo[tree[n].lt] = lo[n] /\ hi[tree[n].lt] = at[n]
    BY <1>1, <1>2, <1>4 DEF ChildrenFit
  <1>5. ASSUME NEW n \in S, tree[n].ge # NULL
        PROVE  tree[n].ge \in S /\ lo[tree[n].ge] = at[n] /\ hi[tree[n].ge] = hi[n]
    BY <1>1, <1>2, <1>5 DEF ChildrenFit
  <1>6. \A n \in S : h[n] = hi[n] - lo[n]
    OBVIOUS
  <1>7. h \in [S -> Nat]
    BY <1>3
  <1> HIDE DEF h
  <1>8. K \in Nat /\ \A n \in S : h[n] < K
    <2>1. HEAD \in Nodes /\ lo[HEAD] < hi[HEAD]
      BY <1>1, <1>2 DEF Ordered
    <2> QED  BY <1>3, <1>6, <2>1
  <1> HIDE DEF K
  <1>9. \A n \in S : tree[n].lt # NULL => tree[n].lt \in S /\ h[tree[n].lt] < h[n]
    BY <1>3, <1>4, <1>6
  <1>10. \A n \in S : tree[n].ge # NULL => tree[n].ge \in S /\ h[tree[n].ge] < h[n]
    BY <1>3, <1>5, <1>6
  <1>11. ASSUME NEW n \in S, NEW m \in S
         PROVE  /\ at[m] \in Int /\ Key[m] \in Int
                /\ at[m] <= at[n] => Key[m] <= Key[n]
    <2>1. m = n \/ at[m] < at[n] \/ at[n] < at[m]
      BY <1>1, <1>2 DEF Ordered
    <2>2. at[m] < at[n] => Key[m] <= Key[n]
      BY <1>1, <1>2 DEF KeysRise
    <2> QED  BY <1>1, <1>3, <2>1, <2>2
  <1>12. ASSUME NEW n \in P, key < Key[n], tree[n].lt # NULL PROVE tree[n].lt \in P
    <2>1. tree[n].lt \in S /\ lo[tree[n].lt] = lo[n] /\ hi[tree[n].lt] = at[n]
      BY <1>4, <1>12
    <2>2. ASSUME NEW m \in S, at[n] <= at[m] PROVE key < Key[m]
      BY <1>11, <1>12, <2>2
    <2> QED  BY <2>1, <2>2
  <1>13. ASSUME NEW n \in P, key > Key[n], tree[n].ge # NULL PROVE tree[n].ge \in P
    <2>1. tree[n].ge \in S /\ lo[tree[n].ge] = at[n] /\ hi[tree[n].ge] = hi[n]
      BY <1>5, <1>13
    <2>2. ASSUME NEW m \in S, at[m] <= at[n] PROVE Key[m] < key
      BY <1>11, <1>13, <2>2
    <2> QED  BY <2>1, <2>2
  <1>14. tree[HEAD].lt \in P
    <2>1. tree[HEAD].lt \in S /\ lo[tree[HEAD].lt] = lo[HEAD] /\ hi[tree[HEAD].lt] = at[HEAD]
      BY <1>1, <1>2 DEF ChildrenFit
    <2>2. ASSUME NEW m \in S PROVE ~(at[m] <= lo[HEAD]) /\ ~(at[HEAD] <= at[m])
      BY <1>3
    <2> QED  BY <2>1, <2>2
  <1>15. P \in SUBSET S
    OBVIOUS
  <1> HIDE DEF P
  <1>16. /\ p \in P
         /\ key < Key[p] => tree[p].lt = NULL
         /\ ~(key < Key[p]) /\ key > Key[p] => tree[p].ge = NULL
    <2> USE DEF S
    <2> QED  BY <1>7, <1>8, <1>9, <1>10, <1>12, <1>13, <1>14, <1>15, PlaceReached
  <1>17. p \in S /\ \A m \in S : /\ at[m] <= lo[p] => Key[m] < key
                                 /\ hi[p] <= at[m] => key < Key[m]
    BY <1>15, <1>16 DEF P
  <1>18. Key[p] \in Int
    BY <1>1, <1>17
  <1>19. ASSUME key < Key[p], NEW m \in S PROVE IF at[m] < at[p] THEN Key[m] < key ELSE key < Key[m]
    <2>1. ~(lo[p] < at[m] /\ at[m] < at[p])
      BY <1>1, <1>2, <1>16, <1>17, <1>19 DEF Complete
    <2>2. at[m] < at[p] => at[m] <= lo[p]
      BY <1>3, <1>17, <2>1
    <2>3. ~(at[m] < at[p]) => at[p] <= at[m]
      BY <1>3, <1>17
    <2> QED  BY <1>11, <1>17, <1>18, <1>19, <2>2, <2>3
  <1>20. ASSUME key > Key[p], NEW m \in S PROVE IF at[p] < at[m] THEN key < Key[m] ELSE Key[m] < key
    <2>1. ~(at[p] < at[m] /\ at[m] < hi[p])
      BY <1>1, <1>2, <1>16, <1>17, <1>18, <1>20 DEF Complete
    <2>2. at[p] < at[m] => hi[p] <= at[m]
      BY <1>3, <1>17, <2>1
    <2>3. ~(at[p] < at[m]) => at[m] <= at[p]
      BY <1>3, <1>17
    <2> QED  BY <1>11, <1>17, <1>18, <1>20, <2>2, <2>3
  <1>21. key > Key[p] => ~(key < Key[p])
    BY <1>18
  <1> QED  BY <1>1, <1>16, <1>17, <1>19, <1>20, <1>21 DEF M

LEMMA TreeInserted ==
    ASSUME Risks = {}, NEW tree, TreeFits(tree), NEW e \in Entries, e \notin EntriesOf(tree)
    PROVE  /\ TreeFits(txmultiset_state_insert(tree, e))
           /\ EntriesOf(txmultiset_state_insert(tree, e)) = EntriesOf(tree) \cup {e}
  <1> DEFINE new == txmultiset_state_insert(tree, e)
             M == Members(tree)
  <1>1. tree \in [Nodes -> Links]
    BY DEF TreeFits
  <1>2. PICK lo \in [Nodes -> Int], at \in [Nodes -> Int], hi \in [Nodes -> Int] :
            Shape(tree, M, lo, at, hi)
    BY DEF TreeFits
  <1>3. /\ M \in SUBSET Nodes /\ HEAD \in M /\ e \notin M /\ e \in Nodes /\ e # HEAD /\ e # NULL
        /\ NULL \notin Nodes /\ Key[e] \in Int /\ \A n \in M \ {HEAD} : Key[n] \in Int /\ n \in Entries
    BY MembersAre, NodesDiffer
  <1>4. tree[e] = txmultiset_entry_init
    BY <1>2, <1>3 DEF Shape, UnusedFit
  <1>5. tree[e].lt = NULL /\ tree[e].ge = NULL /\ tree[e].parent = NULL
    BY <1>4 DEF txmultiset_entry_init, Node
  <1>6. \A n \in Nodes : tree[n] = [lt |-> tree[n].lt, ge |-> tree[n].ge, parent |-> tree[n].parent]
    BY <1>1 DEF Links
  <1> HIDE DEF M, new
  (* It is enough to look at the links.                                    *)
  <1>7. ASSUME new \in [Nodes -> Links], new[e].parent # NULL,
               \A n \in Entries : n # e => (new[n].parent = NULL <=> tree[n].parent = NULL),
               \E lo2, at2, hi2 \in [Nodes -> Int] : Shape(new, M \cup {e}, lo2, at2, hi2)
        PROVE  TreeFits(new) /\ EntriesOf(new) = EntriesOf(tree) \cup {e}
    <2>1. EntriesOf(new) = EntriesOf(tree) \cup {e} /\ Members(new) = M \cup {e}
      <3>1. \A n \in Entries : n # e => (new[n].parent = NULL <=> tree[n].parent = NULL)
        BY <1>7
      <3>2. new[e].parent # NULL
        BY <1>7
      <3> QED  BY <3>1, <3>2 DEF M, Members, EntriesOf, txmultiset_entry_is_enqueued
    <2> QED  BY <1>7, <2>1 DEF TreeFits
  <1>8. ASSUME NEW p \in M, new = insert_lt_entry(tree, e, p), tree[p].lt = NULL,
               \A m \in M \ {HEAD} : IF at[m] < at[p] THEN Key[m] < Key[e] ELSE Key[e] < Key[m]
        PROVE  TreeFits(new) /\ EntriesOf(new) = EntriesOf(tree) \cup {e}
    <2>1. p \in Nodes /\ p # e
      BY <1>3
    <2>2. /\ new \in [Nodes -> Links]
          /\ new[e].lt = NULL /\ new[e].ge = NULL /\ new[e].parent = p /\ new[p].lt = e
          /\ \A n \in Nodes : /\ n # e => new[n].ge = tree[n].ge /\ new[n].parent = tree[n].parent
                              /\ n # e /\ n # p => new[n].lt = tree[n].lt
      BY <1>1, <1>3, <1>5, <1>8, <2>1 DEF insert_lt_entry, Node, Links
    <2>3. \E lo2, at2, hi2 \in [Nodes -> Int] : Shape(new, M \cup {e}, lo2, at2, hi2)
      <3>1. LeftLeaf(tree, M, lo, at, hi, p, e, new)
        BY <1>1, <1>2, <1>3, <1>8, <2>2 DEF LeftLeaf
      <3> QED  BY <3>1, LeafOnTheLeft
    <2>4. new[e].parent # NULL
      BY <1>3, <2>1, <2>2
    <2> QED  BY <1>7, <2>2, <2>3, <2>4, NodesDiffer
  <1>9. ASSUME NEW p \in M \ {HEAD}, new = insert_ge_entry(tree, e, p), tree[p].ge = NULL,
               \A m \in M \ {HEAD} : IF at[p] < at[m] THEN Key[e] < Key[m] ELSE Key[m] < Key[e]
        PROVE  TreeFits(new) /\ EntriesOf(new) = EntriesOf(tree) \cup {e}
    <2>1. p \in Nodes /\ p # e
      BY <1>3
    <2>2. /\ new \in [Nodes -> Links]
          /\ new[e].lt = NULL /\ new[e].ge = NULL /\ new[e].parent = p /\ new[p].ge = e
          /\ \A n \in Nodes : /\ n # e => new[n].lt = tree[n].lt /\ new[n].parent = tree[n].parent
                              /\ n # e /\ n # p => new[n].ge = tree[n].ge
      BY <1>1, <1>3, <1>5, <1>9, <2>1 DEF insert_ge_entry, Node, Links
    <2>3. \E lo2, at2, hi2 \in [Nodes -> Int] : Shape(new, M \cup {e}, lo2, at2, hi2)
      <3>1. RightLeaf(tree, M, lo, at, hi, p, e, new)
        BY <1>1, <1>2, <1>3, <1>9, <2>2 DEF RightLeaf
      <3> QED  BY <3>1, LeafOnTheRight
    <2>4. new[e].parent # NULL
      BY <1>3, <2>1, <2>2
    <2> QED  BY <1>7, <2>2, <2>3, <2>4, NodesDiffer
  <1>10. ASSUME NEW p \in M \ {HEAD}, new = insert_at(tree, e, p), Key[e] = Key[p]
         PROVE  TreeFits(new) /\ EntriesOf(new) = EntriesOf(tree) \cup {e}
    <2> DEFINE q == tree[p].parent
    <2>1. p \in Nodes /\ p # e /\ p \in Entries
      BY <1>3
    <2>2. \A f \in Entries : Key[f] >= Key[p]
      <3>1. "equal keys" \notin Risks
        OBVIOUS
      <3> QED  BY Zenon, <1>10, <2>1, <3>1, EqualKeysAssumption
    <2>3. tree[p].lt = NULL
      <3> SUFFICES ASSUME tree[p].lt # NULL PROVE FALSE
        OBVIOUS
      <3> DEFINE c == tree[p].lt
      <3>1. c \in M \ {HEAD} /\ lo[c] = lo[p] /\ hi[c] = at[p]
        BY <1>2 DEF Shape, ChildrenFit
      <3>2. lo[c] < at[c] /\ at[c] < hi[c]
        BY <1>2, <3>1 DEF Shape, Ordered
      <3>3. Key[c] < Key[p]
        BY <1>2, <3>1, <3>2 DEF Shape, KeysRise
      <3>4. Key[c] \in Int /\ Key[p] \in Int /\ Key[c] >= Key[p]
        BY <1>3, <2>2, <3>1
      <3> QED  BY <3>3, <3>4
    <2>4. q \in M /\ q # e /\ q \in Nodes
      BY <1>2, <1>3 DEF Shape, ParentsFit
    <2>5. q # p
      <3>1. q = p => tree[p].ge = p
        BY <1>2, <1>3, <2>1, <2>3 DEF Shape, ParentsFit
      <3>2. lo[p] < at[p] /\ at[p] \in Int /\ lo[p] \in Int
        BY <1>2, <2>1 DEF Shape, Ordered
      <3>3. tree[p].ge = p => lo[p] = at[p]
        BY <1>2, <1>3, <2>1 DEF Shape, ChildrenFit
      <3> QED  BY <3>1, <3>2, <3>3
    <2> HIDE DEF q
    <2>6. new = [(IF tree[q].lt = p THEN [tree EXCEPT ![q].lt = e] ELSE [tree EXCEPT ![q].ge = e])
                 EXCEPT ![e] = Node(tree[p].lt, p, q), ![p].parent = e]
      BY <1>10 DEF insert_at, q
    <2>7. /\ new \in [Nodes -> Links]
          /\ new[e].lt = NULL /\ new[e].ge = p /\ new[e].parent = q
          /\ \A n \in Nodes : n # e =>
                /\ new[n].lt = IF n = q /\ tree[q].lt = p THEN e ELSE tree[n].lt
                /\ new[n].ge = IF n = q /\ tree[q].lt # p THEN e ELSE tree[n].ge
                /\ new[n].parent = IF n = p THEN e ELSE tree[n].parent
      <3>1. CASE tree[q].lt = p
        <4>1. new = [[tree EXCEPT ![q].lt = e] EXCEPT ![e] = Node(tree[p].lt, p, q), ![p].parent = e]
          BY <2>6, <3>1
        <4>2. /\ DOMAIN new = Nodes
              /\ new[e] = [lt |-> NULL, ge |-> p, parent |-> q]
              /\ new[p] = [tree[p] EXCEPT !.parent = e]
              /\ new[q] = [tree[q] EXCEPT !.lt = e]
              /\ \A n \in Nodes : n # e /\ n # p /\ n # q => new[n] = tree[n]
          BY <1>1, <1>3, <2>1, <2>3, <2>4, <2>5, <4>1 DEF Node
        <4>3. \A n \in Nodes : new[n] \in Links
          BY <1>1, <1>3, <2>1, <2>4, <4>2 DEF Links
        <4>4. new \in [Nodes -> Links]
          <5>1. new = [n \in Nodes |-> new[n]]
            BY <1>1, <4>1
          <5> QED  BY <4>3, <5>1
        <4> QED  BY <1>1, <1>3, <2>1, <2>3, <2>4, <2>5, <4>2, <4>4, <3>1 DEF Links
      <3>2. CASE tree[q].lt # p
        BY <1>1, <1>3, <2>1, <2>3, <2>4, <2>5, <2>6, <3>2 DEF Node, Links
      <3> QED  BY <3>1, <3>2
    <2>8. \E lo2, at2, hi2 \in [Nodes -> Int] : Shape(new, M \cup {e}, lo2, at2, hi2)
      <3>1. InPlace(tree, M, lo, at, hi, p, e, new, q)
        BY <1>1, <1>2, <1>3, <1>10, <2>3, <2>7 DEF InPlace, q
      <3> QED  BY <3>1, InsertInPlace
    <2>9. /\ new[e].parent # NULL
          /\ \A n \in Entries : n # e => (new[n].parent = NULL <=> tree[n].parent = NULL)
      <3>1. tree[p].parent # NULL
        BY <1>3, <2>4 DEF q
      <3> QED  BY <1>3, <2>4, <2>7, <3>1, NodesDiffer
    <2> QED  BY <1>7, <2>7, <2>8, <2>9
  <1>11. CASE tree[HEAD].lt = NULL
    <2>1. new = insert_lt_entry(tree, e, HEAD)
      BY <1>11 DEF new, txmultiset_state_insert, txmultiset_entry_insert
    <2>2. \A m \in M \ {HEAD} : FALSE
      <3> SUFFICES ASSUME NEW m \in M \ {HEAD} PROVE FALSE
        OBVIOUS
      <3>1. lo[m] < at[m] /\ at[m] < hi[m] /\ hi[m] <= at[HEAD] /\ lo[HEAD] <= lo[m]
        BY <1>2, <1>3 DEF Shape, Ordered
      <3>2. ~(lo[HEAD] < at[m] /\ at[m] < at[HEAD])
        BY <1>2, <1>3, <1>11 DEF Shape, Complete
      <3>3. lo[m] \in Int /\ at[m] \in Int /\ hi[m] \in Int /\ at[HEAD] \in Int /\ lo[HEAD] \in Int
        BY <1>3
      <3> QED  BY <3>1, <3>2, <3>3
    <2> QED  BY <1>3, <1>8, <1>11, <2>1, <2>2 DEF new
  <1>12. CASE tree[HEAD].lt # NULL
    <2>1. PICK p : p = Place(tree, Key[e])
      OBVIOUS
    <2>2. /\ p \in M \ {HEAD}
          /\ Key[e] < Key[p] =>
                /\ tree[p].lt = NULL
                /\ \A m \in M \ {HEAD} :
                      IF at[m] < at[p] THEN Key[m] < Key[e] ELSE Key[e] < Key[m]
          /\ Key[e] > Key[p] =>
                /\ tree[p].ge = NULL
                /\ \A m \in M \ {HEAD} :
                      IF at[p] < at[m] THEN Key[e] < Key[m] ELSE Key[m] < Key[e]
      BY <1>1, <1>2, <1>3, <1>12, <2>1, PlaceFits DEF M
    <2>3. new = CASE Key[e] < Key[p] -> insert_lt_entry(tree, e, p)
                  [] Key[e] > Key[p] -> insert_ge_entry(tree, e, p)
                  [] OTHER -> insert_at(tree, e, p)
      BY <1>12, <2>1 DEF new, txmultiset_state_insert, txmultiset_entry_insert
    <2>4. Key[p] \in Int /\ Key[e] \in Int
      BY <1>3, <2>2
    <2>5. CASE Key[e] < Key[p]
      <3>1. new = insert_lt_entry(tree, e, p)
        BY <2>3, <2>4, <2>5
      <3> QED  BY <1>8, <2>2, <2>5, <3>1 DEF new
    <2>6. CASE Key[e] > Key[p]
      <3>1. new = insert_ge_entry(tree, e, p)
        BY <2>3, <2>4, <2>6
      <3> QED  BY <1>9, <2>2, <2>6, <3>1 DEF new
    <2>7. CASE Key[e] = Key[p]
      <3>1. new = insert_at(tree, e, p)
        BY <2>3, <2>4, <2>7
      <3> QED  BY <1>10, <2>2, <2>7, <3>1 DEF new
    <2> QED  BY <2>4, <2>5, <2>6, <2>7
  <1> QED  BY <1>11, <1>12

(* e is to be erased.  What is below it on the left will be in front of    *)
(* the place up, what is below it on the right will be behind lo[e].       *)
Erasable(tree, M, lo, at, hi, e, up) ==
    /\ tree \in [Nodes -> Links] /\ M \in SUBSET Nodes /\ HEAD \in M
    /\ lo \in [Nodes -> Int] /\ at \in [Nodes -> Int] /\ hi \in [Nodes -> Int]
    /\ Shape(tree, M, lo, at, hi) /\ e \in M \ {HEAD}
    /\ up \in Int /\ at[e] < up /\ up <= hi[e]
    /\ \A m \in M : ~(at[e] < at[m] /\ at[m] < up)
    /\ \A m \in M : at[m] <= up /\ up <= at[m] =>
           hi[e] <= up \/ (lo[m] <= at[e] /\ at[e] <= lo[m])

LowPlaces(lo, at, e) ==
    [n \in Nodes |-> IF lo[n] <= at[e] /\ at[e] <= lo[n] THEN lo[e] ELSE lo[n]]
HighPlaces(at, hi, e, up) ==
    [n \in Nodes |-> IF hi[n] <= at[e] /\ at[e] <= hi[n] THEN up ELSE hi[n]]

LEMMA PlacesOf ==
    ASSUME NEW tree, NEW M, NEW lo, NEW at, NEW hi, NEW e, NEW up,
           Erasable(tree, M, lo, at, hi, e, up)
    PROVE  /\ \A n \in M : /\ lo[n] \in Int /\ at[n] \in Int /\ hi[n] \in Int
                           /\ lo[n] < at[n] /\ at[n] < hi[n] /\ lo[HEAD] <= lo[n]
                           /\ n # HEAD => hi[n] <= at[HEAD]
                           /\ n # e => at[n] < at[e] \/ at[e] < at[n]
           /\ \A n, m \in M : Nested(lo, at, hi, n, m) /\ (m # n => at[m] < at[n] \/ at[n] < at[m])
           /\ e \in M /\ HEAD \in M /\ e # HEAD
           /\ up \in Int /\ at[e] < up /\ up <= hi[e]
           /\ \A m \in M : ~(at[e] < at[m] /\ at[m] < up)
           /\ \A m \in M : at[m] <= up /\ up <= at[m] =>
                  hi[e] <= up \/ (lo[m] <= at[e] /\ at[e] <= lo[m])
  <1> USE DEF Erasable
  <1>1. Ordered(M, lo, at, hi) /\ (\A n, m \in M : Nested(lo, at, hi, n, m))
    BY DEF Shape
  <1>2. \A n \in M : n \in Nodes
    OBVIOUS
  <1>3. \A n \in M : lo[n] \in Int /\ at[n] \in Int /\ hi[n] \in Int
    BY <1>2
  <1> QED  BY <1>1, <1>3 DEF Ordered

AllNested(M, lo, at, hi) == \A n, m \in M : Nested(lo, at, hi, n, m)

LEMMA ErasedPlaces ==
    ASSUME NEW tree, NEW M, NEW lo, NEW at, NEW hi, NEW e, NEW up,
           Erasable(tree, M, lo, at, hi, e, up), NEW lo2, NEW hi2,
           lo2 = LowPlaces(lo, at, e),
           hi2 = HighPlaces(at, hi, e, up)
    PROVE  /\ lo2 \in [Nodes -> Int] /\ hi2 \in [Nodes -> Int]
           /\ Ordered(M \ {e}, lo2, at, hi2)
           /\ AllNested(M \ {e}, lo2, at, hi2)
           /\ KeysRise(M \ {e}, lo2, at)
  <1>1. /\ M \in SUBSET Nodes /\ lo \in [Nodes -> Int] /\ at \in [Nodes -> Int] /\ hi \in [Nodes -> Int]
        /\ e \in Nodes /\ up \in Int /\ KeysRise(M, lo, at)
    BY DEF Erasable, Shape
  <1>2. lo2 \in [Nodes -> Int] /\ hi2 \in [Nodes -> Int]
    BY <1>1 DEF LowPlaces, HighPlaces
  <1>3. /\ \A n \in M : /\ lo[n] \in Int /\ at[n] \in Int /\ hi[n] \in Int
                        /\ lo[n] < at[n] /\ at[n] < hi[n] /\ lo[HEAD] <= lo[n]
                        /\ n # HEAD => hi[n] <= at[HEAD]
                        /\ n # e => at[n] < at[e] \/ at[e] < at[n]
        /\ \A n, m \in M : Nested(lo, at, hi, n, m) /\ (m # n => at[m] < at[n] \/ at[n] < at[m])
        /\ e \in M /\ HEAD \in M /\ e # HEAD
        /\ up \in Int /\ at[e] < up /\ up <= hi[e]
        /\ \A m \in M : ~(at[e] < at[m] /\ at[m] < up)
        /\ \A m \in M : at[m] <= up /\ up <= at[m] =>
               hi[e] <= up \/ (lo[m] <= at[e] /\ at[e] <= lo[m])
    BY PlacesOf
  <1>4. \A n \in M : /\ lo2[n] = (IF lo[n] <= at[e] /\ at[e] <= lo[n] THEN lo[e] ELSE lo[n])
                     /\ hi2[n] = (IF hi[n] <= at[e] /\ at[e] <= hi[n] THEN up ELSE hi[n])
    BY <1>1 DEF LowPlaces, HighPlaces
  <1>5. \A n \in M : lo2[n] \in Int /\ hi2[n] \in Int
    BY <1>1, <1>2
  <1>6. Ordered(M \ {e}, lo2, at, hi2)
    <2>1. ASSUME NEW n \in M \ {e}
          PROVE  /\ lo2[n] < at[n] /\ at[n] < hi2[n] /\ lo2[HEAD] <= lo2[n]
                 /\ n # HEAD => hi2[n] <= at[HEAD]
      BY <1>3, <1>4, <1>5
    <2> QED  BY <1>3, <2>1 DEF Ordered
  <1>7. ASSUME NEW n \in M \ {e}, NEW m \in M \ {e} PROVE Nested(lo2, at, hi2, n, m)
    <2>1. Nested(lo, at, hi, n, m) /\ Nested(lo, at, hi, n, e) /\ Nested(lo, at, hi, m, e)
          /\ Nested(lo, at, hi, e, m) /\ Nested(lo, at, hi, e, n)
      BY <1>3
    <2>2. /\ lo2[n] = (IF lo[n] <= at[e] /\ at[e] <= lo[n] THEN lo[e] ELSE lo[n])
          /\ hi2[n] = (IF hi[n] <= at[e] /\ at[e] <= hi[n] THEN up ELSE hi[n])
          /\ lo2[m] = (IF lo[m] <= at[e] /\ at[e] <= lo[m] THEN lo[e] ELSE lo[m])
          /\ hi2[m] = (IF hi[m] <= at[e] /\ at[e] <= hi[m] THEN up ELSE hi[m])
      BY <1>4
    <2>3. /\ lo[n] \in Int /\ at[n] \in Int /\ hi[n] \in Int
          /\ lo[m] \in Int /\ at[m] \in Int /\ hi[m] \in Int
          /\ lo[e] \in Int /\ at[e] \in Int /\ hi[e] \in Int
          /\ lo2[n] \in Int /\ hi2[n] \in Int /\ lo2[m] \in Int /\ hi2[m] \in Int
      BY <1>3, <1>5
    <2>4. /\ lo[n] < at[n] /\ at[n] < hi[n] /\ lo[m] < at[m] /\ at[m] < hi[m]
          /\ lo[e] < at[e] /\ at[e] < hi[e]
          /\ (at[n] < at[e] \/ at[e] < at[n]) /\ (at[m] < at[e] \/ at[e] < at[m])
      BY <1>3
    <2>5. /\ up \in Int /\ at[e] < up /\ up <= hi[e]
          /\ ~(at[e] < at[m] /\ at[m] < up) /\ ~(at[e] < at[n] /\ at[n] < up)
          /\ at[m] <= up /\ up <= at[m] => hi[e] <= up \/ (lo[m] <= at[e] /\ at[e] <= lo[m])
      BY <1>3
    <2>6. lo2[n] < at[m] /\ at[m] < at[n] => lo2[n] <= lo2[m] /\ hi2[m] <= at[n]
      BY <2>1, <2>2, <2>3, <2>4, <2>5 DEF Nested
    <2>7. at[n] < at[m] /\ at[m] < hi2[n] => at[n] <= lo2[m] /\ hi2[m] <= hi2[n]
      BY <2>1, <2>2, <2>3, <2>4, <2>5 DEF Nested
    <2>8. hi2[n] <= at[m] /\ at[m] <= hi2[n] => lo2[m] <= lo2[n]
      BY <2>1, <2>2, <2>3, <2>4, <2>5 DEF Nested
    <2>9. lo2[n] <= at[m] /\ at[m] <= lo2[n] => hi2[n] <= hi2[m]
      BY <2>1, <2>2, <2>3, <2>4, <2>5 DEF Nested
    <2> QED  BY <2>6, <2>7, <2>8, <2>9 DEF Nested
  <1>8. KeysRise(M \ {e}, lo2, at)
    <2> SUFFICES ASSUME NEW n \in (M \ {e}) \ {HEAD}, NEW m \in (M \ {e}) \ {HEAD}, at[m] < at[n]
                 PROVE  Key[m] <= Key[n] /\ (lo2[n] < at[m] => Key[m] < Key[n])
      BY DEF KeysRise
    <2>1. /\ Key[m] <= Key[n] /\ (lo[n] < at[m] => Key[m] < Key[n])
          /\ at[m] < at[e] => (lo[e] < at[m] => Key[m] < Key[e])
          /\ at[e] < at[n] => Key[e] <= Key[n]
      BY <1>1, <1>3 DEF KeysRise
    <2>2. Key[n] \in Int /\ Key[m] \in Int /\ Key[e] \in Int
      BY <1>1, <1>3, NodesDiffer
    <2>3. lo2[n] = (IF lo[n] <= at[e] /\ at[e] <= lo[n] THEN lo[e] ELSE lo[n])
      BY <1>4
    <2>4. /\ lo[n] \in Int /\ at[n] \in Int /\ at[m] \in Int /\ lo[e] \in Int /\ at[e] \in Int
          /\ lo2[n] \in Int /\ lo[n] < at[n] /\ (at[m] < at[e] \/ at[e] < at[m])
      BY <1>3, <1>5
    <2> QED  BY <2>1, <2>2, <2>3, <2>4
  <1>9. AllNested(M \ {e}, lo2, at, hi2)
    BY <1>7 DEF AllNested
  <1> QED  BY <1>2, <1>6, <1>8, <1>9

(* The links when e is gone: what was below it on the right is below its   *)
(* parent now, and what was on the left below b, the first of those.       *)
Relinked(tree, M, lo, at, hi, e, up, p, lt, ge, c, b, new) ==
    /\ p = tree[e].parent /\ lt = tree[e].lt /\ ge = tree[e].ge
    /\ c = IF ge = NULL THEN lt ELSE ge
    /\ new \in [Nodes -> Links] /\ new[e] = txmultiset_entry_init
    /\ \A n \in Nodes \ {e} :
          /\ new[n].lt = IF n = p /\ tree[p].lt = e THEN c
                         ELSE IF lt # NULL /\ ge # NULL /\ n = b THEN lt ELSE tree[n].lt
          /\ new[n].ge = IF n = p /\ tree[p].lt # e THEN c ELSE tree[n].ge
          /\ new[n].parent = IF n = c THEN p
                             ELSE IF lt # NULL /\ ge # NULL /\ n = lt THEN b ELSE tree[n].parent
    /\ ge = NULL => hi[e] <= up
    /\ ge # NULL => /\ b \in M /\ lo[b] <= at[e] /\ at[e] <= lo[b] /\ tree[b].lt = NULL
                    /\ at[b] = up

LEMMA LinksOf ==
    ASSUME NEW tree, NEW M, NEW lo, NEW at, NEW hi, NEW e, NEW up,
           Erasable(tree, M, lo, at, hi, e, up), NEW p, NEW lt, NEW ge, NEW c, NEW b, NEW new,
           Relinked(tree, M, lo, at, hi, e, up, p, lt, ge, c, b, new)
    PROVE  /\ p \in M \ {e} /\ (tree[p].lt = e \/ tree[p].ge = e)
           /\ tree[p].lt = e => lo[e] = lo[p] /\ hi[e] = at[p]
           /\ tree[p].ge = e => lo[e] = at[p] /\ hi[e] = hi[p]
           /\ ~(tree[p].lt = e /\ tree[p].ge = e)
           /\ lt # NULL => /\ lt \in M \ {HEAD} /\ lt # e /\ tree[lt].parent = e
                           /\ lo[lt] = lo[e] /\ hi[lt] = at[e]
           /\ ge # NULL => /\ ge \in M \ {HEAD} /\ ge # e /\ tree[ge].parent = e
                           /\ lo[ge] = at[e] /\ hi[ge] = hi[e] /\ b # e /\ b # p /\ b # lt
           /\ lt # NULL /\ ge # NULL => lt # ge
  <1>1. /\ \A n \in M : /\ lo[n] \in Int /\ at[n] \in Int /\ hi[n] \in Int
                        /\ lo[n] < at[n] /\ at[n] < hi[n]
        /\ e \in M /\ e # HEAD
        /\ \A n, m \in M : Nested(lo, at, hi, n, m) /\ (m # n => at[m] < at[n] \/ at[n] < at[m])
    BY PlacesOf
  <1>2. ChildrenFit(tree, M, lo, at, hi) /\ ParentsFit(tree, M) /\ NULL \notin M /\ M \subseteq Nodes
    BY NodesDiffer DEF Erasable, Shape
  <1>3. /\ p = tree[e].parent /\ lt = tree[e].lt /\ ge = tree[e].ge
        /\ ge # NULL => b \in M /\ lo[b] <= at[e] /\ at[e] <= lo[b]
    BY DEF Relinked
  <1>4. p \in M /\ (tree[p].lt = e \/ tree[p].ge = e)
    BY <1>1, <1>2, <1>3 DEF ParentsFit
  <1>5. tree[p].lt = e => lo[e] = lo[p] /\ hi[e] = at[p]
    BY <1>1, <1>2, <1>4 DEF ChildrenFit
  <1>6. tree[p].ge = e => lo[e] = at[p] /\ hi[e] = hi[p]
    BY <1>1, <1>2, <1>4 DEF ChildrenFit
  <1>7. lt # NULL => /\ lt \in M \ {HEAD} /\ tree[lt].parent = e
                     /\ lo[lt] = lo[e] /\ hi[lt] = at[e]
    BY <1>1, <1>2, <1>3 DEF ChildrenFit
  <1>8. ge # NULL => /\ ge \in M \ {HEAD} /\ tree[ge].parent = e
                     /\ lo[ge] = at[e] /\ hi[ge] = hi[e]
    BY <1>1, <1>2, <1>3 DEF ChildrenFit
  <1>9. /\ lo[e] \in Int /\ at[e] \in Int /\ hi[e] \in Int /\ lo[e] < at[e] /\ at[e] < hi[e]
        /\ lo[p] \in Int /\ at[p] \in Int /\ hi[p] \in Int /\ lo[p] < at[p] /\ at[p] < hi[p]
    BY <1>1, <1>4
  <1>10. p # e /\ ~(tree[p].lt = e /\ tree[p].ge = e)
    BY <1>4, <1>5, <1>6, <1>9
  <1>11. lt # NULL => lt # e
    <2>1. lt = e => hi[lt] = hi[e]
      OBVIOUS
    <2> QED  BY <1>7, <1>9, <2>1
  <1>12. ge # NULL => ge # e
    <2>1. ge = e => lo[ge] = lo[e]
      OBVIOUS
    <2> QED  BY <1>8, <1>9, <2>1
  <1>13. ASSUME ge # NULL PROVE b # e /\ b # p /\ b # lt
    <2>1. b \in M /\ lo[b] <= at[e] /\ at[e] <= lo[b] /\ lo[b] \in Int
      BY <1>1, <1>3, <1>13
    <2>2. b = e => lo[b] = lo[e]
      OBVIOUS
    <2>3. b = p => lo[b] = lo[p]
      OBVIOUS
    <2>4. b = lt /\ lt # NULL => lo[b] = lo[e]
      BY <1>7
    <2>5. b # NULL
      BY <1>2, <2>1
    <2> QED  BY <1>4, <1>5, <1>6, <1>9, <2>1, <2>2, <2>3, <2>4, <2>5
  <1>14. lt # NULL /\ ge # NULL => lt # ge
    <2>1. lt = ge => lo[lt] = lo[ge]
      OBVIOUS
    <2> QED  BY <1>7, <1>8, <1>9, <2>1
  <1> QED  BY <1>4, <1>5, <1>6, <1>7, <1>8, <1>10, <1>11, <1>12, <1>13, <1>14

LEMMA ErasedLinks ==
    ASSUME NEW tree, NEW M, NEW lo, NEW at, NEW hi, NEW e, NEW up,
           Erasable(tree, M, lo, at, hi, e, up), NEW p, NEW lt, NEW ge, NEW c, NEW b, NEW new,
           Relinked(tree, M, lo, at, hi, e, up, p, lt, ge, c, b, new), NEW lo2, NEW hi2,
           lo2 = LowPlaces(lo, at, e),
           hi2 = HighPlaces(at, hi, e, up)
    PROVE  /\ HeadFits(new)
           /\ ChildrenFit(new, M \ {e}, lo2, at, hi2) /\ ParentsFit(new, M \ {e})
           /\ Complete(new, M \ {e}, lo2, at, hi2) /\ UnusedFit(new, M \ {e})
  <1> DEFINE both == lt # NULL /\ ge # NULL
             N == M \ {e}
  <1>1. /\ M \in SUBSET Nodes /\ HEAD \in M /\ e \in M \ {HEAD} /\ NULL \notin M /\ NULL \notin Nodes
        /\ HeadFits(tree) /\ ChildrenFit(tree, M, lo, at, hi) /\ ParentsFit(tree, M)
        /\ Complete(tree, M, lo, at, hi) /\ UnusedFit(tree, M)
    BY NodesDiffer DEF Erasable, Shape
  <1>2. /\ \A n \in M : /\ lo[n] \in Int /\ at[n] \in Int /\ hi[n] \in Int
                        /\ lo[n] < at[n] /\ at[n] < hi[n]
                        /\ n # e => at[n] < at[e] \/ at[e] < at[n]
        /\ \A n, m \in M : Nested(lo, at, hi, n, m) /\ (m # n => at[m] < at[n] \/ at[n] < at[m])
        /\ up \in Int /\ at[e] < up /\ up <= hi[e]
        /\ \A m \in M : ~(at[e] < at[m] /\ at[m] < up)
    BY PlacesOf
  <1>3. /\ \A n \in M : /\ lo2[n] = (IF lo[n] <= at[e] /\ at[e] <= lo[n] THEN lo[e] ELSE lo[n])
                        /\ hi2[n] = (IF hi[n] <= at[e] /\ at[e] <= hi[n] THEN up ELSE hi[n])
    BY <1>1 DEF LowPlaces, HighPlaces
  <1>4. /\ p = tree[e].parent /\ lt = tree[e].lt /\ ge = tree[e].ge
        /\ c = (IF ge = NULL THEN lt ELSE ge)
        /\ new[e] = txmultiset_entry_init
        /\ \A n \in Nodes \ {e} :
              /\ new[n].lt = IF n = p /\ tree[p].lt = e THEN c
                             ELSE IF both /\ n = b THEN lt ELSE tree[n].lt
              /\ new[n].ge = IF n = p /\ tree[p].lt # e THEN c ELSE tree[n].ge
              /\ new[n].parent = IF n = c THEN p
                                 ELSE IF both /\ n = lt THEN b ELSE tree[n].parent
        /\ ge = NULL => hi[e] <= up
        /\ ge # NULL => /\ b \in M /\ lo[b] <= at[e] /\ at[e] <= lo[b] /\ tree[b].lt = NULL
                        /\ at[b] = up
    BY DEF Relinked
  <1>5. /\ p \in M \ {e} /\ (tree[p].lt = e \/ tree[p].ge = e)
        /\ tree[p].lt = e => lo[e] = lo[p] /\ hi[e] = at[p]
        /\ tree[p].ge = e => lo[e] = at[p] /\ hi[e] = hi[p]
        /\ ~(tree[p].lt = e /\ tree[p].ge = e)
        /\ lt # NULL => /\ lt \in M \ {HEAD} /\ lt # e /\ tree[lt].parent = e
                        /\ lo[lt] = lo[e] /\ hi[lt] = at[e]
        /\ ge # NULL => /\ ge \in M \ {HEAD} /\ ge # e /\ tree[ge].parent = e
                        /\ lo[ge] = at[e] /\ hi[ge] = hi[e] /\ b # e /\ b # p /\ b # lt
        /\ lt # NULL /\ ge # NULL => lt # ge
    BY LinksOf
  <1> HIDE DEF both
  <1>6. both <=> lt # NULL /\ ge # NULL
    BY DEF both
  <1>7. \A n \in M : n # e => n \in Nodes \ {e}
    BY <1>1
  (* Links that lead neither to e nor to what is below it stay.            *)
  <1>8. ASSUME NEW n \in N, tree[n].lt # NULL
        PROVE  /\ tree[n].lt \in M \ {HEAD} /\ tree[tree[n].lt].parent = n
               /\ lo[tree[n].lt] = lo[n] /\ hi[tree[n].lt] = at[n]
               /\ tree[n].lt = e => n = p
    BY <1>1, <1>4, <1>8 DEF ChildrenFit
  <1>9. ASSUME NEW n \in N, tree[n].ge # NULL
        PROVE  /\ tree[n].ge \in M \ {HEAD} /\ tree[tree[n].ge].parent = n
               /\ lo[tree[n].ge] = at[n] /\ hi[tree[n].ge] = hi[n]
               /\ tree[n].ge = e => n = p
    BY <1>1, <1>4, <1>9 DEF ChildrenFit
  <1>10. /\ lo[e] \in Int /\ at[e] \in Int /\ hi[e] \in Int /\ lo[e] < at[e] /\ at[e] < hi[e]
         /\ lo[p] \in Int /\ at[p] \in Int /\ hi[p] \in Int /\ lo[p] < at[p] /\ at[p] < hi[p]
    BY <1>1, <1>2, <1>5
  <1>11. /\ lt # NULL => lo2[lt] = lo[e] /\ hi2[lt] = up
         /\ ge # NULL => lo2[ge] = lo[e] /\ hi2[ge] = hi[e]
         /\ tree[p].lt = e => lo2[p] = lo[e]
         /\ tree[p].ge = e => hi2[p] = hi[e]
    BY <1>3, <1>5, <1>10
  <1>12. ge = NULL => hi[e] = up
    BY <1>2, <1>4, <1>10
  <1>13. ChildrenFit(new, N, lo2, at, hi2)
    <2>1. ASSUME NEW n \in N, new[n].lt # NULL
          PROVE  /\ new[n].lt \in N \ {HEAD} /\ new[new[n].lt].parent = n
                 /\ lo2[new[n].lt] = lo2[n] /\ hi2[new[n].lt] = at[n]
      <3>1. CASE n = p /\ tree[p].lt = e
        <4>1. new[n].lt = c /\ c # NULL
          BY <1>4, <1>7, <2>1, <3>1
        <4>2. c \in N \ {HEAD} /\ new[c].parent = p
          BY <1>4, <1>5, <1>7, <4>1
        <4>3. lo2[c] = lo2[p] /\ hi2[c] = at[p]
          BY <1>4, <1>5, <1>11, <1>12, <3>1, <4>1
        <4> QED  BY <3>1, <4>1, <4>2, <4>3
      <3>2. CASE ~(n = p /\ tree[p].lt = e) /\ both /\ n = b
        <4>1. new[n].lt = lt /\ new[lt].parent = b
          BY <1>4, <1>5, <1>6, <1>7, <3>2
        <4>2. lt \in N \ {HEAD}
          BY <1>5, <1>6, <3>2
        <4>3. lo2[b] = lo[e] /\ at[b] = up
          BY <1>3, <1>4, <1>6, <3>2
        <4> QED  BY <1>6, <1>11, <3>2, <4>1, <4>2, <4>3
      <3>3. CASE ~(n = p /\ tree[p].lt = e) /\ ~(both /\ n = b)
        <4> DEFINE x == tree[n].lt
        <4>1. new[n].lt = x
          BY <1>4, <1>7, <3>3
        <4>2. /\ x \in M \ {HEAD} /\ x # e /\ tree[x].parent = n
              /\ lo[x] = lo[n] /\ hi[x] = at[n]
          BY <1>8, <2>1, <3>3, <4>1
        <4> HIDE DEF x
        <4>3. x # lt /\ x # ge
          BY <1>1, <1>5, <4>2
        <4>4. new[x].parent = n
          BY <1>4, <1>7, <4>2, <4>3
        <4>5. lo2[x] = lo2[n]
          BY <1>3, <4>2
        <4>6. hi2[x] = at[n]
          <5>1. hi2[x] = IF at[n] <= at[e] /\ at[e] <= at[n] THEN up ELSE at[n]
            BY <1>3, <4>2
          <5>2. at[n] \in Int /\ (at[n] < at[e] \/ at[e] < at[n])
            BY <1>2
          <5> QED  BY <1>10, <5>1, <5>2
        <4> QED  BY <4>1, <4>2, <4>4, <4>5, <4>6
      <3> QED  BY <3>1, <3>2, <3>3
    <2>2. ASSUME NEW n \in N, new[n].ge # NULL
          PROVE  /\ new[n].ge \in N \ {HEAD} /\ new[new[n].ge].parent = n
                 /\ lo2[new[n].ge] = at[n] /\ hi2[new[n].ge] = hi2[n]
      <3>1. CASE n = p /\ tree[p].lt # e
        <4>1. new[n].ge = c /\ c # NULL
          BY <1>4, <1>7, <2>2, <3>1
        <4>2. c \in N \ {HEAD} /\ new[c].parent = p
          BY <1>4, <1>5, <1>7, <4>1
        <4>3. lo2[c] = at[p] /\ hi2[c] = hi2[p]
          BY <1>4, <1>5, <1>11, <1>12, <3>1, <4>1
        <4> QED  BY <3>1, <4>1, <4>2, <4>3
      <3>2. CASE ~(n = p /\ tree[p].lt # e)
        <4> DEFINE x == tree[n].ge
        <4>1. new[n].ge = x
          BY <1>4, <1>7, <3>2
        <4>2. /\ x \in M \ {HEAD} /\ x # e /\ tree[x].parent = n
              /\ lo[x] = at[n] /\ hi[x] = hi[n]
          BY <1>5, <1>9, <2>2, <3>2, <4>1
        <4> HIDE DEF x
        <4>3. x # lt /\ x # ge
          BY <1>1, <1>5, <4>2
        <4>4. new[x].parent = n
          BY <1>4, <1>7, <4>2, <4>3
        <4>5. hi2[x] = hi2[n]
          BY <1>3, <4>2
        <4>6. lo2[x] = at[n]
          <5>1. lo2[x] = IF at[n] <= at[e] /\ at[e] <= at[n] THEN lo[e] ELSE at[n]
            BY <1>3, <4>2
          <5>2. at[n] \in Int /\ (at[n] < at[e] \/ at[e] < at[n])
            BY <1>2
          <5> QED  BY <1>10, <5>1, <5>2
        <4> QED  BY <4>1, <4>2, <4>4, <4>5, <4>6
      <3> QED  BY <3>1, <3>2
    <2> QED  BY <2>1, <2>2 DEF ChildrenFit
  <1>14. ParentsFit(new, N)
    <2> SUFFICES ASSUME NEW n \in N \ {HEAD}
                 PROVE  new[n].parent \in N /\ (new[new[n].parent].lt = n \/ new[new[n].parent].ge = n)
      BY DEF ParentsFit
    <2>1. CASE n = c
      <3>1. new[n].parent = p
        BY <1>4, <1>7, <2>1
      <3>2. new[p].lt = c \/ new[p].ge = c
        BY <1>4, <1>5, <1>7
      <3> QED  BY <1>5, <2>1, <3>1, <3>2
    <2>2. CASE n # c /\ both /\ n = lt
      <3>1. new[n].parent = b
        BY <1>4, <1>7, <2>2
      <3>2. b \in N /\ new[b].lt = lt
        BY <1>4, <1>5, <1>6, <1>7, <2>2
      <3> QED  BY <2>2, <3>1, <3>2
    <2>3. CASE n # c /\ ~(both /\ n = lt)
      <3> DEFINE r == tree[n].parent
      <3>1. new[n].parent = r
        BY <1>4, <1>7, <2>3
      <3>2. r \in M /\ (tree[r].lt = n \/ tree[r].ge = n)
        BY <1>1 DEF ParentsFit
      <3> HIDE DEF r
      <3>3. r # e
        BY <1>1, <1>4, <1>6, <2>3, <3>2
      <3>4. new[r].lt = n \/ new[r].ge = n
        <4>1. CASE tree[r].lt = n
          <5>1. ~(both /\ r = b)
            BY <1>1, <1>4, <1>6, <4>1
          <5> QED  BY <1>4, <1>7, <3>2, <3>3, <4>1, <5>1
        <4>2. CASE tree[r].ge = n
          BY <1>4, <1>5, <1>7, <3>2, <3>3, <4>2
        <4> QED  BY <3>2, <4>1, <4>2
      <3> QED  BY <3>1, <3>2, <3>3, <3>4
    <2> QED  BY <2>1, <2>2, <2>3
  (* If nothing takes the place of e, there is nothing below it.           *)
  <1>15. ASSUME c = NULL, NEW m \in N PROVE ~(lo[e] < at[m] /\ at[m] < hi[e])
    <2>1. lt = NULL /\ ge = NULL
      BY <1>1, <1>4, <1>5, <1>15
    <2>2. at[m] < at[e] \/ at[e] < at[m]
      BY <1>2
    <2> QED  BY <1>1, <1>4, <2>1, <2>2 DEF Complete
  <1>16. Complete(new, N, lo2, at, hi2)
    <2> SUFFICES ASSUME NEW n \in N, NEW m \in N
                 PROVE  /\ lo2[n] < at[m] /\ at[m] < at[n] => new[n].lt # NULL
                        /\ at[n] < at[m] /\ at[m] < hi2[n] => new[n].ge # NULL
      BY DEF Complete
    <2>1. /\ lo[n] \in Int /\ at[n] \in Int /\ hi[n] \in Int /\ at[m] \in Int
          /\ lo[n] < at[n] /\ at[n] < hi[n]
          /\ at[n] < at[e] \/ at[e] < at[n]
          /\ at[m] < at[e] \/ at[e] < at[m]
          /\ ~(at[e] < at[n] /\ at[n] < up) /\ ~(at[e] < at[m] /\ at[m] < up)
          /\ Nested(lo, at, hi, n, e) /\ Nested(lo, at, hi, e, n)
      BY <1>1, <1>2
    <2>2. /\ lo[n] < at[m] /\ at[m] < at[n] => tree[n].lt # NULL
          /\ at[n] < at[m] /\ at[m] < hi[n] => tree[n].ge # NULL
          /\ lo[e] < at[m] /\ at[m] < at[e] => lt # NULL
          /\ at[e] < at[n] /\ at[n] < hi[e] => ge # NULL
      BY <1>1, <1>4 DEF Complete
    <2>3. ASSUME lo2[n] < at[m], at[m] < at[n] PROVE new[n].lt # NULL
      <3>1. CASE ~(lo[n] <= at[e] /\ at[e] <= lo[n])
        <4>1. tree[n].lt # NULL /\ lo[n] < at[m]
          BY <1>3, <2>2, <2>3, <3>1
        <4>2. CASE n = p /\ tree[p].lt = e
          <5>1. new[n].lt = c
            BY <1>4, <1>7, <4>2
          <5>2. lo[e] < at[m] /\ at[m] < hi[e]
            BY <1>5, <2>3, <4>1, <4>2
          <5> QED  BY <1>15, <5>1, <5>2
        <4>3. CASE ~(n = p /\ tree[p].lt = e)
          BY <1>4, <1>6, <1>7, <4>1, <4>3
        <4> QED  BY <4>2, <4>3
      <3>2. CASE lo[n] <= at[e] /\ at[e] <= lo[n]
        <4>1. lo[e] < at[m] /\ at[e] < at[n] /\ at[n] < hi[e]
          BY <1>2, <1>3, <1>10, <2>1, <2>3, <3>2 DEF Nested
        <4>2. ge # NULL /\ n # p
          <5>1. ge # NULL
            BY <2>2, <4>1
          <5>2. n = p => lo[n] = lo[p] /\ at[n] = at[p]
            OBVIOUS
          <5> QED  BY <1>5, <1>10, <2>1, <3>2, <4>1, <5>1, <5>2
        <4>3. CASE lt # NULL /\ n = b
          BY <1>4, <1>6, <1>7, <4>2, <4>3
        <4>4. CASE ~(lt # NULL /\ n = b)
          <5>1. new[n].lt = tree[n].lt
            BY <1>4, <1>6, <1>7, <4>2, <4>4
          <5>2. CASE at[e] < at[m]
            BY <1>10, <2>1, <2>2, <2>3, <3>2, <5>1, <5>2
          <5>3. CASE at[m] < at[e]
            <6>1. n # b /\ b \in M /\ at[b] = up
              BY <1>4, <2>2, <4>1, <4>2, <4>4, <5>3
            <6>2. at[b] < at[n] /\ at[e] < at[b]
              BY <1>2, <2>1, <4>1, <6>1
            <6>3. lo[n] < at[b]
              BY <1>2, <1>10, <2>1, <3>2, <6>1, <6>2
            <6>4. tree[n].lt # NULL
              BY <1>1, <6>1, <6>2, <6>3 DEF Complete
            <6> QED  BY <5>1, <6>4
          <5> QED  BY <2>1, <5>2, <5>3
        <4> QED  BY <4>3, <4>4
      <3> QED  BY <3>1, <3>2
    <2>4. ASSUME at[n] < at[m], at[m] < hi2[n] PROVE new[n].ge # NULL
      <3>1. at[m] < hi[n]
        BY <1>2, <1>3, <1>10, <2>1, <2>4
      <3>2. tree[n].ge # NULL
        BY <2>2, <2>4, <3>1
      <3>3. CASE n = p /\ tree[p].lt # e
        <4>1. new[n].ge = c
          BY <1>4, <1>7, <3>3
        <4>2. lo[e] < at[m] /\ at[m] < hi[e]
          BY <1>5, <2>4, <3>1, <3>3
        <4> QED  BY <1>15, <4>1, <4>2
      <3>4. CASE ~(n = p /\ tree[p].lt # e)
        BY <1>4, <1>7, <3>2, <3>4
      <3> QED  BY <3>3, <3>4
    <2> QED  BY <2>3, <2>4
  <1>17. HeadFits(new)
    <2>1. tree[HEAD].ge = NULL /\ tree[HEAD].parent = HEAD /\ HEAD # e /\ HEAD # lt /\ HEAD # ge
      BY <1>1, <1>5 DEF HeadFits
    <2>2. ~(HEAD = p /\ tree[p].lt # e)
      BY <1>1, <1>5, <2>1
    <2>3. HEAD # c
      BY <1>4, <2>1
    <2> QED  BY <1>1, <1>4, <1>7, <2>1, <2>2, <2>3 DEF HeadFits
  <1>18. UnusedFit(new, N)
    <2> SUFFICES ASSUME NEW x \in Entries \ N PROVE new[x] = txmultiset_entry_init
      BY DEF UnusedFit
    <2>1. CASE x = e
      BY <1>4, <2>1
    <2>2. CASE x # e
      <3>1. x \in Nodes \ {e} /\ x \notin M /\ tree[x] = txmultiset_entry_init
        BY <1>1, <2>2, NodesDiffer DEF UnusedFit
      <3>2. x # p /\ x # c /\ ~(both /\ x = b) /\ ~(both /\ x = lt)
        BY <1>1, <1>4, <1>5, <1>6, <3>1
      <3>3. new[x].lt = tree[x].lt /\ new[x].ge = tree[x].ge /\ new[x].parent = tree[x].parent
        BY <1>4, <3>1, <3>2
      <3>4. new[x] = [lt |-> new[x].lt, ge |-> new[x].ge, parent |-> new[x].parent]
        BY <3>1 DEF Relinked, Links
      <3> QED  BY <3>1, <3>3, <3>4 DEF txmultiset_entry_init, Node
    <2> QED  BY <2>1, <2>2
  <1> QED  BY <1>13, <1>14, <1>16, <1>17, <1>18

LEMMA LeftWalk ==
    ASSUME NEW tree, NEW at \in [Nodes -> Int], NEW base \in Int, NEW top \in Int,
           \A n \in Members(tree) : base <= at[n] /\ at[n] <= top,
           \A n \in Members(tree) : tree[n].lt # NULL =>
               tree[n].lt \in Members(tree) /\ at[tree[n].lt] < at[n],
           NEW P \in SUBSET Members(tree),
           \A n \in P : tree[n].lt # NULL => tree[n].lt \in P
    PROVE  \A n \in P : bottom_most_lt(tree, n) \in P /\ tree[bottom_most_lt(tree, n)].lt = NULL
  <1> DEFINE M == Members(tree)
             h == [n \in M |-> at[n] - base]
  <1>1. M \subseteq Nodes /\ HEAD \in M
    BY MembersAre
  <1> HIDE DEF M
  <1>2. \A n \in M : at[n] \in Int /\ base <= at[n] /\ at[n] <= top
    BY <1>1 DEF M
  <1>3. h \in [M -> Nat] /\ \A n \in M : h[n] = at[n] - base
    BY <1>2
  <1> HIDE DEF h
  <1>4. top - base + 1 \in Nat /\ \A n \in M : h[n] < top - base + 1
    BY <1>1, <1>2, <1>3
  <1>5. \A n \in M : tree[n].lt # NULL => tree[n].lt \in M /\ h[tree[n].lt] < h[n]
    <2> SUFFICES ASSUME NEW n \in M, tree[n].lt # NULL
                 PROVE  tree[n].lt \in M /\ h[tree[n].lt] < h[n]
      OBVIOUS
    <2>1. tree[n].lt \in M /\ at[tree[n].lt] < at[n]
      BY DEF M
    <2> QED  BY <1>2, <1>3, <2>1
  <1>6. PICK K \in Nat : K = top - base + 1
    BY <1>4
  <1>7. \A n \in M : h[n] < K
    BY <1>4, <1>6
  <1> QED  BY <1>3, <1>5, <1>7, BottomMost DEF M

(* The first entry of a tree; and the first of those behind an entry.      *)
LEMMA FrontFits ==
    ASSUME NEW tree \in [Nodes -> Links],
           NEW lo \in [Nodes -> Int], NEW at \in [Nodes -> Int], NEW hi \in [Nodes -> Int],
           Shape(tree, Members(tree), lo, at, hi),
           NEW P \in SUBSET Members(tree),
           \A n \in P : tree[n].lt # NULL => tree[n].lt \in P
    PROVE  \A n \in P : bottom_most_lt(tree, n) \in P /\ tree[bottom_most_lt(tree, n)].lt = NULL
  <1> DEFINE M == Members(tree)
  <1>1. M \subseteq Nodes /\ HEAD \in M /\ HEAD \in Nodes
    BY MembersAre, NodesDiffer
  <1> HIDE DEF M
  <1>2. \A n \in M : /\ lo[n] \in Int /\ at[n] \in Int /\ hi[n] \in Int
                     /\ lo[n] < at[n] /\ at[n] < hi[n] /\ lo[HEAD] <= lo[n]
                     /\ n # HEAD => hi[n] <= at[HEAD]
    BY <1>1 DEF Shape, Ordered, M
  <1>3. lo[HEAD] \in Int /\ at[HEAD] \in Int
    BY <1>1
  <1>4. \A n \in M : lo[HEAD] <= at[n] /\ at[n] <= at[HEAD]
    BY <1>1, <1>2, <1>3
  <1>5. \A n \in M : tree[n].lt # NULL => tree[n].lt \in M /\ at[tree[n].lt] < at[n]
    <2> SUFFICES ASSUME NEW n \in M, tree[n].lt # NULL
                 PROVE  tree[n].lt \in M /\ at[tree[n].lt] < at[n]
      OBVIOUS
    <2>1. tree[n].lt \in M /\ hi[tree[n].lt] = at[n]
      BY DEF Shape, ChildrenFit, M
    <2> QED  BY <1>2, <2>1
  <1> QED  BY <1>3, <1>4, <1>5, LeftWalk DEF M

LEMMA TreeFront ==
    ASSUME NEW tree, TreeFits(tree), EntriesOf(tree) # {}
    PROVE  txmultiset_state_front(tree) \in EntriesOf(tree)
  <1>1. PICK lo \in [Nodes -> Int], at \in [Nodes -> Int], hi \in [Nodes -> Int] :
            Shape(tree, Members(tree), lo, at, hi)
    BY DEF TreeFits
  <1> DEFINE M == Members(tree)  b == bottom_most_lt(tree, HEAD)
  <1>2. tree \in [Nodes -> Links] /\ HEAD \in M /\ M \ {HEAD} = EntriesOf(tree) /\ M \subseteq Nodes
    BY MembersAre DEF TreeFits
  <1> HIDE DEF M
  <1>3. \A n \in M : tree[n].lt # NULL => tree[n].lt \in M
    BY <1>1 DEF Shape, ChildrenFit, M
  <1>4. b \in M /\ tree[b].lt = NULL
    BY <1>1, <1>2, <1>3, FrontFits DEF M
  <1>5. tree[HEAD].lt # NULL
    <2>1. PICK m \in M : m # HEAD
      BY <1>2
    <2>2. /\ lo[HEAD] <= lo[m] /\ lo[m] < at[m] /\ at[m] < hi[m] /\ hi[m] <= at[HEAD]
      BY <1>1, <1>2, <2>1 DEF Shape, Ordered, M
    <2>3. lo[HEAD] < at[m] /\ at[m] < at[HEAD]
      <3>1. lo[HEAD] \in Int /\ lo[m] \in Int /\ at[m] \in Int /\ hi[m] \in Int /\ at[HEAD] \in Int
        BY <1>2
      <3> QED  BY <2>2, <3>1
    <2> QED  BY <1>1, <1>2, <2>3 DEF Shape, Complete, M
  <1> QED  BY <1>2, <1>4, <1>5 DEF txmultiset_state_front, txmultiset_state_begin, txmultiset_entry_begin

LEMMA TreeStarts ==
    TreeFits(txmultiset_state_init) /\ EntriesOf(txmultiset_state_init) = {}
  <1> DEFINE new == txmultiset_state_init
             lo == [n \in Nodes |-> 0]
             at == [n \in Nodes |-> 1]
             hi == [n \in Nodes |-> 2]
  <1>1. new \in [Nodes -> Links] /\ HEAD \in Nodes
        /\ new[HEAD] = [lt |-> NULL, ge |-> NULL, parent |-> HEAD]
        /\ \A e \in Entries : new[e] = txmultiset_entry_init /\ new[e].parent = NULL
    BY NodesDiffer DEF txmultiset_state_init, txmultiset_entry_init, txmultiset_entry_init_head, Node, Links
  <1>2. EntriesOf(new) = {} /\ Members(new) = {HEAD}
    BY <1>1 DEF EntriesOf, Members, txmultiset_entry_is_enqueued
  <1>3. /\ lo \in [Nodes -> Int] /\ at \in [Nodes -> Int] /\ hi \in [Nodes -> Int]
        /\ lo[HEAD] = 0 /\ at[HEAD] = 1 /\ hi[HEAD] = 2
    BY <1>1
  <1> HIDE DEF new, lo, at, hi
  <1>4. Shape(new, {HEAD}, lo, at, hi)
    BY <1>1, <1>3 DEF Shape, Ordered, Nested, HeadFits, ChildrenFit, ParentsFit, Complete, KeysRise, UnusedFit
  <1> QED  BY <1>1, <1>2, <1>3, <1>4 DEF TreeFits, new

LEMMA TreeErased ==
    ASSUME NEW tree, TreeFits(tree), NEW e \in EntriesOf(tree)
    PROVE  /\ TreeFits(txmultiset_state_erase(tree, e))
           /\ EntriesOf(txmultiset_state_erase(tree, e)) = EntriesOf(tree) \ {e}
  <1> DEFINE M == Members(tree)
             p == tree[e].parent  lt == tree[e].lt  ge == tree[e].ge
             c == IF ge = NULL THEN lt ELSE ge
             pulled == PullUp(tree, e, c)
             new == txmultiset_state_erase(tree, e)
  <1>1. tree \in [Nodes -> Links]
    BY DEF TreeFits
  <1>2. PICK lo \in [Nodes -> Int], at \in [Nodes -> Int], hi \in [Nodes -> Int] :
            Shape(tree, M, lo, at, hi)
    BY DEF TreeFits
  <1>3. /\ M \in SUBSET Nodes /\ HEAD \in M /\ e \in M \ {HEAD} /\ e \in Entries /\ NULL \notin Nodes
        /\ HEAD \notin Entries /\ Nodes = Entries \cup {HEAD}
        /\ \A n \in Nodes : n # HEAD => (n \in M <=> tree[n].parent # NULL)
    BY MembersAre, NodesDiffer
  <1> HIDE DEF M
  <1>4. /\ p \in M /\ (tree[p].lt = e \/ tree[p].ge = e)
        /\ lt # NULL => lt \in M \ {HEAD} /\ tree[lt].parent = e /\ lo[lt] = lo[e] /\ hi[lt] = at[e]
        /\ ge # NULL => ge \in M \ {HEAD} /\ tree[ge].parent = e /\ lo[ge] = at[e] /\ hi[ge] = hi[e]
        /\ tree[p].lt = e => lo[e] = lo[p] /\ hi[e] = at[p]
    <2>1. ChildrenFit(tree, M, lo, at, hi) /\ ParentsFit(tree, M)
      BY <1>2 DEF Shape
    <2>2. p \in M /\ (tree[p].lt = e \/ tree[p].ge = e)
      BY <1>3, <2>1 DEF ParentsFit
    <2>3. lt # NULL => lt \in M \ {HEAD} /\ tree[lt].parent = e /\ lo[lt] = lo[e] /\ hi[lt] = at[e]
      BY <1>3, <2>1 DEF ChildrenFit
    <2>4. ge # NULL => ge \in M \ {HEAD} /\ tree[ge].parent = e /\ lo[ge] = at[e] /\ hi[ge] = hi[e]
      BY <1>3, <2>1 DEF ChildrenFit
    <2>5. tree[p].lt = e => lo[e] = lo[p] /\ hi[e] = at[p]
      BY <1>3, <2>1, <2>2 DEF ChildrenFit
    <2> QED  BY <2>2, <2>3, <2>4, <2>5
  <1>5. /\ \A n \in M : /\ lo[n] \in Int /\ at[n] \in Int /\ hi[n] \in Int
                        /\ lo[n] < at[n] /\ at[n] < hi[n] /\ lo[HEAD] <= lo[n]
                        /\ n # HEAD => hi[n] <= at[HEAD]
    BY <1>2, <1>3 DEF Shape, Ordered
  <1>6. /\ p \in Nodes /\ p # e /\ p # NULL
        /\ lt \in Nodes \cup {NULL} /\ ge \in Nodes \cup {NULL} /\ lt # e /\ ge # e
        /\ c \in Nodes \cup {NULL} /\ c # e
    <2>1. lt # e /\ ge # e
      <3>1. lo[e] < at[e] /\ at[e] < hi[e] /\ lo[e] \in Int /\ at[e] \in Int /\ hi[e] \in Int
        BY <1>3, <1>5
      <3>2. lt = e => hi[lt] = hi[e]
        OBVIOUS
      <3>3. ge = e => lo[ge] = lo[e]
        OBVIOUS
      <3> QED  BY <1>3, <1>4, <3>1, <3>2, <3>3
    <2>2. p # e
      BY <1>4, <2>1
    <2> QED  BY <1>1, <1>3, <1>4, <2>1, <2>2 DEF Links
  <1> HIDE DEF p, lt, ge, c
  <1>7. /\ pulled \in [Nodes -> Links]
        /\ \A n \in Nodes :
              /\ pulled[n].lt = IF n = p /\ tree[p].lt = e THEN c ELSE tree[n].lt
              /\ pulled[n].ge = IF n = p /\ tree[p].lt # e THEN c ELSE tree[n].ge
              /\ pulled[n].parent = IF n = c THEN p ELSE tree[n].parent
    <2> DEFINE base == IF c = NULL THEN tree ELSE [tree EXCEPT ![c].parent = p]
    <2>1. pulled = IF tree[p].lt = e THEN [base EXCEPT ![p].lt = c] ELSE [base EXCEPT ![p].ge = c]
      BY DEF PullUp, p
    <2>2. /\ base \in [Nodes -> Links]
          /\ \A n \in Nodes : /\ base[n].lt = tree[n].lt /\ base[n].ge = tree[n].ge
                              /\ base[n].parent = IF n = c THEN p ELSE tree[n].parent
      <3>1. CASE c = NULL
        BY <1>1, <1>3, <3>1
      <3>2. CASE c # NULL
        BY <1>1, <1>3, <1>6, <3>2 DEF Links
      <3> QED  BY <3>1, <3>2
    <2> HIDE DEF base
    <2>3. pulled = IF tree[p].lt = e THEN [base EXCEPT ![p].lt = c] ELSE [base EXCEPT ![p].ge = c]
      BY <2>1
    <2> HIDE DEF pulled
    <2>4. CASE tree[p].lt = e
      BY <1>6, <2>2, <2>3, <2>4 DEF Links
    <2>5. CASE tree[p].lt # e
      BY <1>6, <2>2, <2>3, <2>5 DEF Links
    <2> QED  BY <2>4, <2>5
  <1> HIDE DEF pulled
  (* It is enough to look at the links.                                    *)
  <1>8. ASSUME NEW up, NEW b, Erasable(tree, M, lo, at, hi, e, up), b \in M \/ ge = NULL,
               Relinked(tree, M, lo, at, hi, e, up, p, lt, ge, c, b, new)
        PROVE  TreeFits(new) /\ EntriesOf(new) = EntriesOf(tree) \ {e}
    <2> HIDE DEF new
    <2>1. PICK lo2, hi2 : /\ lo2 = LowPlaces(lo, at, e)
                          /\ hi2 = HighPlaces(at, hi, e, up)
      OBVIOUS
    <2>2. /\ lo2 \in [Nodes -> Int] /\ hi2 \in [Nodes -> Int]
          /\ Ordered(M \ {e}, lo2, at, hi2)
          /\ AllNested(M \ {e}, lo2, at, hi2)
          /\ KeysRise(M \ {e}, lo2, at)
      <3>1. Erasable(tree, M, lo, at, hi, e, up)
        BY <1>8
      <3> QED  BY <2>1, <3>1, ErasedPlaces
    <2>3. /\ HeadFits(new)
          /\ ChildrenFit(new, M \ {e}, lo2, at, hi2) /\ ParentsFit(new, M \ {e})
          /\ Complete(new, M \ {e}, lo2, at, hi2) /\ UnusedFit(new, M \ {e})
      BY <1>8, <2>1, ErasedLinks
    <2>4. Shape(new, M \ {e}, lo2, at, hi2)
      BY <2>2, <2>3 DEF Shape, AllNested
    <2>5. new \in [Nodes -> Links] /\ new[e].parent = NULL
      BY <1>8 DEF Relinked, txmultiset_entry_init, Node
    <2>6. \A n \in Entries : n # e => (new[n].parent = NULL <=> tree[n].parent = NULL)
      <3> SUFFICES ASSUME NEW n \in Entries, n # e
                   PROVE  new[n].parent = NULL <=> tree[n].parent = NULL
        OBVIOUS
      <3>1. new[n].parent = IF n = c THEN p
                            ELSE IF lt # NULL /\ ge # NULL /\ n = lt THEN b ELSE tree[n].parent
        BY <1>3, <1>8 DEF Relinked
      <3>2. n = c \/ n = lt => n \in M
        BY <1>3, <1>4 DEF c
      <3> QED  BY <1>3, <1>6, <1>8, <3>1, <3>2
    <2>7. EntriesOf(new) = EntriesOf(tree) \ {e} /\ Members(new) = M \ {e}
      BY <1>3, <2>5, <2>6 DEF EntriesOf, Members, M, txmultiset_entry_is_enqueued
    <2> QED  BY <2>2, <2>4, <2>5, <2>7 DEF TreeFits
  <1>9. /\ lo[e] \in Int /\ at[e] \in Int /\ hi[e] \in Int /\ lo[e] < at[e] /\ at[e] < hi[e]
    BY <1>3, <1>5
  <1>10. CASE ge = NULL
    <2>1. new = [pulled EXCEPT ![e] = txmultiset_entry_init]
      BY <1>10 DEF txmultiset_state_erase, txmultiset_entry_erase, pulled, c, ge, lt
    <2> HIDE DEF new
    <2>2. /\ new \in [Nodes -> Links] /\ new[e] = txmultiset_entry_init
          /\ \A n \in Nodes : n # e => new[n] = pulled[n]
      BY <1>3, <1>7, <2>1 DEF txmultiset_entry_init, Node, Links
    <2>3. Relinked(tree, M, lo, at, hi, e, hi[e], p, lt, ge, c, NULL, new)
      BY <1>7, <1>9, <1>10, <2>2 DEF Relinked, p, lt, ge, c
    <2>4. \A m \in M : ~(at[e] < at[m] /\ at[m] < hi[e])
      BY <1>2, <1>3, <1>10 DEF Shape, Complete, ge
    <2>5. Erasable(tree, M, lo, at, hi, e, hi[e])
      BY <1>1, <1>2, <1>3, <1>9, <2>4 DEF Erasable
    <2> QED  BY <1>8, <1>10, <2>3, <2>5 DEF new
  <1>11. CASE ge # NULL
    <2> DEFINE b == bottom_most_lt(pulled, ge)
               P == {m \in M : lo[m] <= at[e] /\ at[e] <= lo[m]}
    <2>1. c = ge
      BY <1>11 DEF c
    <2>2. Members(pulled) = M
      <3>1. \A n \in Entries : pulled[n].parent = NULL <=> tree[n].parent = NULL
        BY <1>3, <1>4, <1>6, <1>7, <1>11, <2>1
      <3> QED  BY <3>1 DEF Members, EntriesOf, M, txmultiset_entry_is_enqueued
    <2>3. ASSUME NEW n \in M, tree[n].lt # NULL
          PROVE  tree[n].lt \in M /\ lo[tree[n].lt] = lo[n] /\ hi[tree[n].lt] = at[n]
      BY <1>2, <2>3 DEF Shape, ChildrenFit
    <2>4. ASSUME NEW n \in M, pulled[n].lt # NULL
          PROVE  pulled[n].lt \in M /\ at[pulled[n].lt] < at[n]
      <3>1. CASE n = p /\ tree[p].lt = e
        <4>1. pulled[n].lt = ge
          BY <1>3, <1>7, <2>1, <3>1
        <4>2. at[ge] < hi[ge]
          BY <1>4, <1>5, <1>11
        <4> QED  BY <1>4, <1>11, <3>1, <4>1, <4>2
      <3>2. CASE ~(n = p /\ tree[p].lt = e)
        <4>1. pulled[n].lt = tree[n].lt
          BY <1>3, <1>7, <3>2
        <4> QED  BY <1>5, <2>3, <2>4, <4>1
      <3> QED  BY <3>1, <3>2
    <2>5. ASSUME NEW n \in P
          PROVE  ~(n = p /\ tree[p].lt = e) /\ pulled[n].lt = tree[n].lt
                 /\ (pulled[n].lt # NULL => pulled[n].lt \in P)
      <3>1. ~(n = p /\ tree[p].lt = e)
        <4>1. n = p /\ tree[p].lt = e => lo[n] = lo[e]
          BY <1>4
        <4>2. lo[n] <= at[e] /\ at[e] <= lo[n]
          OBVIOUS
        <4> QED  BY <1>9, <4>1, <4>2
      <3>2. pulled[n].lt = tree[n].lt
        BY <1>3, <1>7, <3>1
      <3>3. pulled[n].lt # NULL => pulled[n].lt \in P
        BY <2>3, <3>2
      <3> QED  BY <3>1, <3>2, <3>3
    <2>6. ge \in P
      BY <1>4, <1>9, <1>11
    <2>7. lo[HEAD] \in Int /\ at[HEAD] \in Int /\ \A n \in M : lo[HEAD] <= at[n] /\ at[n] <= at[HEAD]
      BY <1>3, <1>5
    <2>8. b \in P /\ pulled[b].lt = NULL
      <3>1. P \in SUBSET Members(pulled)
        BY <2>2
      <3>2. \A n \in P : pulled[n].lt # NULL => pulled[n].lt \in P
        BY <2>5
      <3> HIDE DEF P
      <3> QED  BY <2>2, <2>4, <2>6, <2>7, <3>1, <3>2, LeftWalk
    <2>9. b \in M /\ lo[b] <= at[e] /\ at[e] <= lo[b] /\ tree[b].lt = NULL
      BY <2>5, <2>8
    <2>10. b # e /\ b # lt /\ b \in Nodes
      <3>1. b = e => lo[b] = lo[e]
        OBVIOUS
      <3>2. b = lt => lo[b] = lo[e]
        BY <1>3, <1>4, <2>9
      <3> QED  BY <1>3, <1>9, <2>9, <3>1, <3>2
    <2> HIDE DEF P
    <2>11. new = [(IF lt = NULL THEN pulled ELSE [pulled EXCEPT ![lt].parent = b, ![b].lt = lt])
                  EXCEPT ![e] = txmultiset_entry_init]
      BY <1>11, <2>1 DEF txmultiset_state_erase, txmultiset_entry_erase, pulled, ge, lt, PushBelow
    <2> HIDE DEF new, b
    <2>12. /\ new \in [Nodes -> Links] /\ new[e] = txmultiset_entry_init
           /\ \A n \in Nodes \ {e} :
                 /\ new[n].lt = IF lt # NULL /\ n = b THEN lt ELSE pulled[n].lt
                 /\ new[n].ge = pulled[n].ge
                 /\ new[n].parent = IF lt # NULL /\ n = lt THEN b ELSE pulled[n].parent
      <3>1. CASE lt = NULL
        BY <1>3, <1>7, <2>11, <3>1 DEF txmultiset_entry_init, Node, Links
      <3>2. CASE lt # NULL
        BY <1>3, <1>6, <1>7, <2>10, <2>11, <3>2 DEF txmultiset_entry_init, Node, Links
      <3> QED  BY <3>1, <3>2
    <2>13. ~(b = p /\ tree[p].lt = e) /\ (lt # NULL => lt # c)
      <3>1. lt = c /\ lt # NULL => lo[lt] = lo[e] /\ lo[lt] = at[e]
        BY <1>4, <1>11, <2>1
      <3> QED  BY <1>9, <2>5, <2>8, <3>1
    <2>14. Relinked(tree, M, lo, at, hi, e, at[b], p, lt, ge, c, b, new)
      <3>1. \A n \in Nodes \ {e} :
              /\ new[n].lt = IF n = p /\ tree[p].lt = e THEN c
                             ELSE IF lt # NULL /\ ge # NULL /\ n = b THEN lt ELSE tree[n].lt
              /\ new[n].ge = IF n = p /\ tree[p].lt # e THEN c ELSE tree[n].ge
              /\ new[n].parent = IF n = c THEN p
                                 ELSE IF lt # NULL /\ ge # NULL /\ n = lt THEN b ELSE tree[n].parent
        BY <1>7, <1>11, <2>12, <2>13
      <3> QED  BY <1>11, <2>9, <2>12, <3>1 DEF Relinked, p, lt, ge, c
    <2>15. Erasable(tree, M, lo, at, hi, e, at[b])
      <3>1. lo[b] \in Int /\ at[b] \in Int /\ hi[b] \in Int /\ lo[b] < at[b] /\ at[b] < hi[b]
        BY <1>5, <2>9
      <3>2. at[b] <= hi[e]
        <4>1. Nested(lo, at, hi, b, e)
          BY <1>2, <1>3, <2>9 DEF Shape
        <4> QED  BY <1>9, <2>9, <3>1, <4>1 DEF Nested
      <3>3. ASSUME NEW m \in M PROVE ~(at[e] < at[m] /\ at[m] < at[b])
        <4>1. ~(lo[b] < at[m] /\ at[m] < at[b])
          BY <1>2, <2>9 DEF Shape, Complete
        <4> QED  BY <1>5, <1>9, <2>9, <3>1, <4>1
      <3>4. ASSUME NEW m \in M, at[m] <= at[b], at[b] <= at[m]
            PROVE  lo[m] <= at[e] /\ at[e] <= lo[m]
        <4>1. m # b => at[m] < at[b] \/ at[b] < at[m]
          BY <1>2, <2>9 DEF Shape, Ordered
        <4>2. m = b
          BY <1>5, <3>1, <3>4, <4>1
        <4> QED  BY <2>9, <4>2
      <3>5. at[e] < at[b]
        BY <1>9, <2>9, <3>1
      <3> QED  BY <1>1, <1>2, <1>3, <3>1, <3>2, <3>3, <3>4, <3>5 DEF Erasable
    <2> QED  BY <1>8, <2>9, <2>14, <2>15 DEF new
  <1> QED  BY <1>10, <1>11

-----------------------------------------------------------------------------
(* Iteration over a tree.                                                  *)

(* Entries of the tree behind the one at place x.                          *)
Adjoins(M, at, n, m) ==
    m \in M /\ at[n] < at[m] /\ \A k \in M : ~(at[n] < at[k] /\ at[k] < at[m])

ShapeIs(tree, M, lo, at, hi) ==
    /\ tree \in [Nodes -> Links] /\ M = Members(tree)
    /\ lo \in [Nodes -> Int] /\ at \in [Nodes -> Int] /\ hi \in [Nodes -> Int]
    /\ Shape(tree, M, lo, at, hi)

LEMMA NextUpwards ==
    ASSUME NEW tree, NEW M, NEW lo, NEW at, NEW hi, ShapeIs(tree, M, lo, at, hi),
           NEW P \in SUBSET M, \A n \in P : tree[tree[n].parent].ge = n => tree[n].parent \in P
    PROVE  \A n \in P : \E m \in P : /\ tree[tree[m].parent].ge # m
                                     /\ nearest_lt_parent(tree, n) = tree[m].parent
  <1> USE DEF ShapeIs
  <1>1. M \subseteq Nodes /\ HEAD \in M /\ HEAD \in Nodes
    BY MembersAre, NodesDiffer
  <1>2. \A n \in M : /\ lo[n] \in Int /\ at[n] \in Int /\ hi[n] \in Int
                     /\ lo[n] < at[n] /\ at[n] < hi[n] /\ lo[HEAD] <= lo[n]
                     /\ n # HEAD => hi[n] <= at[HEAD]
    BY <1>1 DEF Shape, Ordered
  <1>3. PICK base \in Int : base = lo[HEAD]
    BY <1>1
  <1>4. PICK K \in Nat : K = at[HEAD] - base + 1
    BY <1>1, <1>2, <1>3
  <1> DEFINE h == [n \in M |-> at[n] - base]
  <1>5. h \in [M -> Nat] /\ \A n \in M : h[n] = at[n] - base
    BY <1>2, <1>3
  <1> HIDE DEF h
  <1>6. \A n \in M : h[n] < K
    BY <1>1, <1>2, <1>4, <1>5
  <1>7. ASSUME NEW n \in M, tree[tree[n].parent].ge = n
        PROVE  tree[n].parent \in M /\ h[tree[n].parent] < h[n]
    <2>1. n # HEAD
      BY <1>7, NodesDiffer DEF Shape, HeadFits
    <2>2. tree[n].parent \in M /\ n # NULL
      BY <1>1, <2>1, NodesDiffer DEF Shape, ParentsFit
    <2>3. lo[n] = at[tree[n].parent]
      BY <1>7, <2>2 DEF Shape, ChildrenFit
    <2> QED  BY <1>2, <1>5, <2>2, <2>3
  <1>8. M = Members(tree)
    OBVIOUS
  <1> QED  BY <1>5, <1>6, <1>7, <1>8, NearestParent

LEMMA NextAdjoins ==
    ASSUME NEW tree, NEW M, NEW lo, NEW at, NEW hi, ShapeIs(tree, M, lo, at, hi),
           NEW n \in M, n # HEAD
    PROVE  Adjoins(M, at, n, txmultiset_entry_next(tree, n))
  <1> USE DEF ShapeIs
  <1>1. M \subseteq Nodes /\ HEAD \in M /\ HEAD \in Nodes
    BY MembersAre, NodesDiffer
  <1>2. \A m \in M : /\ lo[m] \in Int /\ at[m] \in Int /\ hi[m] \in Int
                     /\ lo[m] < at[m] /\ at[m] < hi[m]
    BY <1>1 DEF Shape, Ordered
  <1>3. Complete(tree, M, lo, at, hi) /\ ChildrenFit(tree, M, lo, at, hi) /\ ParentsFit(tree, M) /\ HeadFits(tree)
    BY DEF Shape
  <1>4. CASE tree[n].ge # NULL
    <2> DEFINE P == {m \in M : lo[m] = at[n]}  b == bottom_most_lt(tree, tree[n].ge)
    <2>1. P \in SUBSET M /\ \A m \in P : tree[m].lt # NULL => tree[m].lt \in P
      BY <1>3 DEF ChildrenFit
    <2>2. tree[n].ge \in P
      BY <1>3, <1>4 DEF ChildrenFit
    <2>3. b \in P /\ tree[b].lt = NULL
      <3> HIDE DEF P
      <3> QED  BY <2>1, <2>2, FrontFits
    <2> HIDE DEF b
    <2>4. b \in M /\ lo[b] = at[n] /\ lo[b] < at[b]
      BY <1>2, <2>3
    <2>5. \A k \in M : ~(at[n] < at[k] /\ at[k] < at[b])
      BY <1>3, <2>3, <2>4 DEF Complete
    <2>6. txmultiset_entry_next(tree, n) = b
      BY <1>4 DEF txmultiset_entry_next, b
    <2> QED  BY <2>4, <2>5, <2>6 DEF Adjoins
  <1>5. CASE tree[n].ge = NULL
    <2> DEFINE P == {m \in M \ {HEAD} : hi[m] = hi[n]}
    <2>1. ASSUME NEW m \in P, tree[tree[m].parent].ge = m PROVE tree[m].parent \in P
      <3>1. tree[m].parent \in M /\ m # NULL
        BY <1>1, <1>3, NodesDiffer DEF ParentsFit
      <3>2. tree[m].parent # HEAD
        BY <1>3, <2>1, <3>1 DEF HeadFits
      <3>3. hi[m] = hi[tree[m].parent]
        BY <1>3, <2>1, <3>1 DEF ChildrenFit
      <3> QED  BY <3>1, <3>2, <3>3
    <2>2. n \in P /\ P \in SUBSET M
      OBVIOUS
    <2>3. PICK m \in P : tree[tree[m].parent].ge # m /\ nearest_lt_parent(tree, n) = tree[m].parent
      <3> HIDE DEF P
      <3> QED  BY <2>1, <2>2, NextUpwards
    <2> DEFINE p == tree[m].parent
    <2>4. p \in M /\ m # NULL /\ tree[p].lt = m
      BY <1>1, <1>3, <2>3, NodesDiffer DEF ParentsFit
    <2>5. at[p] = hi[n]
      BY <1>3, <2>3, <2>4 DEF ChildrenFit
    <2>6. at[n] < at[p] /\ \A k \in M : ~(at[n] < at[k] /\ at[k] < at[p])
      BY <1>2, <1>3, <1>5, <2>5 DEF Complete
    <2>7. txmultiset_entry_next(tree, n) = p
      BY <1>5, <2>3 DEF txmultiset_entry_next
    <2> QED  BY <2>4, <2>6, <2>7 DEF Adjoins
  <1> QED  BY <1>4, <1>5

LEMMA BeginIsFirst ==
    ASSUME NEW tree, NEW M, NEW lo, NEW at, NEW hi, ShapeIs(tree, M, lo, at, hi)
    PROVE  /\ txmultiset_entry_begin(tree) \in M
           /\ \A k \in M : at[txmultiset_entry_begin(tree)] <= at[k]
  <1> USE DEF ShapeIs
  <1>1. M \subseteq Nodes /\ HEAD \in M /\ HEAD \in Nodes
    BY MembersAre, NodesDiffer
  <1>2. \A m \in M : /\ lo[m] \in Int /\ at[m] \in Int /\ lo[m] < at[m] /\ lo[HEAD] <= lo[m]
    BY <1>1 DEF Shape, Ordered
  <1> DEFINE P == {m \in M : lo[m] = lo[HEAD]}  b == bottom_most_lt(tree, HEAD)
  <1>3. P \in SUBSET M /\ HEAD \in P /\ \A m \in P : tree[m].lt # NULL => tree[m].lt \in P
    BY <1>1 DEF Shape, ChildrenFit
  <1>4. b \in P /\ tree[b].lt = NULL
    <2> HIDE DEF P
    <2> QED  BY <1>3, FrontFits
  <1> HIDE DEF b
  <1>5. ASSUME NEW k \in M PROVE at[b] <= at[k]
    <2>1. b \in M /\ lo[b] = lo[HEAD] /\ lo[b] < at[k]
      BY <1>1, <1>2, <1>4
    <2>2. ~(lo[b] < at[k] /\ at[k] < at[b])
      BY <1>4, <2>1 DEF Shape, Complete
    <2> QED  BY <1>2, <2>1, <2>2
  <1> QED  BY <1>4, <1>5 DEF txmultiset_entry_begin, b

(* The number of entries from n on.                                        *)
LEMMA EntriesFrom ==
    ASSUME NEW tree, NEW M, NEW lo, NEW at, NEW hi, ShapeIs(tree, M, lo, at, hi),
           NEW N, N = [n \in M |-> Cardinality({m \in M \ {HEAD} : at[n] <= at[m]})]
    PROVE  \A n \in M : N[n] = IF n = HEAD THEN 0 ELSE 1 + N[txmultiset_entry_next(tree, n)]
  <1> DEFINE F(n) == {m \in M \ {HEAD} : at[n] <= at[m]}
  <1>1. M \subseteq Nodes /\ HEAD \in M /\ HEAD \in Nodes /\ M \ {HEAD} \subseteq Entries
    BY MembersAre, NodesDiffer DEF ShapeIs
  <1>2. \A m \in M : /\ at[m] \in Int /\ hi[m] \in Int /\ at[m] < hi[m] /\ (m # HEAD => hi[m] <= at[HEAD])
    BY <1>1 DEF Shape, Ordered, ShapeIs
  <1>3. \A n \in M : IsFiniteSet(F(n))
    BY <1>1, EntriesAssumption, FS_Subset
  <1>4. N[HEAD] = 0
    <2>1. F(HEAD) = {}
      BY <1>1, <1>2
    <2> QED  BY <1>1, <2>1, FS_EmptySet
  <1>5. ASSUME NEW n \in M, n # HEAD PROVE N[n] = 1 + N[txmultiset_entry_next(tree, n)]
    <2> DEFINE x == txmultiset_entry_next(tree, n)
    <2>1. Adjoins(M, at, n, x)
      BY <1>5, NextAdjoins
    <2> HIDE DEF x
    <2>2. x \in M /\ at[n] < at[x] /\ \A k \in M : ~(at[n] < at[k] /\ at[k] < at[x])
      BY <2>1 DEF Adjoins
    <2>3. \A m \in M : m # n => at[m] < at[n] \/ at[n] < at[m]
      BY DEF ShapeIs, Shape, Ordered
    <2>4. n \notin F(x)
      BY <1>2, <2>2
    <2>5. F(n) = F(x) \cup {n}
      <3>1. \A m \in M \ {HEAD} : at[n] <= at[m] <=> m = n \/ at[x] <= at[m]
        BY <1>2, <2>2, <2>3
      <3> QED  BY <1>5, <3>1
    <2>6. IsFiniteSet(F(x))
      BY <1>3, <2>2
    <2>7. N[n] = Cardinality(F(n)) /\ N[x] = Cardinality(F(x))
      BY <2>2
    <2> HIDE DEF F
    <2>8. Cardinality(F(n)) = Cardinality(F(x)) + 1 /\ Cardinality(F(x)) \in Nat
      BY <2>4, <2>5, <2>6, FS_AddElement, FS_CardinalityType
    <2> QED  BY <2>7, <2>8 DEF x
  <1> QED  BY <1>4, <1>5

(* There is only one way to count them.                                    *)
LEMMA CountIs ==
    ASSUME NEW tree, NEW M, NEW lo, NEW at, NEW hi, ShapeIs(tree, M, lo, at, hi),
           NEW f, \A n \in M : f[n] = IF n = HEAD THEN 0 ELSE 1 + f[txmultiset_entry_next(tree, n)],
           NEW g, \A n \in M : g[n] = IF n = HEAD THEN 0 ELSE 1 + g[txmultiset_entry_next(tree, n)]
    PROVE  \A n \in M : f[n] = g[n]
  <1>1. M \subseteq Nodes /\ HEAD \in M /\ HEAD \in Nodes
    BY MembersAre, NodesDiffer DEF ShapeIs
  <1>2. \A m \in M : /\ at[m] \in Int /\ hi[m] \in Int /\ at[m] < hi[m] /\ (m # HEAD => hi[m] <= at[HEAD])
    BY <1>1 DEF Shape, Ordered, ShapeIs
  <1>3. \A n \in M : at[n] <= at[HEAD]
    BY <1>1, <1>2
  <1> DEFINE T == {k \in Nat : \A n \in M : at[HEAD] - at[n] < k => f[n] = g[n]}
  <1>4. 0 \in T
    BY <1>1, <1>2, <1>3
  <1>5. ASSUME NEW k \in T PROVE k + 1 \in T
    <2>1. ASSUME NEW n \in M, at[HEAD] - at[n] < k + 1 PROVE f[n] = g[n]
      <3>1. CASE n = HEAD
        BY <3>1
      <3>2. CASE n # HEAD
        <4>1. PICK x : x = txmultiset_entry_next(tree, n)
          OBVIOUS
        <4>2. x \in M /\ at[n] < at[x]
          BY <3>2, <4>1, NextAdjoins DEF Adjoins
        <4>3. at[HEAD] - at[x] < k
          BY <1>1, <1>2, <2>1, <4>2
        <4>4. f[x] = g[x]
          BY <4>2, <4>3
        <4> QED  BY <3>2, <4>1, <4>4
      <3> QED  BY <3>1, <3>2
    <2> QED  BY <2>1
  <1>6. T = Nat
    <2> HIDE DEF T
    <2>1. T \subseteq Nat
      BY DEF T
    <2> QED  BY <1>4, <1>5, <2>1, UpwardInduction
  <1>7. ASSUME NEW n \in M PROVE f[n] = g[n]
    <2>1. at[HEAD] - at[n] + 1 \in Nat /\ at[HEAD] - at[n] < at[HEAD] - at[n] + 1
      BY <1>1, <1>2, <1>3
    <2>2. at[HEAD] - at[n] + 1 \in T
      BY <1>6, <2>1
    <2> QED  BY <2>1, <2>2
  <1> QED  BY <1>7

LEMMA TreeSize ==
    ASSUME NEW tree, TreeFits(tree)
    PROVE  txmultiset_state_size(tree) = Cardinality(EntriesOf(tree))
  <1> DEFINE M == Members(tree)
  <1>1. PICK lo \in [Nodes -> Int], at \in [Nodes -> Int], hi \in [Nodes -> Int] :
            Shape(tree, M, lo, at, hi)
    BY DEF TreeFits
  <1>2. ShapeIs(tree, M, lo, at, hi)
    BY <1>1 DEF ShapeIs, TreeFits
  <1>3. M \ {HEAD} = EntriesOf(tree) /\ HEAD \in M /\ M \subseteq Nodes
    BY MembersAre
  <1>4. tree[HEAD].parent = HEAD
    BY <1>1 DEF Shape, HeadFits
  <1> DEFINE Eq(f) == f = [n \in M |-> IF n = HEAD THEN 0 ELSE 1 + f[txmultiset_entry_next(tree, n)]]
             count == CHOOSE f : Eq(f)
             N == [n \in M |-> Cardinality({m \in M \ {HEAD} : at[n] <= at[m]})]
             b == txmultiset_entry_begin(tree)
  <1>5. txmultiset_state_size(tree) = count[b]
    <2>1. \A from : txmultiset_entry_distance(tree, from, HEAD) = count[from]
      BY Zenon DEF txmultiset_entry_distance
    <2>2. txmultiset_state_size(tree) = txmultiset_entry_distance(tree, b, HEAD)
      BY <1>4, Zenon DEF txmultiset_state_size, txmultiset_state_begin, txmultiset_state_end, txmultiset_entry_end
    <2> QED  BY <2>1, <2>2, Zenon
  <1>6. \A n \in M : N[n] = IF n = HEAD THEN 0 ELSE 1 + N[txmultiset_entry_next(tree, n)]
    <2> HIDE DEF M
    <2> QED  BY <1>2, EntriesFrom
  <1>7. Eq(N)
    <2>1. N = [n \in M |-> N[n]]
      OBVIOUS
    <2> HIDE DEF N, M
    <2> QED  BY <1>6, <2>1
  <1> HIDE DEF Eq
  <1>8. Eq(count)
    BY <1>7, Zenon
  <1>9. \A n \in M : count[n] = IF n = HEAD THEN 0 ELSE 1 + count[txmultiset_entry_next(tree, n)]
    <2> HIDE DEF count, M
    <2> QED  BY <1>8 DEF Eq
  <1>10. b \in M /\ \A k \in M : at[b] <= at[k]
    <2> HIDE DEF M
    <2> QED  BY <1>2, BeginIsFirst
  <1>11. count[b] = N[b]
    <2> HIDE DEF count, N, M, b
    <2> QED  BY <1>2, <1>6, <1>9, <1>10, CountIs
  <1>12. N[b] = Cardinality(EntriesOf(tree))
    <2> HIDE DEF b
    <2>1. {m \in M \ {HEAD} : at[b] <= at[m]} = EntriesOf(tree)
      BY <1>3, <1>10
    <2> QED  BY <1>10, <2>1
  <1> QED  BY <1>5, <1>11, <1>12

-----------------------------------------------------------------------------
(* Events and the places that they move entries to and from.               *)

Pushing == {"QUEUE_PUSH", "STACK_PUSH"}
Popping == {"QUEUE_POP", "STACK_POP"}
Adding == Pushing \cup {"LIST_INSERT", "MULTISET_INSERT"}
Removing == Popping \cup {"LIST_ERASE", "MULTISET_ERASE"}

Fitting(v) ==
    /\ v.op \in {"LIST_INSERT", "LIST_ERASE"} => Kind[v.object] = "list"
    /\ v.op \in {"MULTISET_INSERT", "MULTISET_ERASE"} => Kind[v.object] = "multiset"
    /\ v.op \in {"QUEUE_PUSH", "QUEUE_POP"} => Kind[v.object] = "queue"
    /\ v.op \in {"STACK_PUSH", "STACK_POP"} => Kind[v.object] = "stack"

Records == [op : Adding \cup Removing, object : Objects, entry : Entries,
            position : Nodes \cup {NULL}, local : BOOLEAN]
LogEvents == {v \in Records : Fitting(v)}

Adds(v) == v.op \in Adding
InLocal(v) == v.op \in Pushing \/ (v.op \in Popping /\ v.local)

(* C[o] is the set of entries of object o, D[t][o] that of the local ones  *)
(* of transaction t; l is the log of a transaction, r its locks, p and a   *)
(* its phase and the event it has reached.                                 *)
Holder(C, D, t, v) == IF InLocal(v) THEN D[t][v.object] ELSE C[v.object]

Nowhere(C, D, e) ==
    \A o \in Objects : e \notin C[o] /\ \A u \in Threads : e \notin D[u][o]

Apart(C, D) ==
    /\ \A o, p \in Objects : o # p => C[o] \cap C[p] = {}
    /\ \A t \in Threads : \A o, p \in Objects : D[t][o] \cap C[p] = {}
    /\ \A t, u \in Threads : \A o, p \in Objects : t # u \/ o # p => D[t][o] \cap D[u][p] = {}

(* Nothing happens to e from event k + 1 to event m.                       *)
Since(l, e, k, m) == \A j \in k + 1 .. m : l[j].entry # e

Active(p, l, a) == IF p = "undo" THEN a ELSE Len(l)

(* A transaction has the entries of its log for itself.                    *)
OwnFits(C, D, r, l, t) ==
    \A k \in 1 .. Len(l) :
        /\ \A o \in Objects : l[k].entry \in C[o] => r[o] = "WRLOCKED"
        /\ \A u \in Threads : \A o \in Objects : l[k].entry \in D[u][o] => u = t
        /\ ~InLocal(l[k]) => r[l[k].object] = "WRLOCKED"

(* An entry is added and removed in turn, and removed from where it has    *)
(* been added; a local one has been added by the transaction.  The         *)
(* successor of an erased list entry leaves the list by being erased, too. *)
EventFits(l, k, v) ==
    /\ ~Adds(v) /\ InLocal(v) => \E j \in 1 .. k : l[j].entry = v.entry
    /\ \A j \in 1 .. k : l[j].entry = v.entry /\ Since(l, v.entry, j, k) =>
          /\ Adds(l[j]) <=> ~Adds(v)
          /\ ~Adds(v) => (InLocal(l[j]) <=> InLocal(v)) /\ l[j].object = v.object
    /\ \A j \in 1 .. k :
          l[j].op = "LIST_ERASE" /\ l[j].position = v.entry /\ Since(l, v.entry, j, k) =>
              ~Adds(v) /\ ~InLocal(v) /\ v.object = l[j].object

LogFits(l) == \A k \in 1 .. Len(l) : EventFits(l, k - 1, l[k])

(* After m events each entry is where the last one has put it.             *)
StaysPut(C, D, l, m, t) ==
    \A k \in 1 .. m : Since(l, l[k].entry, k, m) =>
        IF Adds(l[k]) THEN l[k].entry \in Holder(C, D, t, l[k]) ELSE Nowhere(C, D, l[k].entry)

FromLog(D, l, m, t) ==
    \A o \in Objects : \A e \in D[t][o] : \E k \in 1 .. m : l[k].entry = e

PositionsFit(C, l, m) ==
    \A k \in 1 .. m :
        l[k].op = "LIST_ERASE" /\ l[k].position # HEAD /\ Since(l, l[k].position, k, m) =>
            l[k].position \in C[l[k].object]

PhaseFits(D, r, p, l, a, t) ==
    /\ p = "apply" => \A o \in Objects : D[t][o] # {} => r[o] = "WRLOCKED"
    /\ p = "out" => l = <<>> /\ \A o \in Objects : r[o] = "UNLOCKED"
    /\ p \in {"out", "run", "prepare"} => a = 0

ThreadFits(C, D, r, p, l, a, t) ==
    /\ OwnFits(C, D, r, l, t) /\ LogFits(l) /\ PhaseFits(D, r, p, l, a, t)
    /\ p # "apply" => /\ StaysPut(C, D, l, Active(p, l, a), t)
                      /\ FromLog(D, l, Active(p, l, a), t)
                      /\ PositionsFit(C, l, Active(p, l, a))

Exclusive(R) ==
    \A t, u \in Threads : t # u => \A o \in Objects : R[t][o] = "WRLOCKED" => R[u][o] = "UNLOCKED"

LogsDiffer(L) ==
    \A t, u \in Threads : t # u =>
        \A j \in 1 .. Len(L[t]) : \A k \in 1 .. Len(L[u]) : L[t][j].entry # L[u][k].entry

(* Only e has moved, and only between the objects and t's local ones.      *)
Touches(C, D, C2, D2, t, e) ==
    /\ \A o \in Objects : \A x : x # e => (x \in C2[o] <=> x \in C[o])
    /\ \A u \in Threads : \A o \in Objects : \A x :
          x # e \/ u # t => (x \in D2[u][o] <=> x \in D[u][o])

(* Event v puts its entry in its place, or takes it from there.            *)
Puts(C, D, C2, D2, t, v) ==
    /\ Touches(C, D, C2, D2, t, v.entry)
    /\ \A o \in Objects : v.entry \in C2[o] <=> o = v.object /\ ~InLocal(v)
    /\ \A o \in Objects : v.entry \in D2[t][o] <=> o = v.object /\ InLocal(v)

Takes(C, D, C2, D2, t, v) ==
    /\ Touches(C, D, C2, D2, t, v.entry)
    /\ Nowhere(C2, D2, v.entry)

-----------------------------------------------------------------------------
(* What one transaction does does not concern the others.                  *)

LEMMA OthersKeep ==
    ASSUME NEW C, NEW D, NEW C2, NEW D2, NEW t \in Threads, NEW u \in Threads, u # t,
           NEW e, Touches(C, D, C2, D2, t, e),
           NEW r, \A o \in Objects : r[o] = "WRLOCKED" => (e \in C2[o] <=> e \in C[o]),
           NEW l, \A k \in 1 .. Len(l) : l[k].entry # e,
           NEW p, NEW a, Active(p, l, a) \in 0 .. Len(l), Len(l) \in Nat,
           \A k \in 1 .. Len(l) : l[k].object \in Objects,
           \A k \in 1 .. Len(l) : l[k].entry \in Entries,
           ThreadFits(C, D, r, p, l, a, u)
    PROVE  ThreadFits(C2, D2, r, p, l, a, u)
  <1> DEFINE m == Active(p, l, a)
  <1>0. \A k \in 1 .. m : k \in 1 .. Len(l)
    OBVIOUS
  <1>1. OwnFits(C, D, r, l, u) /\ LogFits(l) /\ PhaseFits(D, r, p, l, a, u)
    BY DEF ThreadFits
  <1>2. OwnFits(C2, D2, r, l, u)
    BY <1>1 DEF OwnFits, Touches
  <1>3. \A o \in Objects : \A x : x \in D2[u][o] <=> x \in D[u][o]
    BY DEF Touches
  <1>4. PhaseFits(D2, r, p, l, a, u)
    <2>1. \A o \in Objects : D2[u][o] # {} => D[u][o] # {}
      BY <1>3
    <2> QED  BY <1>1, <2>1 DEF PhaseFits
  <1>5. ASSUME p # "apply"
        PROVE  StaysPut(C2, D2, l, m, u) /\ FromLog(D2, l, m, u) /\ PositionsFit(C2, l, m)
    <2>1. StaysPut(C, D, l, m, u) /\ FromLog(D, l, m, u) /\ PositionsFit(C, l, m)
      BY <1>5 DEF ThreadFits
    <2> HIDE DEF m
    <2>2. StaysPut(C2, D2, l, m, u)
      <3> SUFFICES ASSUME NEW k \in 1 .. m, Since(l, l[k].entry, k, m)
                   PROVE  IF Adds(l[k]) THEN l[k].entry \in Holder(C2, D2, u, l[k])
                                        ELSE Nowhere(C2, D2, l[k].entry)
        BY DEF StaysPut
      <3>1. l[k].entry # e /\ l[k].object \in Objects
        BY <1>0
      <3>2. IF Adds(l[k]) THEN l[k].entry \in Holder(C, D, u, l[k]) ELSE Nowhere(C, D, l[k].entry)
        BY <2>1 DEF StaysPut
      <3>3. CASE Adds(l[k])
        BY <1>3, <3>1, <3>2, <3>3 DEF Holder, Touches
      <3>4. CASE ~Adds(l[k])
        BY <3>1, <3>2, <3>4 DEF Nowhere, Touches
      <3> QED  BY <3>3, <3>4
    <2>3. FromLog(D2, l, m, u)
      BY <1>3, <2>1 DEF FromLog
    <2>4. PositionsFit(C2, l, m)
      <3> SUFFICES ASSUME NEW k \in 1 .. m, l[k].op = "LIST_ERASE", l[k].position # HEAD,
                          Since(l, l[k].position, k, m)
                   PROVE  l[k].position \in C2[l[k].object]
        BY DEF PositionsFit
      <3>1. l[k].position \in C[l[k].object]
        BY <2>1 DEF PositionsFit
      <3>2. ~InLocal(l[k])
        BY DEF InLocal, Pushing, Popping
      <3>3. r[l[k].object] = "WRLOCKED" /\ l[k].object \in Objects
        BY <1>0, <1>2, <3>2 DEF OwnFits
      <3> QED  BY <3>1, <3>3 DEF Touches
    <2> QED  BY <2>2, <2>3, <2>4
  <1> QED  BY <1>1, <1>2, <1>4, <1>5 DEF ThreadFits

LEMMA StillApart ==
    ASSUME NEW C, NEW D, NEW C2, NEW D2, NEW t \in Threads, NEW v, v.object \in Objects, Apart(C, D),
           Puts(C, D, C2, D2, t, v) \/ Takes(C, D, C2, D2, t, v),
           Puts(C, D, C2, D2, t, v) => Nowhere(C, D, v.entry)
    PROVE  Apart(C2, D2)
  <1> DEFINE e == v.entry
  <1>1. Touches(C, D, C2, D2, t, e)
    BY DEF Puts, Takes
  <1>2. \A o \in Objects : \A x : x # e => (x \in C2[o] <=> x \in C[o])
    BY <1>1 DEF Touches
  <1>3. \A u \in Threads : \A o \in Objects : \A x : x # e => (x \in D2[u][o] <=> x \in D[u][o])
    BY <1>1 DEF Touches
  <1>4. CASE Takes(C, D, C2, D2, t, v)
    <2>1. Nowhere(C2, D2, e)
      BY <1>4 DEF Takes
    <2> QED  BY <1>2, <1>3, <2>1 DEF Apart, Nowhere
  <1>5. CASE Puts(C, D, C2, D2, t, v)
    <2>1. /\ \A o \in Objects : e \in C2[o] <=> o = v.object /\ ~InLocal(v)
          /\ \A o \in Objects : e \in D2[t][o] <=> o = v.object /\ InLocal(v)
      BY <1>5 DEF Puts
    <2>2. \A u \in Threads : \A o \in Objects : u # t => e \notin D2[u][o]
      BY <1>1, <1>5 DEF Touches, Nowhere
    <2> HIDE DEF e
    <2> QED  BY <1>2, <1>3, <2>1, <2>2 DEF Apart
  <1> QED  BY <1>4, <1>5

(* An event is logged and carried out.                                     *)
LEMMA LoggedFits ==
    ASSUME NEW C, NEW D, NEW C2, NEW D2, NEW t \in Threads, NEW r, NEW v \in LogEvents,
           NEW l \in Seq(LogEvents), NEW l2 \in Seq(LogEvents), l2 = Append(l, v),
           ThreadFits(C, D, r, "run", l, 0, t), Apart(C, D),
           ~InLocal(v) => r[v.object] = "WRLOCKED",
           IF Adds(v) THEN Nowhere(C, D, v.entry) /\ Puts(C, D, C2, D2, t, v)
                      ELSE v.entry \in Holder(C, D, t, v) /\ Takes(C, D, C2, D2, t, v),
           v.op = "LIST_ERASE" /\ v.position # HEAD => v.position \in C[v.object] \ {v.entry}
    PROVE  ThreadFits(C2, D2, r, "run", l2, 0, t)
  <1> DEFINE e == v.entry  m == Len(l)
  <1>1. /\ m \in Nat /\ Len(l2) = m + 1 /\ l2[m + 1] = v
        /\ \A k \in 1 .. m : l2[k] = l[k] /\ l[k].object \in Objects /\ l[k].entry \in Entries
        /\ v.object \in Objects
    BY DEF LogEvents, Records
  <1>2. /\ OwnFits(C, D, r, l, t) /\ LogFits(l) /\ StaysPut(C, D, l, m, t)
        /\ FromLog(D, l, m, t) /\ PositionsFit(C, l, m)
        /\ PhaseFits(D, r, "run", l, 0, t)
    BY DEF ThreadFits, Active
  <1> HIDE DEF m
  <1>3. Touches(C, D, C2, D2, t, e)
    BY DEF Puts, Takes
  <1>4. \A x : \A k \in 1 .. m : \A n \in 0 .. m : Since(l2, x, k, n) <=> Since(l, x, k, n)
    BY <1>1 DEF Since
  <1>5. \A x : \A k \in 1 .. m : Since(l2, x, k, m + 1) <=> Since(l, x, k, m) /\ x # e
    <2> SUFFICES ASSUME NEW x, NEW k \in 1 .. m
                 PROVE  Since(l2, x, k, m + 1) <=> Since(l, x, k, m) /\ x # e
      OBVIOUS
    <2>1. k + 1 .. m + 1 = (k + 1 .. m) \cup {m + 1}
      BY <1>1
    <2>2. \A j \in k + 1 .. m : l2[j] = l[j]
      BY <1>1
    <2> QED  BY <1>1, <2>1, <2>2 DEF Since
  (* Where the last event on the entry has put it.                         *)
  <1>6. ASSUME NEW k \in 1 .. m, l[k].entry = e, Since(l, e, k, m)
        PROVE  /\ Adds(l[k]) <=> ~Adds(v)
               /\ ~Adds(v) => (InLocal(l[k]) <=> InLocal(v)) /\ l[k].object = v.object
    <2>1. IF Adds(l[k]) THEN e \in Holder(C, D, t, l[k]) ELSE Nowhere(C, D, e)
      BY <1>2, <1>6 DEF StaysPut
    <2>2. l[k].object \in Objects
      BY <1>1
    <2>3. CASE Adds(v)
      BY <1>1, <2>1, <2>2, <2>3 DEF Nowhere, Holder
    <2>4. CASE ~Adds(v)
      <3>1. e \in Holder(C, D, t, v)
        BY <2>4
      <3>2. Adds(l[k]) /\ e \in Holder(C, D, t, l[k])
        BY <1>1, <2>1, <3>1 DEF Nowhere, Holder
      <3> QED  BY <1>1, <2>2, <2>4, <3>1, <3>2 DEF Holder, Apart
    <2> QED  BY <2>3, <2>4
  <1>7. LogFits(l2)
    <2>1. ASSUME NEW k \in 1 .. m PROVE EventFits(l2, k - 1, l2[k])
      <3>1. l2[k] = l[k] /\ k - 1 \in 0 .. m /\ \A j \in 1 .. k - 1 : j \in 1 .. m /\ l2[j] = l[j]
        BY <1>1
      <3>2. EventFits(l, k - 1, l[k])
        BY <1>2 DEF LogFits, m
      <3> QED  BY <1>4, <3>1, <3>2 DEF EventFits
    <2>2. ~Adds(v) /\ InLocal(v) => \E j \in 1 .. m : l2[j].entry = e
      BY <1>1, <1>2 DEF Holder, FromLog
    <2>3. ASSUME NEW j \in 1 .. m, l2[j].entry = e, Since(l2, e, j, m)
          PROVE  /\ Adds(l2[j]) <=> ~Adds(v)
                 /\ ~Adds(v) => (InLocal(l2[j]) <=> InLocal(v)) /\ l2[j].object = v.object
      <3>1. l2[j] = l[j] /\ Since(l, e, j, m)
        BY <1>1, <1>4, <2>3
      <3> QED  BY <1>6, <2>3, <3>1
    <2>4. ASSUME NEW j \in 1 .. m, l2[j].op = "LIST_ERASE", l2[j].position = e, Since(l2, e, j, m)
          PROVE  ~Adds(v) /\ ~InLocal(v) /\ v.object = l2[j].object
      <3>1. l2[j] = l[j] /\ Since(l, e, j, m) /\ e # HEAD
        BY <1>1, <1>4, <2>4, HeadAssumption DEF LogEvents, Records
      <3>2. e \in C[l[j].object] /\ l[j].object \in Objects
        BY <1>1, <1>2, <2>4, <3>1 DEF PositionsFit
      <3> QED  BY <1>1, <3>1, <3>2 DEF Nowhere, Holder, Apart
    <2>5. m + 1 - 1 = m /\ \A k \in 1 .. m + 1 : k \in 1 .. m \/ k = m + 1
      BY <1>1
    <2>6. EventFits(l2, m, v)
      BY <2>2, <2>3, <2>4 DEF EventFits
    <2> QED  BY <1>1, <2>1, <2>5, <2>6 DEF LogFits
  <1>8. \A k \in 1 .. m + 1 : k \in 1 .. m \/ k = m + 1
    BY <1>1
  <1>9. OwnFits(C2, D2, r, l2, t)
    <2>1. \A o \in Objects : e \in C2[o] => r[o] = "WRLOCKED"
      BY DEF Puts, Takes, Nowhere
    <2>2. \A u \in Threads : \A o \in Objects : e \in D2[u][o] => u = t
      BY <1>3 DEF Puts, Takes, Nowhere, Touches
    <2>3. ASSUME NEW k \in 1 .. m, l[k].entry # e
          PROVE  /\ \A o \in Objects : l[k].entry \in C2[o] => r[o] = "WRLOCKED"
                 /\ \A u \in Threads : \A o \in Objects : l[k].entry \in D2[u][o] => u = t
      <3>1. k \in 1 .. Len(l)
        BY DEF m
      <3> QED  BY <1>2, <1>3, <2>3, <3>1 DEF OwnFits, Touches
    <2>4. ASSUME NEW k \in 1 .. m PROVE ~InLocal(l[k]) => r[l[k].object] = "WRLOCKED"
      BY <1>2 DEF OwnFits, m
    <2> QED  BY <1>1, <1>8, <2>1, <2>2, <2>3, <2>4 DEF OwnFits
  <1>10. StaysPut(C2, D2, l2, m + 1, t)
    <2>1. IF Adds(v) THEN e \in Holder(C2, D2, t, v) ELSE Nowhere(C2, D2, e)
      BY <1>1 DEF Puts, Takes, Holder
    <2>2. ASSUME NEW k \in 1 .. m, Since(l2, l[k].entry, k, m + 1)
          PROVE  IF Adds(l[k]) THEN l[k].entry \in Holder(C2, D2, t, l[k])
                               ELSE Nowhere(C2, D2, l[k].entry)
      <3>1. Since(l, l[k].entry, k, m) /\ l[k].entry # e /\ l[k].object \in Objects
        BY <1>1, <1>5, <2>2
      <3>2. IF Adds(l[k]) THEN l[k].entry \in Holder(C, D, t, l[k]) ELSE Nowhere(C, D, l[k].entry)
        BY <1>2, <3>1 DEF StaysPut
      <3> QED  BY <1>3, <3>1, <3>2 DEF Holder, Nowhere, Touches
    <2> QED  BY <1>1, <1>8, <2>1, <2>2 DEF StaysPut
  <1>11. FromLog(D2, l2, m + 1, t)
    <2> SUFFICES ASSUME NEW o \in Objects, NEW x \in D2[t][o]
                 PROVE  \E k \in 1 .. m + 1 : l2[k].entry = x
      BY DEF FromLog
    <2>1. CASE x = e
      BY <1>1, <2>1
    <2>2. CASE x # e
      <3>1. x \in D[t][o]
        BY <1>3, <2>2 DEF Touches
      <3> QED  BY <1>1, <1>2, <3>1 DEF FromLog
    <2> QED  BY <2>1, <2>2
  <1>12. PositionsFit(C2, l2, m + 1)
    <2>1. ASSUME NEW k \in 1 .. m, l[k].op = "LIST_ERASE", l[k].position # HEAD,
                 Since(l2, l[k].position, k, m + 1)
          PROVE  l[k].position \in C2[l[k].object]
      <3>1. Since(l, l[k].position, k, m) /\ l[k].position # e /\ l[k].object \in Objects
        BY <1>1, <1>5, <2>1
      <3>2. l[k].position \in C[l[k].object]
        BY <1>2, <2>1, <3>1 DEF PositionsFit
      <3> QED  BY <1>3, <3>1, <3>2 DEF Touches
    <2>2. v.op = "LIST_ERASE" /\ v.position # HEAD => v.position \in C2[v.object]
      BY <1>1, <1>3 DEF Touches
    <2> QED  BY <1>1, <1>8, <2>1, <2>2 DEF PositionsFit
  <1> QED  BY <1>1, <1>2, <1>7, <1>9, <1>10, <1>11, <1>12 DEF ThreadFits, Active, PhaseFits

(* The last active event can be undone, ...                                *)
LEMMA UndoReady ==
    ASSUME NEW C, NEW D, NEW t, NEW r, NEW l \in Seq(LogEvents), NEW a \in 1 .. Len(l),
           ThreadFits(C, D, r, "undo", l, a, t)
    PROVE  /\ l[a] \in LogEvents
           /\ IF Adds(l[a]) THEN l[a].entry \in Holder(C, D, t, l[a]) ELSE Nowhere(C, D, l[a].entry)
           /\ l[a].op = "LIST_ERASE" /\ l[a].position # HEAD => l[a].position \in C[l[a].object]
           /\ ~InLocal(l[a]) => r[l[a].object] = "WRLOCKED"
  <1>1. StaysPut(C, D, l, a, t) /\ PositionsFit(C, l, a) /\ OwnFits(C, D, r, l, t)
    BY DEF ThreadFits, Active
  <1>2. a \in 1 .. a /\ \A x : Since(l, x, a, a)
    BY DEF Since
  <1>3. l[a] \in LogEvents
    OBVIOUS
  <1> QED  BY <1>1, <1>2, <1>3 DEF StaysPut, PositionsFit, OwnFits

(* ... and is undone.                                                      *)
LEMMA UndoneFits ==
    ASSUME NEW C, NEW D, NEW C2, NEW D2, NEW t \in Threads, NEW r,
           NEW l \in Seq(LogEvents), NEW a \in 1 .. Len(l), NEW v, v = l[a],
           ThreadFits(C, D, r, "undo", l, a, t),
           IF Adds(v) THEN Takes(C, D, C2, D2, t, v) ELSE Puts(C, D, C2, D2, t, v)
    PROVE  ThreadFits(C2, D2, r, "undo", l, a - 1, t)
  <1> DEFINE e == v.entry
  <1>1. /\ \A k \in 1 .. Len(l) : l[k] \in LogEvents /\ l[k].object \in Objects
        /\ v.object \in Objects
        /\ a \in Nat /\ a - 1 \in Nat
        /\ \A k \in 1 .. a - 1 : k \in 1 .. a /\ k \in 1 .. Len(l)
        /\ \A k \in 1 .. a : k # a => k \in 1 .. a - 1
    BY DEF LogEvents, Records
  <1>2. /\ OwnFits(C, D, r, l, t) /\ LogFits(l) /\ StaysPut(C, D, l, a, t)
        /\ FromLog(D, l, a, t) /\ PositionsFit(C, l, a)
    BY DEF ThreadFits, Active
  <1>3. Touches(C, D, C2, D2, t, e)
    BY DEF Puts, Takes
  <1>4. EventFits(l, a - 1, v)
    BY <1>2 DEF LogFits
  <1>5. \A x : \A k \in 1 .. a - 1 : Since(l, x, k, a) <=> Since(l, x, k, a - 1) /\ x # e
    <2> SUFFICES ASSUME NEW x, NEW k \in 1 .. a - 1
                 PROVE  Since(l, x, k, a) <=> Since(l, x, k, a - 1) /\ x # e
      OBVIOUS
    <2>1. k + 1 .. a = (k + 1 .. a - 1) \cup {a}
      BY <1>1
    <2> QED  BY <1>1, <2>1 DEF Since
  <1>6. OwnFits(C2, D2, r, l, t)
    <2>1. \A o \in Objects : e \in C2[o] => r[o] = "WRLOCKED"
      BY <1>2 DEF Puts, Takes, Nowhere, OwnFits
    <2>2. \A u \in Threads : \A o \in Objects : e \in D2[u][o] => u = t
      BY <1>2, <1>3 DEF Puts, Takes, Nowhere, Touches, OwnFits
    <2> QED  BY <1>2, <1>3, <2>1, <2>2 DEF OwnFits, Touches
  <1>7. StaysPut(C2, D2, l, a - 1, t)
    <2> SUFFICES ASSUME NEW k \in 1 .. a - 1, Since(l, l[k].entry, k, a - 1)
                 PROVE  IF Adds(l[k]) THEN l[k].entry \in Holder(C2, D2, t, l[k])
                                      ELSE Nowhere(C2, D2, l[k].entry)
      BY DEF StaysPut
    <2>1. CASE l[k].entry = e
      <3>1. /\ Adds(l[k]) <=> ~Adds(v)
            /\ ~Adds(v) => (InLocal(l[k]) <=> InLocal(v)) /\ l[k].object = v.object
        BY <1>4, <2>1 DEF EventFits
      <3> QED  BY <1>1, <2>1, <3>1 DEF Puts, Takes, Holder
    <2>2. CASE l[k].entry # e
      <3>1. Since(l, l[k].entry, k, a) /\ l[k].object \in Objects
        BY <1>1, <1>5, <2>2
      <3>2. IF Adds(l[k]) THEN l[k].entry \in Holder(C, D, t, l[k]) ELSE Nowhere(C, D, l[k].entry)
        BY <1>1, <1>2, <3>1 DEF StaysPut
      <3> QED  BY <1>3, <2>2, <3>1, <3>2 DEF Holder, Nowhere, Touches
    <2> QED  BY <2>1, <2>2
  <1>8. FromLog(D2, l, a - 1, t)
    <2> SUFFICES ASSUME NEW o \in Objects, NEW x \in D2[t][o]
                 PROVE  \E k \in 1 .. a - 1 : l[k].entry = x
      BY DEF FromLog
    <2>1. CASE x = e
      BY <1>4, <2>1 DEF Puts, Takes, Nowhere, EventFits
    <2>2. CASE x # e
      <3>1. x \in D[t][o]
        BY <1>3, <2>2 DEF Touches
      <3>2. PICK k \in 1 .. a : l[k].entry = x
        BY <1>2, <3>1 DEF FromLog
      <3> QED  BY <1>1, <2>2, <3>2
    <2> QED  BY <2>1, <2>2
  <1>9. PositionsFit(C2, l, a - 1)
    <2> SUFFICES ASSUME NEW k \in 1 .. a - 1, l[k].op = "LIST_ERASE", l[k].position # HEAD,
                        Since(l, l[k].position, k, a - 1)
                 PROVE  l[k].position \in C2[l[k].object]
      BY DEF PositionsFit
    <2>1. CASE l[k].position = e
      <3>1. ~Adds(v) /\ ~InLocal(v) /\ v.object = l[k].object
        BY <1>4, <2>1 DEF EventFits
      <3> QED  BY <1>1, <2>1, <3>1 DEF Puts
    <2>2. CASE l[k].position # e
      <3>1. Since(l, l[k].position, k, a) /\ l[k].object \in Objects
        BY <1>1, <1>5, <2>2
      <3>2. l[k].position \in C[l[k].object]
        BY <1>1, <1>2, <3>1 DEF PositionsFit
      <3> QED  BY <1>3, <2>2, <3>1, <3>2 DEF Touches
    <2> QED  BY <2>1, <2>2
  <1> QED  BY <1>2, <1>6, <1>7, <1>8, <1>9 DEF ThreadFits, Active, PhaseFits

(* In a commit the entry moves from the local ones to the shared ones.     *)
Delivers(C, D, C2, D2, t, o, e) ==
    /\ Touches(C, D, C2, D2, t, e)
    /\ e \in D[t][o]
    /\ \A p \in Objects : e \in C2[p] <=> p = o
    /\ \A p \in Objects : e \notin D2[t][p]

LEMMA DeliveredFits ==
    ASSUME NEW C, NEW D, NEW C2, NEW D2, NEW t \in Threads, NEW r, NEW l, NEW a,
           NEW o \in Objects, NEW e, Delivers(C, D, C2, D2, t, o, e), Apart(C, D),
           ThreadFits(C, D, r, "apply", l, a, t)
    PROVE  (\A b : ThreadFits(C2, D2, r, "apply", l, b, t)) /\ Apart(C2, D2) /\ r[o] = "WRLOCKED"
  <1>0. /\ \A p \in Objects : \A x : x # e => (x \in C2[p] <=> x \in C[p])
        /\ \A u \in Threads : \A p \in Objects : \A x : x # e \/ u # t => (x \in D2[u][p] <=> x \in D[u][p])
        /\ e \in D[t][o] /\ \A p \in Objects : e \in C2[p] <=> p = o
        /\ \A p \in Objects : e \notin D2[t][p]
    BY DEF Delivers, Touches
  <1>1. OwnFits(C, D, r, l, t) /\ LogFits(l) /\ PhaseFits(D, r, "apply", l, a, t)
    BY DEF ThreadFits
  <1>2. r[o] = "WRLOCKED"
    BY <1>0, <1>1 DEF PhaseFits
  <1>3. OwnFits(C2, D2, r, l, t)
    BY <1>0, <1>1, <1>2 DEF OwnFits
  <1>4. \A b : PhaseFits(D2, r, "apply", l, b, t)
    <2>1. \A p \in Objects : D2[t][p] # {} => D[t][p] # {}
      BY <1>0
    <2> QED  BY <1>1, <2>1 DEF PhaseFits
  <1>5. \A u \in Threads : u # t => \A p \in Objects : e \notin D2[u][p]
    BY <1>0 DEF Apart
  <1>6. Apart(C2, D2)
    BY <1>0, <1>5 DEF Apart
  <1> QED  BY <1>1, <1>2, <1>3, <1>4, <1>6 DEF ThreadFits

(* Locks are taken, ...                                                    *)
LEMMA MoreLocksFit ==
    ASSUME NEW C, NEW D, NEW t \in Threads, NEW r, NEW r2, NEW l, NEW p, NEW a, p # "out",
           \A o \in Objects : r[o] = "WRLOCKED" => r2[o] = "WRLOCKED",
           \A k \in 1 .. Len(l) : l[k].object \in Objects,
           ThreadFits(C, D, r, p, l, a, t)
    PROVE  ThreadFits(C, D, r2, p, l, a, t)
  <1>1. OwnFits(C, D, r2, l, t)
    BY DEF ThreadFits, OwnFits
  <1>2. PhaseFits(D, r2, p, l, a, t)
    BY DEF ThreadFits, PhaseFits
  <1> QED  BY <1>1, <1>2 DEF ThreadFits

(* ... and transactions begin, end, and change their course.               *)
LEMMA PhasesFit ==
    ASSUME NEW C, NEW D, NEW t \in Threads, NEW r, NEW l \in Seq(LogEvents), NEW p, NEW a,
           ThreadFits(C, D, r, p, l, a, t)
    PROVE  /\ p = "out" => ThreadFits(C, D, r, "run", l, a, t)
           /\ p = "run" => ThreadFits(C, D, r, "prepare", l, a, t)
           /\ p \in {"run", "prepare"} => ThreadFits(C, D, r, "undo", l, Len(l), t)
           /\ p = "prepare" /\ (\A o \in Objects : D[t][o] # {} => r[o] = "WRLOCKED") =>
                  ThreadFits(C, D, r, "apply", l, a, t)
  BY DEF ThreadFits, PhaseFits, Active

LEMMA EndFits ==
    ASSUME NEW C, NEW D, NEW t \in Threads, \A o \in Objects : D[t][o] = {}
    PROVE  ThreadFits(C, D, [o \in Objects |-> "UNLOCKED"], "out", <<>>, 0, t)
  BY DEF ThreadFits, PhaseFits, Active, OwnFits, LogFits, StaysPut, FromLog, PositionsFit

-----------------------------------------------------------------------------
(* Sequences without duplicates.                                           *)

SeqFits(s) == s \in Seq(Entries) /\ IsInjective(s)

LEMMA ElementsAre ==
    ASSUME NEW s \in Seq(Entries)
    PROVE  /\ \A x : x \in ToSet(s) <=> \E i \in 1 .. Len(s) : s[i] = x
           /\ ToSet(s) \subseteq Entries
  BY DEF ToSet

LEMMA Concatenation ==
    ASSUME NEW x \in Seq(Entries), NEW y \in Seq(Entries)
    PROVE  x \o y \in Seq(Entries) /\ Len(x \o y) = Len(x) + Len(y)
  OBVIOUS

LEMMA ElementInserted ==
    ASSUME NEW s, SeqFits(s), NEW e \in Entries, e \notin ToSet(s), NEW k \in 1 .. Len(s) + 1,
           NEW r \in Seq(Entries), Len(r) = Len(s) + 1,
           \A i \in 1 .. Len(s) + 1 : r[i] = IF i < k THEN s[i] ELSE IF i = k THEN e ELSE s[i - 1]
    PROVE  SeqFits(r) /\ ToSet(r) = ToSet(s) \cup {e}
  <1>0. /\ s \in Seq(Entries) /\ DOMAIN s = 1 .. Len(s) /\ DOMAIN r = 1 .. Len(s) + 1
        /\ Len(s) \in Nat /\ k \in Nat
        /\ \A i, j \in 1 .. Len(s) : s[i] = s[j] => i = j
        /\ \A i \in 1 .. Len(s) : s[i] # e
    BY DEF SeqFits, IsInjective, ToSet
  <1> DEFINE q(i) == IF i < k THEN i ELSE i - 1
  <1>1. \A i \in 1 .. Len(s) + 1 : i # k => q(i) \in 1 .. Len(s) /\ r[i] = s[q(i)]
    BY <1>0
  <1>2. r[k] = e
    BY <1>0
  <1>3. \A i, j \in 1 .. Len(s) + 1 : i # k /\ j # k /\ q(i) = q(j) => i = j
    BY <1>0
  <1>4. \A i \in 1 .. Len(s) : \E j \in 1 .. Len(s) + 1 : j # k /\ q(j) = i
    <2> SUFFICES ASSUME NEW i \in 1 .. Len(s)
                 PROVE  \E j \in 1 .. Len(s) + 1 : j # k /\ q(j) = i
      OBVIOUS
    <2>1. CASE i < k
      BY <1>0, <2>1
    <2>2. CASE ~(i < k)
      <3>1. i + 1 \in 1 .. Len(s) + 1 /\ i + 1 # k /\ q(i + 1) = i
        BY <1>0, <2>2
      <3> QED  BY <3>1
    <2> QED  BY <2>1, <2>2
  <1> HIDE DEF q
  <1>5. IsInjective(r)
    BY <1>0, <1>1, <1>2, <1>3 DEF IsInjective
  <1>6. ToSet(r) = ToSet(s) \cup {e}
    <2>1. ASSUME NEW x \in ToSet(r) PROVE x \in ToSet(s) \cup {e}
      <3>1. PICK i \in 1 .. Len(s) + 1 : r[i] = x
        BY <1>0, ElementsAre
      <3>2. CASE i = k
        BY <1>2, <3>1, <3>2
      <3>3. CASE i # k
        BY <1>0, <1>1, <3>1, <3>3, ElementsAre
      <3> QED  BY <3>2, <3>3
    <2>2. ASSUME NEW x \in ToSet(s) PROVE x \in ToSet(r)
      <3>1. PICK i \in 1 .. Len(s) : s[i] = x
        BY <1>0, ElementsAre
      <3>2. PICK j \in 1 .. Len(s) + 1 : j # k /\ q(j) = i
        BY <1>4
      <3>3. r[j] = x
        BY <1>1, <3>1, <3>2
      <3> QED  BY <1>0, <3>3, ElementsAre
    <2>3. e \in ToSet(r)
      BY <1>0, <1>2, ElementsAre
    <2> QED  BY <2>1, <2>2, <2>3
  <1> QED  BY <1>5, <1>6 DEF SeqFits

LEMMA ElementRemoved ==
    ASSUME NEW s, SeqFits(s), NEW k \in 1 .. Len(s),
           NEW r \in Seq(Entries), Len(r) = Len(s) - 1,
           \A i \in 1 .. Len(s) - 1 : r[i] = IF i < k THEN s[i] ELSE s[i + 1]
    PROVE  SeqFits(r) /\ ToSet(r) = ToSet(s) \ {s[k]}
  <1>0. /\ s \in Seq(Entries) /\ DOMAIN s = 1 .. Len(s) /\ DOMAIN r = 1 .. Len(s) - 1
        /\ Len(s) \in Nat /\ k \in Nat
        /\ \A i, j \in 1 .. Len(s) : s[i] = s[j] => i = j
    BY DEF SeqFits, IsInjective
  <1> DEFINE q(i) == IF i < k THEN i ELSE i + 1
  <1>1. \A i \in 1 .. Len(s) - 1 : q(i) \in 1 .. Len(s) /\ q(i) # k /\ r[i] = s[q(i)]
    BY <1>0
  <1>2. \A i, j \in 1 .. Len(s) - 1 : q(i) = q(j) => i = j
    BY <1>0
  <1>3. \A i \in 1 .. Len(s) : i # k => \E j \in 1 .. Len(s) - 1 : q(j) = i
    <2> SUFFICES ASSUME NEW i \in 1 .. Len(s), i # k
                 PROVE  \E j \in 1 .. Len(s) - 1 : q(j) = i
      OBVIOUS
    <2>1. CASE i < k
      <3>1. i \in 1 .. Len(s) - 1 /\ q(i) = i
        BY <1>0, <2>1
      <3> QED  BY <3>1
    <2>2. CASE ~(i < k)
      <3>1. i - 1 \in 1 .. Len(s) - 1 /\ q(i - 1) = i
        BY <1>0, <2>2
      <3> QED  BY <3>1
    <2> QED  BY <2>1, <2>2
  <1> HIDE DEF q
  <1>4. IsInjective(r)
    BY <1>0, <1>1, <1>2 DEF IsInjective
  <1>5. ToSet(r) = ToSet(s) \ {s[k]}
    <2>1. ASSUME NEW x \in ToSet(r) PROVE x \in ToSet(s) \ {s[k]}
      <3>1. PICK i \in 1 .. Len(s) - 1 : r[i] = x
        BY <1>0, ElementsAre
      <3>2. q(i) \in 1 .. Len(s) /\ q(i) # k /\ x = s[q(i)]
        BY <1>1, <3>1
      <3> QED  BY <1>0, <3>2, ElementsAre
    <2>2. ASSUME NEW x \in ToSet(s), x # s[k] PROVE x \in ToSet(r)
      <3>1. PICK i \in 1 .. Len(s) : s[i] = x
        BY <1>0, ElementsAre
      <3>2. PICK j \in 1 .. Len(s) - 1 : q(j) = i
        BY <1>3, <2>2, <3>1
      <3>3. r[j] = x
        BY <1>1, <3>1, <3>2
      <3> QED  BY <1>0, <3>2, <3>3, ElementsAre
    <2> QED  BY <2>1, <2>2
  <1> QED  BY <1>4, <1>5 DEF SeqFits

LEMMA PositionOf ==
    ASSUME NEW s, s \in Seq(Entries), NEW e \in ToSet(s)
    PROVE  Position(s, e) \in 1 .. Len(s) /\ s[Position(s, e)] = e
  <1>1. \E k \in 1 .. Len(s) : s[k] = e
    BY DEF ToSet
  <1> QED  BY <1>1 DEF Position

LEMMA EntryAdded ==
    ASSUME NEW s, SeqFits(s), NEW e \in Entries, e \notin ToSet(s)
    PROVE  /\ SeqFits(Append(s, e)) /\ ToSet(Append(s, e)) = ToSet(s) \cup {e}
           /\ SeqFits(<<e>> \o s) /\ ToSet(<<e>> \o s) = ToSet(s) \cup {e}
           /\ \A k \in 1 .. Len(s) :
                 SeqFits(InsertAt(s, k, e)) /\ ToSet(InsertAt(s, k, e)) = ToSet(s) \cup {e}
  <1>0. s \in Seq(Entries) /\ Len(s) \in Nat
    BY DEF SeqFits
  <1>1. SeqFits(Append(s, e)) /\ ToSet(Append(s, e)) = ToSet(s) \cup {e}
    <2> DEFINE r == Append(s, e)  k == Len(s) + 1
    <2>1. r \in Seq(Entries) /\ Len(r) = Len(s) + 1 /\ k \in 1 .. Len(s) + 1
      BY <1>0
    <2>2. \A i \in 1 .. Len(s) + 1 : r[i] = IF i < k THEN s[i] ELSE IF i = k THEN e ELSE s[i - 1]
      BY <1>0
    <2> HIDE DEF r, k
    <2> QED  BY <2>1, <2>2, ElementInserted DEF r
  <1>2. SeqFits(<<e>> \o s) /\ ToSet(<<e>> \o s) = ToSet(s) \cup {e}
    <2> DEFINE r == <<e>> \o s  k == 1
    <2>0. <<e>> \in Seq(Entries) /\ Len(<<e>>) = 1 /\ <<e>>[1] = e
      OBVIOUS
    <2>1. r \in Seq(Entries) /\ Len(r) = Len(s) + 1 /\ k \in 1 .. Len(s) + 1
      BY <1>0, <2>0
    <2>2. \A i \in 1 .. Len(s) + 1 : r[i] = IF i < k THEN s[i] ELSE IF i = k THEN e ELSE s[i - 1]
      BY <1>0, <2>0
    <2> HIDE DEF r, k
    <2> QED  BY <2>1, <2>2, ElementInserted DEF r
  <1>3. ASSUME NEW k \in 1 .. Len(s)
        PROVE  SeqFits(InsertAt(s, k, e)) /\ ToSet(InsertAt(s, k, e)) = ToSet(s) \cup {e}
    <2> DEFINE r == InsertAt(s, k, e)
               x == SubSeq(s, 1, k - 1)  y == SubSeq(s, k, Len(s))
    <2>0. <<e>> \in Seq(Entries) /\ Len(<<e>>) = 1 /\ <<e>>[1] = e
      OBVIOUS
    <2>1. /\ x \in Seq(Entries) /\ Len(x) = k - 1 /\ \A i \in 1 .. k - 1 : x[i] = s[i]
          /\ y \in Seq(Entries) /\ Len(y) = Len(s) - k + 1
          /\ \A i \in 1 .. Len(s) - k + 1 : y[i] = s[k + i - 1]
      BY <1>0
    <2>2. r = x \o <<e>> \o y
      BY DEF InsertAt
    <2> HIDE DEF r, x, y
    <2> DEFINE xe == x \o <<e>>
    <2>3. /\ xe \in Seq(Entries) /\ Len(xe) = k
          /\ \A i \in 1 .. k : xe[i] = IF i = k THEN e ELSE s[i]
      BY <1>0, <2>0, <2>1
    <2>4. r = xe \o y
      BY <2>2
    <2> HIDE DEF xe
    <2>5. r \in Seq(Entries) /\ Len(r) = Len(s) + 1 /\ k \in 1 .. Len(s) + 1
      <3>1. r \in Seq(Entries) /\ Len(r) = Len(xe) + Len(y)
        BY <2>1, <2>3, <2>4, Zenon, Concatenation
      <3>2. k \in Nat /\ k + (Len(s) - k + 1) = Len(s) + 1
        BY <1>0
      <3> QED  BY <1>0, <2>1, <2>3, <3>1, <3>2
    <2>6. \A i \in 1 .. Len(s) + 1 : r[i] = IF i < k THEN s[i] ELSE IF i = k THEN e ELSE s[i - 1]
      <3> TAKE i \in 1 .. Len(s) + 1
      <3>1. CASE i <= k
        BY <1>0, <2>1, <2>3, <2>4, <3>1
      <3>2. CASE ~(i <= k)
        <4>1. i - k \in 1 .. Len(s) - k + 1 /\ r[i] = y[i - k] /\ k + (i - k) - 1 = i - 1
          BY <1>0, <2>1, <2>3, <2>4, <3>2
        <4>2. y[i - k] = s[k + (i - k) - 1]
          BY <2>1, <4>1
        <4> QED  BY <1>0, <3>2, <4>1, <4>2
      <3> QED  BY <3>1, <3>2
    <2> QED  BY <2>5, <2>6, ElementInserted DEF r
  <1> QED  BY <1>1, <1>2, <1>3

LEMMA EntryRemoved ==
    ASSUME NEW s, SeqFits(s)
    PROVE  /\ s # <<>> =>
                 /\ SeqFits(Tail(s)) /\ Head(s) \in ToSet(s) /\ ToSet(Tail(s)) = ToSet(s) \ {Head(s)}
                 /\ SeqFits(Front(s)) /\ Last(s) \in ToSet(s) /\ ToSet(Front(s)) = ToSet(s) \ {Last(s)}
           /\ \A e \in ToSet(s) :
                 LET r == RemoveAt(s, Position(s, e))
                 IN  SeqFits(r) /\ ToSet(r) = ToSet(s) \ {e}
  <1>0. s \in Seq(Entries) /\ Len(s) \in Nat /\ DOMAIN s = 1 .. Len(s)
    BY DEF SeqFits
  <1>1. ASSUME s # <<>>
        PROVE  SeqFits(Tail(s)) /\ Head(s) \in ToSet(s) /\ ToSet(Tail(s)) = ToSet(s) \ {Head(s)}
    <2>1. Tail(s) \in Seq(Entries) /\ Len(Tail(s)) = Len(s) - 1 /\ 1 \in 1 .. Len(s) /\ Head(s) = s[1]
      BY <1>0, <1>1
    <2>2. \A i \in 1 .. Len(s) - 1 : Tail(s)[i] = IF i < 1 THEN s[i] ELSE s[i + 1]
      BY <1>0, <1>1
    <2> DEFINE r == Tail(s)  k == 1
    <2>3. s[k] \in ToSet(s)
      BY <1>0, <2>1, ElementsAre
    <2>4. r \in Seq(Entries) /\ Len(r) = Len(s) - 1 /\ k \in 1 .. Len(s)
          /\ \A i \in 1 .. Len(s) - 1 : r[i] = IF i < k THEN s[i] ELSE s[i + 1]
      BY <2>1, <2>2
    <2>5. Head(s) = s[k]
      BY <2>1
    <2> HIDE DEF r, k
    <2>6. SeqFits(r) /\ ToSet(r) = ToSet(s) \ {s[k]}
      BY <2>4, ElementRemoved
    <2> QED  BY <2>3, <2>5, <2>6 DEF r
  <1>2. ASSUME s # <<>>
        PROVE  SeqFits(Front(s)) /\ Last(s) \in ToSet(s) /\ ToSet(Front(s)) = ToSet(s) \ {Last(s)}
    <2> DEFINE k == Len(s)  r == Front(s)
    <2>1. r \in Seq(Entries) /\ Len(r) = Len(s) - 1 /\ k \in 1 .. Len(s) /\ Last(s) = s[k]
      BY <1>0, <1>2 DEF Front, Last
    <2>2. \A i \in 1 .. Len(s) - 1 : r[i] = IF i < k THEN s[i] ELSE s[i + 1]
      BY <1>0, <1>2 DEF Front
    <2>3. s[k] \in ToSet(s)
      BY <1>0, <2>1 DEF ToSet
    <2> HIDE DEF r, k
    <2>4. SeqFits(r) /\ ToSet(r) = ToSet(s) \ {s[k]}
      BY <2>1, <2>2, ElementRemoved
    <2> QED  BY <2>1, <2>3, <2>4 DEF r
  <1>3. ASSUME NEW e \in ToSet(s)
        PROVE  LET r == RemoveAt(s, Position(s, e))
               IN  SeqFits(r) /\ ToSet(r) = ToSet(s) \ {e}
    <2>0. PICK k : k = Position(s, e)
      OBVIOUS
    <2>1. k \in 1 .. Len(s) /\ s[k] = e
      BY <1>0, <2>0, PositionOf
    <2> DEFINE r == RemoveAt(s, k)
               x == SubSeq(s, 1, k - 1)  y == SubSeq(s, k + 1, Len(s))
    <2>2. /\ x \in Seq(Entries) /\ Len(x) = k - 1 /\ \A i \in 1 .. k - 1 : x[i] = s[i]
          /\ y \in Seq(Entries) /\ Len(y) = Len(s) - k
          /\ \A i \in 1 .. Len(s) - k : y[i] = s[k + i]
      <3>1. k + 1 \in 1 .. Len(s) + 1 /\ Len(s) - (k + 1) + 1 = Len(s) - k
            /\ \A i \in 1 .. Len(s) - k : k + 1 + i - 1 = k + i
        BY <1>0, <2>1
      <3>2. /\ x \in Seq(Entries) /\ Len(x) = k - 1 /\ \A i \in 1 .. k - 1 : x[i] = s[i]
        BY <1>0, <2>1
      <3>3. y \in Seq(Entries) /\ Len(y) = Len(s) - (k + 1) + 1
            /\ \A i \in 1 .. Len(s) - (k + 1) + 1 : y[i] = s[k + 1 + i - 1]
        BY <1>0, <3>1
      <3> HIDE DEF x, y
      <3>4. ASSUME NEW i \in 1 .. Len(s) - k PROVE y[i] = s[k + i]
        <4>1. k + 1 + i - 1 = k + i
          BY <1>0, <2>1
        <4> QED  BY <3>1, <3>3, <4>1
      <3> QED  BY <3>1, <3>2, <3>3, <3>4
    <2>3. r = x \o y
      BY DEF RemoveAt
    <2> HIDE DEF r, x, y
    <2>4. r \in Seq(Entries) /\ Len(r) = Len(s) - 1
      <3>1. r \in Seq(Entries) /\ Len(r) = Len(x) + Len(y)
        BY <2>2, <2>3, Zenon, Concatenation
      <3>2. k - 1 + (Len(s) - k) = Len(s) - 1
        BY <1>0, <2>1
      <3> QED  BY <2>2, <3>1, <3>2
    <2>5. \A i \in 1 .. Len(s) - 1 : r[i] = IF i < k THEN s[i] ELSE s[i + 1]
      <3> TAKE i \in 1 .. Len(s) - 1
      <3>1. CASE i < k
        BY <1>0, <2>1, <2>2, <2>3, <3>1
      <3>2. CASE ~(i < k)
        <4>1. i - (k - 1) \in 1 .. Len(s) - k /\ r[i] = y[i - (k - 1)] /\ k + (i - (k - 1)) = i + 1
          BY <1>0, <2>1, <2>2, <2>3, <3>2
        <4>2. y[i - (k - 1)] = s[k + (i - (k - 1))]
          BY <2>2, <4>1
        <4> QED  BY <3>2, <4>1, <4>2
      <3> QED  BY <3>1, <3>2
    <2>6. SeqFits(r) /\ ToSet(r) = ToSet(s) \ {s[k]}
      BY <2>1, <2>4, <2>5, ElementRemoved
    <2> QED  BY <2>0, <2>1, <2>6 DEF r
  <1> QED  BY <1>1, <1>2, <1>3

(* The first and the last entry are erased by their place.                 *)
LEMMA EndsErased ==
    ASSUME NEW s, SeqFits(s), s # <<>>
    PROVE  /\ RemoveAt(s, Position(s, Head(s))) = Tail(s)
           /\ RemoveAt(s, Position(s, Last(s))) = Front(s)
  <1>0. /\ s \in Seq(Entries) /\ Len(s) \in Nat /\ DOMAIN s = 1 .. Len(s) /\ Len(s) # 0
        /\ \A i, j \in 1 .. Len(s) : s[i] = s[j] => i = j
    BY DEF SeqFits, IsInjective
  <1>1. Head(s) \in ToSet(s) /\ Last(s) \in ToSet(s) /\ Head(s) = s[1] /\ Last(s) = s[Len(s)]
    BY <1>0, EntryRemoved DEF Last
  <1>2. Position(s, Head(s)) = 1 /\ Position(s, Last(s)) = Len(s)
    <2>1. 1 \in 1 .. Len(s) /\ Len(s) \in 1 .. Len(s)
      BY <1>0
    <2> QED  BY <1>0, <1>1, <2>1, PositionOf
  <1>3. RemoveAt(s, 1) = Tail(s)
    <2> DEFINE x == SubSeq(s, 1, 0)  y == SubSeq(s, 2, Len(s))
    <2>1. RemoveAt(s, 1) = x \o y
      BY <1>0 DEF RemoveAt
    <2>2. x = <<>>
      BY <1>0
    <2>3. y = Tail(s)
      BY <1>0
    <2>4. Tail(s) \in Seq(Entries)
      BY <1>0
    <2> HIDE DEF x, y
    <2> QED  BY <2>1, <2>2, <2>3, <2>4
  <1>4. RemoveAt(s, Len(s)) = Front(s)
    <2> DEFINE x == SubSeq(s, 1, Len(s) - 1)  y == SubSeq(s, Len(s) + 1, Len(s))
    <2>1. RemoveAt(s, Len(s)) = x \o y
      BY DEF RemoveAt
    <2>2. y = <<>>
      BY <1>0
    <2>3. x \in Seq(Entries) /\ x = Front(s)
      BY <1>0 DEF Front
    <2> HIDE DEF x, y
    <2> QED  BY <2>1, <2>2, <2>3
  <1> QED  BY <1>2, <1>3, <1>4

-----------------------------------------------------------------------------
(* Local entries are in the order in which they have been pushed.          *)

Pushes(v, o, e) == v.op \in Pushing /\ v.object = o /\ v.entry = e

OrderFits(s, l, a, o) ==
    \E f \in [1 .. Len(s) -> a + 1 .. Len(l)] :
        /\ \A i \in 1 .. Len(s) : Pushes(l[f[i]], o, s[i])
        /\ \A i, j \in 1 .. Len(s) : i < j => f[i] < f[j]

LEMMA NoOrder ==
    ASSUME NEW l, NEW a, NEW o
    PROVE  OrderFits(<<>>, l, a, o)
  <1>1. Len(<<>>) = 0 /\ 1 .. 0 = {}
    OBVIOUS
  <1>2. [i \in {} |-> 0] \in [{} -> a + 1 .. Len(l)]
    OBVIOUS
  <1> QED  BY <1>1, <1>2 DEF OrderFits

LEMMA OrderLogged ==
    ASSUME NEW s \in Seq(Entries), NEW o, NEW v \in LogEvents,
           NEW l \in Seq(LogEvents), NEW l2 \in Seq(LogEvents), l2 = Append(l, v),
           OrderFits(s, l, 0, o)
    PROVE  /\ OrderFits(s, l2, 0, o)
           /\ Pushes(v, o, v.entry) => OrderFits(Append(s, v.entry), l2, 0, o)
  <1>0. /\ Len(l) \in Nat /\ Len(l2) = Len(l) + 1 /\ l2[Len(l) + 1] = v /\ Len(s) \in Nat
        /\ \A k \in 1 .. Len(l) : l2[k] = l[k]
    OBVIOUS
  <1>1. PICK f \in [1 .. Len(s) -> 1 .. Len(l)] :
            /\ \A i \in 1 .. Len(s) : Pushes(l[f[i]], o, s[i])
            /\ \A i, j \in 1 .. Len(s) : i < j => f[i] < f[j]
    BY DEF OrderFits
  <1>2. OrderFits(s, l2, 0, o)
    <2>1. f \in [1 .. Len(s) -> 0 + 1 .. Len(l2)]
      BY <1>0, <1>1
    <2>2. \A i \in 1 .. Len(s) : Pushes(l2[f[i]], o, s[i])
      BY <1>0, <1>1
    <2> QED  BY <1>1, <2>1, <2>2 DEF OrderFits
  <1>3. ASSUME Pushes(v, o, v.entry) PROVE OrderFits(Append(s, v.entry), l2, 0, o)
    <2> DEFINE s2 == Append(s, v.entry)
               g == [i \in 1 .. Len(s) + 1 |-> IF i = Len(s) + 1 THEN Len(l) + 1 ELSE f[i]]
    <2>0. v.entry \in Entries
      BY DEF LogEvents, Records
    <2>1. Len(s2) = Len(s) + 1 /\ s2[Len(s) + 1] = v.entry /\ \A i \in 1 .. Len(s) : s2[i] = s[i]
      BY <1>0, <2>0
    <2>2. g \in [1 .. Len(s2) -> 0 + 1 .. Len(l2)]
      BY <1>0, <1>1, <2>1
    <2>3. g[Len(s) + 1] = Len(l) + 1 /\ \A i \in 1 .. Len(s) : g[i] = f[i]
      BY <1>0
    <2> HIDE DEF g, s2
    <2>4. \A i \in 1 .. Len(s2) : i \in 1 .. Len(s) \/ i = Len(s) + 1
      BY <1>0, <2>1
    <2>5. \A i \in 1 .. Len(s2) : Pushes(l2[g[i]], o, s2[i])
      <3>1. ASSUME NEW i \in 1 .. Len(s) PROVE Pushes(l2[g[i]], o, s2[i])
        BY <1>0, <1>1, <2>1, <2>3
      <3>2. Pushes(l2[g[Len(s) + 1]], o, s2[Len(s) + 1])
        BY <1>0, <1>3, <2>1, <2>3
      <3> QED  BY <2>4, <3>1, <3>2
    <2>6. \A i, j \in 1 .. Len(s2) : i < j => g[i] < g[j]
      <3> SUFFICES ASSUME NEW i \in 1 .. Len(s2), NEW j \in 1 .. Len(s2), i < j
                   PROVE  g[i] < g[j]
        OBVIOUS
      <3>1. i \in 1 .. Len(s)
        BY <1>0, <2>1
      <3>2. f[i] \in 1 .. Len(l)
        BY <1>1, <3>1
      <3> QED  BY <1>0, <1>1, <2>3, <2>4, <3>1, <3>2
    <2> QED  BY <2>2, <2>5, <2>6 DEF OrderFits, s2
  <1> QED  BY <1>2, <1>3

LEMMA OrderRest ==
    ASSUME NEW s \in Seq(Entries), NEW o, NEW l \in Seq(LogEvents), NEW a \in Nat,
           OrderFits(s, l, a, o), s # <<>>
    PROVE  OrderFits(Tail(s), l, a, o) /\ OrderFits(Front(s), l, a, o)
  <1>0. Len(s) \in Nat /\ Len(s) # 0 /\ Len(l) \in Nat
    OBVIOUS
  <1>1. PICK f \in [1 .. Len(s) -> a + 1 .. Len(l)] :
            /\ \A i \in 1 .. Len(s) : Pushes(l[f[i]], o, s[i])
            /\ \A i, j \in 1 .. Len(s) : i < j => f[i] < f[j]
    BY DEF OrderFits
  <1>2. OrderFits(Tail(s), l, a, o)
    <2> DEFINE g == [i \in 1 .. Len(s) - 1 |-> f[i + 1]]
    <2>1. Len(Tail(s)) = Len(s) - 1 /\ \A i \in 1 .. Len(s) - 1 : Tail(s)[i] = s[i + 1]
      BY <1>0
    <2>2. \A i \in 1 .. Len(s) - 1 : i + 1 \in 1 .. Len(s) /\ g[i] = f[i + 1]
      BY <1>0
    <2>3. g \in [1 .. Len(Tail(s)) -> a + 1 .. Len(l)]
      BY <1>1, <2>1, <2>2
    <2> HIDE DEF g
    <2>4. \A i \in 1 .. Len(Tail(s)) : Pushes(l[g[i]], o, Tail(s)[i])
      BY <1>1, <2>1, <2>2
    <2>5. \A i, j \in 1 .. Len(Tail(s)) : i < j => g[i] < g[j]
      <3> SUFFICES ASSUME NEW i \in 1 .. Len(s) - 1, NEW j \in 1 .. Len(s) - 1, i < j
                   PROVE  g[i] < g[j]
        BY <2>1
      <3>1. i + 1 < j + 1
        BY <1>0
      <3> QED  BY <1>1, <2>2, <3>1
    <2> QED  BY <2>3, <2>4, <2>5 DEF OrderFits
  <1>3. OrderFits(Front(s), l, a, o)
    <2> DEFINE g == [i \in 1 .. Len(s) - 1 |-> f[i]]
    <2>0. Len(s) - 1 \in Nat /\ Front(s) = SubSeq(s, 1, Len(s) - 1)
      BY <1>0 DEF Front
    <2>1. Len(Front(s)) = Len(s) - 1 /\ \A i \in 1 .. Len(s) - 1 : Front(s)[i] = s[i]
      <3>1. PICK n \in Nat : n = Len(s) - 1 /\ n <= Len(s)
        BY <1>0, <2>0
      <3>2. Len(SubSeq(s, 1, n)) = n /\ \A i \in 1 .. n : SubSeq(s, 1, n)[i] = s[i]
        BY <1>0, <3>1
      <3> QED  BY <2>0, <3>1, <3>2
    <2>2. \A i \in 1 .. Len(s) - 1 : i \in 1 .. Len(s) /\ g[i] = f[i]
      BY <1>0
    <2>3. g \in [1 .. Len(Front(s)) -> a + 1 .. Len(l)]
      BY <1>1, <2>1, <2>2
    <2> HIDE DEF g
    <2>4. \A i \in 1 .. Len(Front(s)) : Pushes(l[g[i]], o, Front(s)[i])
      BY <1>1, <2>1, <2>2
    <2>5. \A i, j \in 1 .. Len(Front(s)) : i < j => g[i] < g[j]
      BY <1>1, <2>1, <2>2
    <2> QED  BY <2>3, <2>4, <2>5 DEF OrderFits
  <1> QED  BY <1>2, <1>3

(* The next event concerns the first local entry or none.                  *)
LEMMA OrderPassed ==
    ASSUME NEW s, SeqFits(s), NEW o, NEW l \in Seq(LogEvents), NEW a \in Nat, a < Len(l),
           OrderFits(s, l, a, o)
    PROVE  /\ ~(s # <<>> /\ Pushes(l[a + 1], o, Head(s))) => OrderFits(s, l, a + 1, o)
           /\ s # <<>> => OrderFits(Tail(s), l, a + 1, o)
  <1>0. Len(s) \in Nat /\ s \in Seq(Entries) /\ Len(l) \in Nat
    BY DEF SeqFits
  <1>1. PICK f \in [1 .. Len(s) -> a + 1 .. Len(l)] :
            /\ \A i \in 1 .. Len(s) : Pushes(l[f[i]], o, s[i])
            /\ \A i, j \in 1 .. Len(s) : i < j => f[i] < f[j]
    BY DEF OrderFits
  <1>2. \A i \in 1 .. Len(s) : f[i] \in a + 1 .. Len(l)
    BY <1>1
  <1>3. ASSUME ~(s # <<>> /\ Pushes(l[a + 1], o, Head(s))) PROVE OrderFits(s, l, a + 1, o)
    <2>1. ASSUME NEW i \in 1 .. Len(s) PROVE f[i] \in a + 1 + 1 .. Len(l)
      <3>1. s # <<>> /\ Head(s) = s[1] /\ 1 \in 1 .. Len(s)
        BY <1>0
      <3>2. f[1] # a + 1
        BY <1>1, <1>3, <3>1
      <3>3. f[1] \in a + 1 .. Len(l) /\ f[i] \in a + 1 .. Len(l)
        BY <1>2, <3>1
      <3>4. i = 1 \/ f[1] < f[i]
        BY <1>0, <1>1, <3>1
      <3> QED  BY <1>0, <3>2, <3>3, <3>4
    <2>2. f \in [1 .. Len(s) -> a + 1 + 1 .. Len(l)]
      BY <2>1
    <2> QED  BY <1>1, <2>2 DEF OrderFits
  <1>4. ASSUME s # <<>> PROVE OrderFits(Tail(s), l, a + 1, o)
    <2> DEFINE g == [i \in 1 .. Len(s) - 1 |-> f[i + 1]]
    <2>1. Len(Tail(s)) = Len(s) - 1 /\ \A i \in 1 .. Len(s) - 1 : Tail(s)[i] = s[i + 1]
      BY <1>0, <1>4
    <2>2. \A i \in 1 .. Len(s) - 1 : i + 1 \in 1 .. Len(s) /\ g[i] = f[i + 1]
      BY <1>0
    <2>3. ASSUME NEW i \in 1 .. Len(s) - 1 PROVE g[i] \in a + 1 + 1 .. Len(l)
      <3>1. 1 \in 1 .. Len(s) /\ 1 < i + 1
        BY <1>0
      <3>2. f[1] < f[i + 1] /\ f[1] \in a + 1 .. Len(l) /\ f[i + 1] \in a + 1 .. Len(l)
        BY <1>1, <2>2, <3>1
      <3> QED  BY <1>0, <2>2, <3>2
    <2>4. g \in [1 .. Len(Tail(s)) -> a + 1 + 1 .. Len(l)]
      BY <2>1, <2>3
    <2> HIDE DEF g
    <2>5. \A i \in 1 .. Len(Tail(s)) : Pushes(l[g[i]], o, Tail(s)[i])
      BY <1>1, <2>1, <2>2
    <2>6. \A i, j \in 1 .. Len(Tail(s)) : i < j => g[i] < g[j]
      <3> SUFFICES ASSUME NEW i \in 1 .. Len(s) - 1, NEW j \in 1 .. Len(s) - 1, i < j
                   PROVE  g[i] < g[j]
        BY <2>1
      <3>1. i + 1 < j + 1
        BY <1>0
      <3> QED  BY <1>1, <2>2, <3>1
    <2> QED  BY <2>4, <2>5, <2>6 DEF OrderFits
  <1> QED  BY <1>3, <1>4

(* Nothing is left when all events have been carried out.                  *)
LEMMA OrderEnds ==
    ASSUME NEW s \in Seq(Entries), NEW o, NEW l \in Seq(LogEvents), OrderFits(s, l, Len(l), o)
    PROVE  s = <<>>
  <1>1. PICK f \in [1 .. Len(s) -> Len(l) + 1 .. Len(l)] : TRUE
    BY DEF OrderFits
  <1>2. Len(l) \in Nat /\ Len(s) \in Nat
    OBVIOUS
  <1>3. Len(s) = 0
    <2> SUFFICES ASSUME Len(s) # 0 PROVE FALSE
      OBVIOUS
    <2>1. f[1] \in Len(l) + 1 .. Len(l)
      BY <1>1, <1>2
    <2> QED  BY <1>2, <2>1
  <1> QED  BY <1>3

-----------------------------------------------------------------------------
(* What events do to the values of their objects.                          *)

ValueFits(x, o) == IF Kind[o] = "multiset" THEN TreeFits(x) ELSE SeqFits(x)

(* v may be logged where x is the shared value and y holds the local ones. *)
Ready(x, y, v) ==
    /\ Adds(v) => v.entry \notin Contents(x, v.object) /\ v.entry \notin ToSet(y)
    /\ v.op = "LIST_INSERT" => v.position \in ToSet(x) \cup {HEAD}
    /\ v.op \in {"LIST_ERASE", "MULTISET_ERASE"} => v.entry \in Contents(x, v.object)
    /\ v.op = "QUEUE_POP" => IF v.local THEN y # <<>> /\ v.entry = Head(y)
                                        ELSE x # <<>> /\ v.entry = Head(x)
    /\ v.op = "STACK_POP" => IF v.local THEN y # <<>> /\ v.entry = Last(y)
                                        ELSE x # <<>> /\ v.entry = Last(x)

Value(x, y) == [state |-> x, local |-> y]

(* x2 and y2 are x and y with v's entry added to its place or taken away.  *)
Plus(x, y, x2, y2, v) ==
    /\ ValueFits(x2, v.object) /\ SeqFits(y2)
    /\ IF InLocal(v) THEN x2 = x /\ ToSet(y2) = ToSet(y) \cup {v.entry}
       ELSE y2 = y /\ Contents(x2, v.object) = Contents(x, v.object) \cup {v.entry}

Minus(x, y, x2, y2, v) ==
    /\ ValueFits(x2, v.object) /\ SeqFits(y2)
    /\ IF InLocal(v) THEN x2 = x /\ ToSet(y2) = ToSet(y) \ {v.entry}
       ELSE y2 = y /\ Contents(x2, v.object) = Contents(x, v.object) \ {v.entry}

LEMMA EventIs ==
    ASSUME NEW v \in LogEvents
    PROVE  /\ v.object \in Objects /\ v.entry \in Entries /\ v.entry # HEAD /\ v.local \in BOOLEAN
           /\ v.op \in Adding \cup Removing
           /\ v.op \in {"LIST_INSERT", "LIST_ERASE"} => Kind[v.object] = "list" /\ ~InLocal(v)
           /\ v.op \in {"MULTISET_INSERT", "MULTISET_ERASE"} => Kind[v.object] = "multiset" /\ ~InLocal(v)
           /\ v.op = "QUEUE_PUSH" => Kind[v.object] = "queue" /\ InLocal(v)
           /\ v.op = "STACK_PUSH" => Kind[v.object] = "stack" /\ InLocal(v)
           /\ v.op = "QUEUE_POP" => Kind[v.object] = "queue" /\ (InLocal(v) <=> v.local)
           /\ v.op = "STACK_POP" => Kind[v.object] = "stack" /\ (InLocal(v) <=> v.local)
           /\ Adds(v) <=> v.op \in {"LIST_INSERT", "MULTISET_INSERT", "QUEUE_PUSH", "STACK_PUSH"}
  BY HeadAssumption DEF LogEvents, Records, Fitting, InLocal, Adds, Adding, Removing, Pushing, Popping

LEMMA ListPlaces ==
    ASSUME NEW s, SeqFits(s), NEW e \in Entries, e \notin ToSet(s), NEW next \in ToSet(s) \cup {HEAD}
    PROVE  /\ SeqFits(txlist_entry_insert(s, e, next))
           /\ ToSet(txlist_entry_insert(s, e, next)) = ToSet(s) \cup {e}
  <1>1. CASE next = HEAD
    BY <1>1, EntryAdded DEF txlist_entry_insert
  <1>2. CASE next # HEAD
    <2>1. PICK k : k = Position(s, next)
      OBVIOUS
    <2>2. k \in 1 .. Len(s)
      BY <1>2, <2>1, PositionOf DEF SeqFits
    <2> QED  BY <1>2, <2>1, <2>2, EntryAdded DEF txlist_entry_insert
  <1> QED  BY <1>1, <1>2

LEMMA EventExecuted ==
    ASSUME Risks = {}, NEW v \in LogEvents, NEW x, NEW y, ValueFits(x, v.object), SeqFits(y), Ready(x, y, v)
    PROVE  \E x2, y2 :
              /\ txlib_event_exec(Value(x, y), v) = Value(x2, y2)
              /\ IF Adds(v) THEN Plus(x, y, x2, y2, v) ELSE Minus(x, y, x2, y2, v)
              /\ InLocal(v) /\ Adds(v) => y2 = Append(y, v.entry)
              /\ InLocal(v) /\ ~Adds(v) => y # <<>> /\ y2 \in {Tail(y), Front(y)}
  <1> DEFINE e == v.entry  o == v.object
  <1>1. CASE v.op = "LIST_INSERT"
    <2> DEFINE x2 == txlist_entry_insert(x, e, v.position)
    <2>1. SeqFits(x) /\ Kind[o] = "list" /\ e \notin ToSet(x) /\ v.position \in ToSet(x) \cup {HEAD}
      BY <1>1, EventIs DEF Ready, ValueFits, Contents
    <2>2. SeqFits(x2) /\ ToSet(x2) = ToSet(x) \cup {e}
      BY <2>1, EventIs, ListPlaces
    <2>3. txlib_event_exec(Value(x, y), v) = Value(x2, y)
      BY <1>1 DEF txlib_event_exec, exec_list_insert, Value
    <2> HIDE DEF x2
    <2> QED  BY <1>1, <2>1, <2>2, <2>3, EventIs DEF Plus, ValueFits, Contents
  <1>2. CASE v.op = "LIST_ERASE"
    <2> DEFINE x2 == txlist_entry_erase(x, e)
    <2>1. SeqFits(x) /\ Kind[o] = "list" /\ e \in ToSet(x)
      BY <1>2, EventIs DEF Ready, ValueFits, Contents
    <2>2. SeqFits(x2) /\ ToSet(x2) = ToSet(x) \ {e}
      BY <2>1, EntryRemoved DEF txlist_entry_erase
    <2>3. txlib_event_exec(Value(x, y), v) = Value(x2, y)
      BY <1>2 DEF txlib_event_exec, exec_list_erase, Value
    <2> HIDE DEF x2
    <2> QED  BY <1>2, <2>1, <2>2, <2>3, EventIs DEF Minus, ValueFits, Contents
  <1>3. CASE v.op = "MULTISET_INSERT"
    <2> DEFINE x2 == txmultiset_state_insert(x, e)
    <2>1. TreeFits(x) /\ Kind[o] = "multiset" /\ e \notin EntriesOf(x)
      BY <1>3, EventIs DEF Ready, ValueFits, Contents
    <2>2. TreeFits(x2) /\ EntriesOf(x2) = EntriesOf(x) \cup {e}
      BY <2>1, EventIs, TreeInserted
    <2>3. txlib_event_exec(Value(x, y), v) = Value(x2, y)
      BY <1>3 DEF txlib_event_exec, exec_multiset_insert, Value
    <2> HIDE DEF x2
    <2> QED  BY <1>3, <2>1, <2>2, <2>3, EventIs DEF Plus, ValueFits, Contents
  <1>4. CASE v.op = "MULTISET_ERASE"
    <2> DEFINE x2 == txmultiset_state_erase(x, e)
    <2>1. TreeFits(x) /\ Kind[o] = "multiset" /\ e \in EntriesOf(x)
      BY <1>4, EventIs DEF Ready, ValueFits, Contents
    <2>2. TreeFits(x2) /\ EntriesOf(x2) = EntriesOf(x) \ {e}
      BY <2>1, TreeErased
    <2>3. txlib_event_exec(Value(x, y), v) = Value(x2, y)
      BY <1>4 DEF txlib_event_exec, exec_multiset_erase, Value
    <2> HIDE DEF x2
    <2> QED  BY <1>4, <2>1, <2>2, <2>3, EventIs DEF Minus, ValueFits, Contents
  <1>5. CASE v.op \in Pushing
    <2> DEFINE y2 == Append(y, e)
    <2>1. InLocal(v) /\ Adds(v) /\ e \notin ToSet(y) /\ e \in Entries
      BY <1>5, EventIs DEF Ready, Pushing
    <2>2. SeqFits(y2) /\ ToSet(y2) = ToSet(y) \cup {e}
      BY <2>1, EntryAdded
    <2>3. txlib_event_exec(Value(x, y), v) = Value(x, y2)
      BY <1>5 DEF txlib_event_exec, exec_queue_push, exec_stack_push, txqueue_state_push_back,
                  txstack_state_push, Value, Pushing
    <2> HIDE DEF y2
    <2> QED  BY <2>1, <2>2, <2>3 DEF Plus, y2
  <1>6. CASE v.op = "QUEUE_POP" /\ v.local
    <2> DEFINE y2 == Tail(y)
    <2>1. InLocal(v) /\ ~Adds(v) /\ y # <<>> /\ e = Head(y)
      BY <1>6, EventIs DEF Ready
    <2>2. SeqFits(y2) /\ ToSet(y2) = ToSet(y) \ {e}
      BY <2>1, EntryRemoved
    <2>3. txqueue_entry_erase(y, e) = y2
      BY <2>1, EndsErased DEF txqueue_entry_erase
    <2>4. txlib_event_exec(Value(x, y), v) = Value(x, y2)
      BY <1>6, <2>3 DEF txlib_event_exec, exec_queue_pop, Value
    <2> HIDE DEF y2
    <2> QED  BY <2>1, <2>2, <2>4 DEF Minus, y2
  <1>7. CASE v.op = "STACK_POP" /\ v.local
    <2> DEFINE y2 == Front(y)
    <2>1. InLocal(v) /\ ~Adds(v) /\ y # <<>> /\ e = Last(y)
      BY <1>7, EventIs DEF Ready
    <2>2. SeqFits(y2) /\ ToSet(y2) = ToSet(y) \ {e}
      BY <2>1, EntryRemoved
    <2>3. txstack_entry_erase(y, e) = y2
      BY <2>1, EndsErased DEF txstack_entry_erase
    <2>4. txlib_event_exec(Value(x, y), v) = Value(x, y2)
      BY <1>7, <2>3 DEF txlib_event_exec, exec_stack_pop, Value
    <2> HIDE DEF y2
    <2> QED  BY <2>1, <2>2, <2>4 DEF Minus, y2
  <1>8. CASE v.op = "QUEUE_POP" /\ ~v.local
    <2> DEFINE x2 == Tail(x)
    <2>1. ~InLocal(v) /\ ~Adds(v) /\ x # <<>> /\ e = Head(x) /\ SeqFits(x) /\ Kind[o] = "queue"
      BY <1>8, EventIs DEF Ready, ValueFits
    <2>2. SeqFits(x2) /\ ToSet(x2) = ToSet(x) \ {e}
      BY <2>1, EntryRemoved
    <2>3. txlib_event_exec(Value(x, y), v) = Value(x2, y)
      BY <1>8 DEF txlib_event_exec, exec_queue_pop, txqueue_state_pop_front, Value
    <2> HIDE DEF x2
    <2> QED  BY <2>1, <2>2, <2>3 DEF Minus, ValueFits, Contents
  <1>9. CASE v.op = "STACK_POP" /\ ~v.local
    <2> DEFINE x2 == Front(x)
    <2>1. ~InLocal(v) /\ ~Adds(v) /\ x # <<>> /\ e = Last(x) /\ SeqFits(x) /\ Kind[o] = "stack"
      BY <1>9, EventIs DEF Ready, ValueFits
    <2>2. SeqFits(x2) /\ ToSet(x2) = ToSet(x) \ {e}
      BY <2>1, EntryRemoved
    <2>3. txlib_event_exec(Value(x, y), v) = Value(x2, y)
      BY <1>9 DEF txlib_event_exec, exec_stack_pop, txstack_state_pop, Value
    <2> HIDE DEF x2
    <2> QED  BY <2>1, <2>2, <2>3 DEF Minus, ValueFits, Contents
  <1>10. v.op \in Adding \cup Removing
    BY EventIs
  <1> QED  BY <1>1, <1>2, <1>3, <1>4, <1>5, <1>6, <1>7, <1>8, <1>9, <1>10
             DEF Adding, Removing, Pushing, Popping

LEMMA EventUndone ==
    ASSUME Risks = {}, NEW v \in LogEvents, NEW x, NEW y, ValueFits(x, v.object), SeqFits(y),
           IF Adds(v) THEN v.entry \in (IF InLocal(v) THEN ToSet(y) ELSE Contents(x, v.object))
                      ELSE v.entry \notin ToSet(y) /\ v.entry \notin Contents(x, v.object),
           v.op = "LIST_ERASE" /\ v.position # HEAD => v.position \in Contents(x, v.object)
    PROVE  \E x2, y2 :
              /\ txlib_event_undo(Value(x, y), v) = Value(x2, y2)
              /\ IF Adds(v) THEN Minus(x, y, x2, y2, v) ELSE Plus(x, y, x2, y2, v)
  <1> DEFINE e == v.entry  o == v.object
  <1>1. CASE v.op = "LIST_INSERT"
    <2> DEFINE x2 == txlist_entry_erase(x, e)
    <2>1. SeqFits(x) /\ Kind[o] = "list" /\ e \in ToSet(x)
      BY <1>1, EventIs DEF ValueFits, Contents
    <2>2. SeqFits(x2) /\ ToSet(x2) = ToSet(x) \ {e}
      BY <2>1, EntryRemoved DEF txlist_entry_erase
    <2>3. txlib_event_undo(Value(x, y), v) = Value(x2, y)
      BY <1>1 DEF txlib_event_undo, txlist_tx_undo_insert, Value
    <2> HIDE DEF x2
    <2> QED  BY <1>1, <2>1, <2>2, <2>3, EventIs DEF Minus, ValueFits, Contents
  <1>2. CASE v.op = "LIST_ERASE"
    <2> DEFINE x2 == txlist_entry_insert(x, e, v.position)
    <2>1. SeqFits(x) /\ Kind[o] = "list" /\ e \notin ToSet(x) /\ v.position \in ToSet(x) \cup {HEAD}
      BY <1>2, EventIs DEF ValueFits, Contents
    <2>2. SeqFits(x2) /\ ToSet(x2) = ToSet(x) \cup {e}
      BY <2>1, EventIs, ListPlaces
    <2>3. txlib_event_undo(Value(x, y), v) = Value(x2, y)
      BY <1>2 DEF txlib_event_undo, txlist_tx_undo_erase, Value
    <2> HIDE DEF x2
    <2> QED  BY <1>2, <2>1, <2>2, <2>3, EventIs DEF Plus, ValueFits, Contents
  <1>3. CASE v.op = "MULTISET_INSERT"
    <2> DEFINE x2 == txmultiset_state_erase(x, e)
    <2>1. TreeFits(x) /\ Kind[o] = "multiset" /\ e \in EntriesOf(x)
      BY <1>3, EventIs DEF ValueFits, Contents
    <2>2. TreeFits(x2) /\ EntriesOf(x2) = EntriesOf(x) \ {e}
      BY <2>1, TreeErased
    <2>3. txlib_event_undo(Value(x, y), v) = Value(x2, y)
      BY <1>3 DEF txlib_event_undo, txmultiset_tx_undo_insert, Value
    <2> HIDE DEF x2
    <2> QED  BY <1>3, <2>1, <2>2, <2>3, EventIs DEF Minus, ValueFits, Contents
  <1>4. CASE v.op = "MULTISET_ERASE"
    <2> DEFINE x2 == txmultiset_state_insert(x, e)
    <2>1. TreeFits(x) /\ Kind[o] = "multiset" /\ e \notin EntriesOf(x)
      BY <1>4, EventIs DEF ValueFits, Contents
    <2>2. TreeFits(x2) /\ EntriesOf(x2) = EntriesOf(x) \cup {e}
      BY <2>1, EventIs, TreeInserted
    <2>3. txlib_event_undo(Value(x, y), v) = Value(x2, y)
      BY <1>4 DEF txlib_event_undo, txmultiset_tx_undo_erase, Value
    <2> HIDE DEF x2
    <2> QED  BY <1>4, <2>1, <2>2, <2>3, EventIs DEF Plus, ValueFits, Contents
  <1>5. CASE v.op \in Pushing
    <2> DEFINE y2 == RemoveAt(y, Position(y, e))
    <2>1. InLocal(v) /\ Adds(v) /\ e \in ToSet(y)
      BY <1>5, EventIs DEF Pushing
    <2>2. SeqFits(y2) /\ ToSet(y2) = ToSet(y) \ {e}
      BY <2>1, EntryRemoved
    <2>3. txlib_event_undo(Value(x, y), v) = Value(x, y2)
      BY <1>5 DEF txlib_event_undo, txqueue_tx_undo_push, txstack_tx_undo_push, txqueue_entry_erase,
                  txstack_entry_erase, Value, Pushing
    <2> HIDE DEF y2
    <2> QED  BY <2>1, <2>2, <2>3 DEF Minus
  <1>6. CASE v.op = "QUEUE_POP" /\ v.local
    <2> DEFINE y2 == <<e>> \o y
    <2>1. InLocal(v) /\ ~Adds(v) /\ e \notin ToSet(y) /\ e \in Entries
      BY <1>6, EventIs
    <2>2. SeqFits(y2) /\ ToSet(y2) = ToSet(y) \cup {e}
      BY <2>1, EntryAdded
    <2>3. txlib_event_undo(Value(x, y), v) = Value(x, y2)
      BY <1>6 DEF txlib_event_undo, txqueue_tx_undo_pop, txqueue_state_push_front, Value
    <2> HIDE DEF y2
    <2> QED  BY <2>1, <2>2, <2>3 DEF Plus
  <1>7. CASE v.op = "STACK_POP" /\ v.local
    <2> DEFINE y2 == Append(y, e)
    <2>1. InLocal(v) /\ ~Adds(v) /\ e \notin ToSet(y) /\ e \in Entries
      BY <1>7, EventIs
    <2>2. SeqFits(y2) /\ ToSet(y2) = ToSet(y) \cup {e}
      BY <2>1, EntryAdded
    <2>3. txlib_event_undo(Value(x, y), v) = Value(x, y2)
      BY <1>7 DEF txlib_event_undo, txstack_tx_undo_pop, txstack_state_push, Value
    <2> HIDE DEF y2
    <2> QED  BY <2>1, <2>2, <2>3 DEF Plus
  <1>8. CASE v.op = "QUEUE_POP" /\ ~v.local
    <2> DEFINE x2 == <<e>> \o x
    <2>1. ~InLocal(v) /\ ~Adds(v) /\ SeqFits(x) /\ Kind[o] = "queue" /\ e \notin ToSet(x) /\ e \in Entries
      BY <1>8, EventIs DEF ValueFits, Contents
    <2>2. SeqFits(x2) /\ ToSet(x2) = ToSet(x) \cup {e}
      BY <2>1, EntryAdded
    <2>3. txlib_event_undo(Value(x, y), v) = Value(x2, y)
      BY <1>8 DEF txlib_event_undo, txqueue_tx_undo_pop, txqueue_state_push_front, Value
    <2> HIDE DEF x2
    <2> QED  BY <2>1, <2>2, <2>3 DEF Plus, ValueFits, Contents
  <1>9. CASE v.op = "STACK_POP" /\ ~v.local
    <2> DEFINE x2 == Append(x, e)
    <2>1. ~InLocal(v) /\ ~Adds(v) /\ SeqFits(x) /\ Kind[o] = "stack" /\ e \notin ToSet(x) /\ e \in Entries
      BY <1>9, EventIs DEF ValueFits, Contents
    <2>2. SeqFits(x2) /\ ToSet(x2) = ToSet(x) \cup {e}
      BY <2>1, EntryAdded
    <2>3. txlib_event_undo(Value(x, y), v) = Value(x2, y)
      BY <1>9 DEF txlib_event_undo, txstack_tx_undo_pop, txstack_state_push, Value
    <2> HIDE DEF x2
    <2> QED  BY <2>1, <2>2, <2>3 DEF Plus, ValueFits, Contents
  <1>10. v.op \in Adding \cup Removing
    BY EventIs
  <1> QED  BY <1>1, <1>2, <1>3, <1>4, <1>5, <1>6, <1>7, <1>8, <1>9, <1>10
             DEF Adding, Removing, Pushing, Popping

(* In a commit a pushed entry moves if it is the first local one.          *)
LEMMA EventApplied ==
    ASSUME NEW v \in LogEvents, NEW x, NEW y, ValueFits(x, v.object), SeqFits(y),
           \A e \in ToSet(y) : e \notin Contents(x, v.object)
    PROVE  IF v.op \in Pushing /\ y # <<>> /\ Head(y) = v.entry
           THEN \E x2 : /\ txlib_event_apply(Value(x, y), v) = Value(x2, Tail(y))
                        /\ ValueFits(x2, v.object) /\ SeqFits(Tail(y))
                        /\ v.entry \in ToSet(y) /\ ToSet(Tail(y)) = ToSet(y) \ {v.entry}
                        /\ Contents(x2, v.object) = Contents(x, v.object) \cup {v.entry}
           ELSE txlib_event_apply(Value(x, y), v) = Value(x, y)
  <1> DEFINE e == v.entry
  <1>1. CASE v.op \in Pushing /\ y # <<>> /\ Head(y) = e
    <2> DEFINE x2 == Append(x, e)
    <2>1. SeqFits(x) /\ Kind[v.object] # "multiset" /\ e \in Entries
      BY <1>1, EventIs DEF ValueFits, Pushing
    <2>2. e \in ToSet(y) /\ SeqFits(Tail(y)) /\ ToSet(Tail(y)) = ToSet(y) \ {e}
      BY <1>1, EntryRemoved
    <2>3. e \notin ToSet(x)
      BY <2>1, <2>2 DEF Contents
    <2>4. SeqFits(x2) /\ ToSet(x2) = ToSet(x) \cup {e}
      BY <2>1, <2>3, EntryAdded
    <2>5. RemoveAt(y, Position(y, e)) = Tail(y)
      BY <1>1, EndsErased
    <2>6. First(y) = e
      BY <1>1 DEF First
    <2>7. txlib_event_apply(Value(x, y), v) = Value(x2, Tail(y))
      BY <1>1, <2>5, <2>6 DEF txlib_event_apply, txqueue_tx_apply_push, txstack_tx_apply_push,
          txqueue_entry_erase, txstack_entry_erase, txqueue_state_push_back, txstack_state_push,
          Value, Pushing
    <2> HIDE DEF x2
    <2> QED  BY <1>1, <2>1, <2>2, <2>4, <2>7 DEF ValueFits, Contents
  <1>2. CASE ~(v.op \in Pushing /\ y # <<>> /\ Head(y) = e)
    <2>1. v.op \in Pushing => First(y) # e
      BY <1>2, EventIs DEF First
    <2>2. txlib_event_apply(Value(x, y), v) = Value(x, y)
      BY <2>1 DEF txlib_event_apply, txqueue_tx_apply_push, txstack_tx_apply_push, Value, Pushing
    <2> QED  BY <1>2, <2>2
  <1> QED  BY <1>1, <1>2

-----------------------------------------------------------------------------
(* The invariant, of state S, transactions X, phases P, logs L, and the    *)
(* events A that commits and roll-backs have reached.                      *)

Statuses == {"UNLOCKED", "RDLOCKED", "WRLOCKED"}
Phases == {"out", "run", "prepare", "apply", "undo"}
Transactions == [rwstate : [Objects -> Statuses], local : [Objects -> Seq(Entries)]]

Shared(S) == [o \in Objects |-> Contents(S[o], o)]
Locals(X) == [t \in Threads |-> [o \in Objects |-> ToSet(X[t].local[o])]]
Locks(X) == [t \in Threads |-> X[t].rwstate]

LibTypes(S, X, P, L, A) ==
    /\ S = [o \in Objects |-> S[o]] /\ \A o \in Objects : ValueFits(S[o], o)
    /\ X \in [Threads -> Transactions]
    /\ \A t \in Threads : \A o \in Objects : SeqFits(X[t].local[o])
    /\ P \in [Threads -> Phases] /\ L \in [Threads -> Seq(LogEvents)] /\ A \in [Threads -> Nat]
    /\ \A t \in Threads : A[t] \in 0 .. Len(L[t])

OrdersFit(X, P, L, A) ==
    \A t \in Threads : P[t] # "undo" =>
        \A o \in Objects : OrderFits(X[t].local[o], L[t], A[t], o)

ThreadsFit(S, X, P, L, A) ==
    \A t \in Threads : ThreadFits(Shared(S), Locals(X), X[t].rwstate, P[t], L[t], A[t], t)

LibInv(S, X, P, L, A) ==
    /\ LibTypes(S, X, P, L, A)
    /\ Apart(Shared(S), Locals(X)) /\ Exclusive(Locks(X)) /\ LogsDiffer(L)
    /\ ThreadsFit(S, X, P, L, A)
    /\ OrdersFit(X, P, L, A)

(* The values of t's object o change to x2 and y2.                         *)
Becomes(S, X, S2, X2, t, o, x2, y2) ==
    /\ S2 = [S EXCEPT ![o] = x2]
    /\ X2 = [X EXCEPT ![t].local[o] = y2]

LEMMA BecomesWhat ==
    ASSUME NEW S, NEW X, NEW P, NEW L, NEW A, LibTypes(S, X, P, L, A),
           NEW t \in Threads, NEW o \in Objects, NEW x2, NEW y2, ValueFits(x2, o), SeqFits(y2),
           NEW S2, NEW X2, Becomes(S, X, S2, X2, t, o, x2, y2)
    PROVE  /\ S2 = [p \in Objects |-> S2[p]] /\ X2 \in [Threads -> Transactions]
           /\ \A u \in Threads : X2[u].rwstate = X[u].rwstate
           /\ S2[o] = x2 /\ \A p \in Objects : p # o => S2[p] = S[p]
           /\ X2[t].local[o] = y2
           /\ \A u \in Threads : \A p \in Objects : u # t \/ p # o => X2[u].local[p] = X[u].local[p]
           /\ \A p \in Objects : ValueFits(S2[p], p)
           /\ \A u \in Threads : \A p \in Objects : SeqFits(X2[u].local[p])
           /\ Locks(X2) = Locks(X)
           /\ Shared(S2)[o] = Contents(x2, o)
           /\ \A p \in Objects : p # o => Shared(S2)[p] = Shared(S)[p]
           /\ Locals(X2)[t][o] = ToSet(y2)
           /\ \A u \in Threads : \A p \in Objects :
                 u # t \/ p # o => Locals(X2)[u][p] = Locals(X)[u][p]
           /\ Shared(S)[o] = Contents(S[o], o) /\ Locals(X)[t][o] = ToSet(X[t].local[o])
  <1>1. /\ S = [p \in Objects |-> S[p]] /\ (\A p \in Objects : ValueFits(S[p], p))
        /\ X \in [Threads -> Transactions]
        /\ \A u \in Threads : \A p \in Objects : SeqFits(X[u].local[p])
    BY DEF LibTypes
  <1>2. S2 = [S EXCEPT ![o] = x2] /\ X2 = [X EXCEPT ![t].local[o] = y2]
    BY DEF Becomes
  <1>3. S2 = [p \in Objects |-> S2[p]] /\ S2[o] = x2 /\ \A p \in Objects : p # o => S2[p] = S[p]
    BY <1>1, <1>2
  <1>4. y2 \in Seq(Entries)
    BY DEF SeqFits
  <1>5. /\ X2 \in [Threads -> Transactions]
        /\ X2[t].local[o] = y2
        /\ \A u \in Threads : X2[u].rwstate = X[u].rwstate
        /\ \A u \in Threads : \A p \in Objects : u # t \/ p # o => X2[u].local[p] = X[u].local[p]
    BY <1>1, <1>2, <1>4 DEF Transactions
  <1>6. /\ \A p \in Objects : ValueFits(S2[p], p)
        /\ \A u \in Threads : \A p \in Objects : SeqFits(X2[u].local[p])
    BY <1>1, <1>3, <1>5
  <1>7. Locks(X2) = Locks(X)
    BY <1>5 DEF Locks
  <1>8. /\ Shared(S2)[o] = Contents(x2, o) /\ Shared(S)[o] = Contents(S[o], o)
        /\ \A p \in Objects : p # o => Shared(S2)[p] = Shared(S)[p]
    BY <1>3 DEF Shared
  <1>9. /\ Locals(X2)[t][o] = ToSet(y2) /\ Locals(X)[t][o] = ToSet(X[t].local[o])
        /\ \A u \in Threads : \A p \in Objects :
              u # t \/ p # o => Locals(X2)[u][p] = Locals(X)[u][p]
    BY <1>5 DEF Locals
  <1> QED  BY <1>3, <1>5, <1>6, <1>7, <1>8, <1>9

LEMMA PlusPuts ==
    ASSUME NEW S, NEW X, NEW P, NEW L, NEW A, LibTypes(S, X, P, L, A), Apart(Shared(S), Locals(X)),
           NEW t \in Threads, NEW v \in LogEvents, NEW x2, NEW y2, NEW S2, NEW X2,
           Becomes(S, X, S2, X2, t, v.object, x2, y2)
    PROVE  /\ /\ Plus(S[v.object], X[t].local[v.object], x2, y2, v)
              /\ Nowhere(Shared(S), Locals(X), v.entry)
              => Puts(Shared(S), Locals(X), Shared(S2), Locals(X2), t, v)
           /\ /\ Minus(S[v.object], X[t].local[v.object], x2, y2, v)
              /\ v.entry \in Holder(Shared(S), Locals(X), t, v)
              => Takes(Shared(S), Locals(X), Shared(S2), Locals(X2), t, v)
  <1> DEFINE o == v.object  e == v.entry  C == Shared(S)  D == Locals(X)
             C2 == Shared(S2)  D2 == Locals(X2)
  <1>1. o \in Objects
    BY EventIs
  <1>2. ASSUME ValueFits(x2, o), SeqFits(y2)
        PROVE  /\ C2[o] = Contents(x2, o) /\ \A p \in Objects : p # o => C2[p] = C[p]
               /\ D2[t][o] = ToSet(y2)
               /\ \A u \in Threads : \A p \in Objects : u # t \/ p # o => D2[u][p] = D[u][p]
               /\ C[o] = Contents(S[o], o) /\ D[t][o] = ToSet(X[t].local[o])
    BY <1>1, <1>2, BecomesWhat
  <1> HIDE DEF C, D, C2, D2
  <1>3. ASSUME Plus(S[o], X[t].local[o], x2, y2, v), Nowhere(C, D, e)
        PROVE  Puts(C, D, C2, D2, t, v)
    <2>1. /\ C2[o] = Contents(x2, o) /\ \A p \in Objects : p # o => C2[p] = C[p]
          /\ D2[t][o] = ToSet(y2)
          /\ \A u \in Threads : \A p \in Objects : u # t \/ p # o => D2[u][p] = D[u][p]
          /\ C[o] = Contents(S[o], o) /\ D[t][o] = ToSet(X[t].local[o])
      BY <1>2, <1>3 DEF Plus
    <2>2. IF InLocal(v) THEN C2[o] = C[o] /\ D2[t][o] = D[t][o] \cup {e}
                        ELSE D2[t][o] = D[t][o] /\ C2[o] = C[o] \cup {e}
      BY <1>3, <2>1 DEF Plus
    <2>3. Touches(C, D, C2, D2, t, e)
      <3>1. \A p \in Objects : \A z : z # e => (z \in C2[p] <=> z \in C[p])
        BY <2>1, <2>2
      <3>2. \A u \in Threads : \A p \in Objects : \A z : z # e \/ u # t => (z \in D2[u][p] <=> z \in D[u][p])
        BY <2>1, <2>2
      <3> QED  BY <3>1, <3>2 DEF Touches
    <2>4. \A p \in Objects : e \in C2[p] <=> p = o /\ ~InLocal(v)
      BY <1>1, <1>3, <2>1, <2>2 DEF Nowhere
    <2>5. \A p \in Objects : e \in D2[t][p] <=> p = o /\ InLocal(v)
      BY <1>1, <1>3, <2>1, <2>2 DEF Nowhere
    <2> QED  BY <2>3, <2>4, <2>5 DEF Puts
  <1>4. ASSUME Minus(S[o], X[t].local[o], x2, y2, v), e \in Holder(C, D, t, v)
        PROVE  Takes(C, D, C2, D2, t, v)
    <2>1. /\ C2[o] = Contents(x2, o) /\ \A p \in Objects : p # o => C2[p] = C[p]
          /\ D2[t][o] = ToSet(y2)
          /\ \A u \in Threads : \A p \in Objects : u # t \/ p # o => D2[u][p] = D[u][p]
          /\ C[o] = Contents(S[o], o) /\ D[t][o] = ToSet(X[t].local[o])
      BY <1>2, <1>4 DEF Minus
    <2>2. IF InLocal(v) THEN C2[o] = C[o] /\ D2[t][o] = D[t][o] \ {e}
                        ELSE D2[t][o] = D[t][o] /\ C2[o] = C[o] \ {e}
      BY <1>4, <2>1 DEF Minus
    <2>3. Touches(C, D, C2, D2, t, e)
      <3>1. \A p \in Objects : \A z : z # e => (z \in C2[p] <=> z \in C[p])
        BY <2>1, <2>2
      <3>2. \A u \in Threads : \A p \in Objects : \A z : z # e \/ u # t => (z \in D2[u][p] <=> z \in D[u][p])
        BY <2>1, <2>2
      <3> QED  BY <3>1, <3>2 DEF Touches
    <2>4. Apart(C, D)
      BY DEF C, D
    <2>5. CASE InLocal(v)
      <3>1. e \in D[t][o]
        BY <1>4, <2>5 DEF Holder
      <3>2. \A p \in Objects : e \notin C[p] /\ \A u \in Threads : u # t \/ p # o => e \notin D[u][p]
        BY <1>1, <2>4, <3>1 DEF Apart
      <3> QED  BY <1>1, <2>1, <2>2, <2>3, <2>5, <3>2 DEF Takes, Nowhere
    <2>6. CASE ~InLocal(v)
      <3>1. e \in C[o]
        BY <1>4, <2>6 DEF Holder
      <3>2. \A p \in Objects : (p # o => e \notin C[p]) /\ \A u \in Threads : e \notin D[u][p]
        BY <1>1, <2>4, <3>1 DEF Apart
      <3> QED  BY <1>1, <2>1, <2>2, <2>3, <2>6, <3>2 DEF Takes, Nowhere
    <2> QED  BY <2>5, <2>6
  <1> QED  BY <1>3, <1>4 DEF C, D, C2, D2

(* The logs of others do not contain an entry that t puts or takes.        *)
LEMMA NotOthers ==
    ASSUME NEW S, NEW X, NEW P, NEW L, NEW A, LibInv(S, X, P, L, A),
           NEW t \in Threads, NEW u \in Threads, u # t, NEW v \in LogEvents,
           ~InLocal(v) => X[t].rwstate[v.object] = "WRLOCKED",
           v.entry \in Holder(Shared(S), Locals(X), t, v)
    PROVE  \A k \in 1 .. Len(L[u]) : L[u][k].entry # v.entry
  <1> SUFFICES ASSUME NEW k \in 1 .. Len(L[u]), L[u][k].entry = v.entry PROVE FALSE
    OBVIOUS
  <1>1. OwnFits(Shared(S), Locals(X), X[u].rwstate, L[u], u) /\ v.object \in Objects
    BY EventIs DEF LibInv, ThreadsFit, ThreadFits
  <1>2. CASE InLocal(v)
    BY <1>1, <1>2 DEF OwnFits, Holder
  <1>3. CASE ~InLocal(v)
    <2>1. X[u].rwstate[v.object] = "WRLOCKED"
      BY <1>1, <1>3 DEF OwnFits, Holder
    <2> QED  BY <1>1, <1>3, <2>1 DEF LibInv, Exclusive, Locks
  <1> QED  BY <1>2, <1>3

(* What all steps on one entry have in common.                             *)
LEMMA OthersFit ==
    ASSUME NEW S, NEW X, NEW P, NEW L, NEW A, LibInv(S, X, P, L, A),
           NEW t \in Threads, NEW e, NEW S2, NEW X2,
           Touches(Shared(S), Locals(X), Shared(S2), Locals(X2), t, e),
           \A u \in Threads : X2[u].rwstate = X[u].rwstate,
           \A o \in Objects : X[t].rwstate[o] # "WRLOCKED" =>
               (e \in Shared(S2)[o] <=> e \in Shared(S)[o]),
           NEW u \in Threads, u # t, \A k \in 1 .. Len(L[u]) : L[u][k].entry # e
    PROVE  ThreadFits(Shared(S2), Locals(X2), X2[u].rwstate, P[u], L[u], A[u], u)
  <1>1. LibTypes(S, X, P, L, A) /\ Exclusive(Locks(X))
        /\ ThreadFits(Shared(S), Locals(X), X[u].rwstate, P[u], L[u], A[u], u)
    BY DEF LibInv, ThreadsFit
  <1>2. L[u] \in Seq(LogEvents) /\ A[u] \in 0 .. Len(L[u])
    BY <1>1 DEF LibTypes
  <1>3. Len(L[u]) \in Nat /\ \A k \in 1 .. Len(L[u]) : L[u][k].object \in Objects /\ L[u][k].entry \in Entries
    BY <1>2, EventIs
  <1>4. Active(P[u], L[u], A[u]) \in 0 .. Len(L[u])
    BY <1>2, <1>3 DEF Active
  <1>5. \A o \in Objects : X[u].rwstate[o] = "WRLOCKED" =>
            (e \in Shared(S2)[o] <=> e \in Shared(S)[o])
    BY <1>1 DEF Exclusive, Locks
  <1> QED  BY <1>1, <1>3, <1>4, <1>5, OthersKeep

-----------------------------------------------------------------------------
(* Steps.                                                                  *)

(* t's lock of o becomes q.                                                *)
Gets(X, X2, t, o, q) == X2 = [X EXCEPT ![t].rwstate[o] = q]

LEMMA LockTaken ==
    ASSUME NEW S, NEW X, NEW P, NEW L, NEW A, LibInv(S, X, P, L, A),
           NEW t \in Threads, NEW o \in Objects, NEW q \in Statuses, NEW X2, Gets(X, X2, t, o, q),
           P[t] # "out",
           X[t].rwstate[o] = "WRLOCKED" => q = "WRLOCKED",
           q = "WRLOCKED" => \/ X[t].rwstate[o] = "WRLOCKED"
                             \/ \A u \in Threads \ {t} : X[u].rwstate[o] = "UNLOCKED",
           q = "RDLOCKED" => \/ X[t].rwstate[o] # "UNLOCKED"
                             \/ \A u \in Threads \ {t} : X[u].rwstate[o] # "WRLOCKED"
    PROVE  /\ LibInv(S, X2, P, L, A)
           /\ X2[t].rwstate[o] = q /\ \A u \in Threads : X2[u].local = X[u].local
  <1>1. /\ LibTypes(S, X, P, L, A) /\ Apart(Shared(S), Locals(X)) /\ Exclusive(Locks(X)) /\ LogsDiffer(L)
        /\ ThreadsFit(S, X, P, L, A) /\ OrdersFit(X, P, L, A)
    BY DEF LibInv
  <1>2. X \in [Threads -> Transactions] /\ X2 = [X EXCEPT ![t].rwstate[o] = q]
    BY <1>1 DEF LibTypes, Gets
  <1>3. /\ X2 \in [Threads -> Transactions]
        /\ X2[t].rwstate[o] = q
        /\ \A u \in Threads : X2[u].local = X[u].local
        /\ \A u \in Threads : u # t => X2[u].rwstate = X[u].rwstate
        /\ \A p \in Objects : p # o => X2[t].rwstate[p] = X[t].rwstate[p]
        /\ \A u \in Threads : \A p \in Objects : X[u].rwstate[p] \in Statuses
    BY <1>2 DEF Transactions
  <1>4. Locals(X2) = Locals(X)
    BY <1>3 DEF Locals
  <1>5. LibTypes(S, X2, P, L, A)
    BY <1>1, <1>3 DEF LibTypes
  <1>6. Exclusive(Locks(X2))
    <2> SUFFICES ASSUME NEW u \in Threads, NEW w \in Threads, u # w, NEW p \in Objects,
                        X2[u].rwstate[p] = "WRLOCKED"
                 PROVE  X2[w].rwstate[p] = "UNLOCKED"
      BY DEF Exclusive, Locks
    <2>1. \A a, b \in Threads : a # b /\ X[a].rwstate[p] = "WRLOCKED" => X[b].rwstate[p] = "UNLOCKED"
      BY <1>1 DEF Exclusive, Locks
    <2>2. CASE p # o
      BY <1>3, <2>1, <2>2
    <2>3. CASE p = o /\ u = t
      <3>1. q = "WRLOCKED" /\ X2[w].rwstate[o] = X[w].rwstate[o]
        BY <1>3, <2>3
      <3> QED  BY <2>1, <2>3, <3>1
    <2>4. CASE p = o /\ u # t /\ w # t
      BY <1>3, <2>1, <2>4
    <2>5. CASE p = o /\ w = t
      <3>1. X[u].rwstate[o] = "WRLOCKED" /\ u # t
        BY <1>3, <2>5
      <3>2. X[t].rwstate[o] = "UNLOCKED"
        BY <2>1, <2>5, <3>1
      <3>3. q # "WRLOCKED" /\ q # "RDLOCKED"
        BY <3>1, <3>2
      <3> QED  BY <1>3, <2>5, <3>3 DEF Statuses
    <2> QED  BY <2>2, <2>3, <2>4, <2>5
  <1>7. ThreadsFit(S, X2, P, L, A)
    <2> SUFFICES ASSUME NEW u \in Threads
                 PROVE  ThreadFits(Shared(S), Locals(X2), X2[u].rwstate, P[u], L[u], A[u], u)
      BY DEF ThreadsFit
    <2>1. ThreadFits(Shared(S), Locals(X), X[u].rwstate, P[u], L[u], A[u], u)
      BY <1>1 DEF ThreadsFit
    <2>2. CASE u # t
      BY <1>3, <1>4, <2>1, <2>2
    <2>3. CASE u = t
      <3>1. \A p \in Objects : X[t].rwstate[p] = "WRLOCKED" => X2[t].rwstate[p] = "WRLOCKED"
        BY <1>3
      <3>2. L[t] \in Seq(LogEvents)
        BY <1>1 DEF LibTypes
      <3>3. \A k \in 1 .. Len(L[t]) : L[t][k].object \in Objects
        BY <3>2 DEF LogEvents, Records
      <3> QED  BY <1>4, <2>1, <2>3, <3>1, <3>3, MoreLocksFit
    <2> QED  BY <2>2, <2>3
  <1>8. OrdersFit(X2, P, L, A)
    BY <1>1, <1>3 DEF OrdersFit
  <1> QED  BY <1>1, <1>3, <1>4, <1>5, <1>6, <1>7, <1>8 DEF LibInv

(* t may log v in this state.                                              *)
MayLog(S, X, L, t, v) ==
    /\ v \in LogEvents
    /\ ~InLocal(v) => X[t].rwstate[v.object] = "WRLOCKED"
    /\ Ready(S[v.object], X[t].local[v.object], v)
    /\ Adds(v) => /\ Nowhere(Shared(S), Locals(X), v.entry)
                  /\ \A u \in Threads \ {t} : \A k \in 1 .. Len(L[u]) : L[u][k].entry # v.entry
    /\ v.op = "LIST_ERASE" /\ v.position # HEAD =>
           v.position \in Contents(S[v.object], v.object) \ {v.entry}

(* v is carried out: it adds or takes away its entry.                      *)
Carries(S, X, S2, X2, t, v, x2, y2) ==
    /\ Becomes(S, X, S2, X2, t, v.object, x2, y2)
    /\ IF Adds(v) THEN Plus(S[v.object], X[t].local[v.object], x2, y2, v)
                  ELSE Minus(S[v.object], X[t].local[v.object], x2, y2, v)
    /\ InLocal(v) /\ Adds(v) => y2 = Append(X[t].local[v.object], v.entry)
    /\ InLocal(v) /\ ~Adds(v) => /\ X[t].local[v.object] # <<>>
                                 /\ y2 \in {Tail(X[t].local[v.object]), Front(X[t].local[v.object])}

LEMMA ReadyHolder ==
    ASSUME NEW S, NEW X, NEW P, NEW L, NEW A, LibInv(S, X, P, L, A), NEW t \in Threads,
           NEW v, MayLog(S, X, L, t, v), ~Adds(v)
    PROVE  v.entry \in Holder(Shared(S), Locals(X), t, v)
  <1> DEFINE o == v.object  x == S[o]  y == X[t].local[o]
  <1>1. v \in LogEvents /\ Ready(x, y, v)
    BY DEF MayLog
  <1>2. o \in Objects
    BY <1>1, EventIs
  <1>3. ValueFits(x, o) /\ SeqFits(y)
    BY <1>2 DEF LibInv, LibTypes
  <1>4. Shared(S)[o] = Contents(x, o) /\ Locals(X)[t][o] = ToSet(y)
    BY <1>2 DEF Shared, Locals
  <1>5. IF InLocal(v) THEN v.entry \in ToSet(y) ELSE v.entry \in Contents(x, o)
    <2>1. CASE v.op \in {"LIST_ERASE", "MULTISET_ERASE"}
      BY <1>1, <2>1, EventIs DEF Ready
    <2>2. CASE v.op \in Popping
      <3>1. Kind[o] \in {"queue", "stack"} /\ (InLocal(v) <=> v.local)
        BY <1>1, <2>2, EventIs DEF Popping
      <3>2. ~v.local => SeqFits(x) /\ Contents(x, o) = ToSet(x)
        BY <1>3, <3>1 DEF ValueFits, Contents
      <3> QED  BY <1>1, <1>3, <2>2, <3>1, <3>2, EntryRemoved DEF Ready, Popping
    <2> QED  BY <1>1, <2>1, <2>2, EventIs DEF Adds, Adding, Removing
  <1> QED  BY <1>4, <1>5 DEF Holder

LEMMA LoggedOthersFit ==
    ASSUME NEW S, NEW X, NEW P, NEW L, NEW A, LibInv(S, X, P, L, A), NEW t \in Threads, P[t] = "run",
           NEW v, MayLog(S, X, L, t, v), NEW S2, NEW X2,
           IF Adds(v) THEN Puts(Shared(S), Locals(X), Shared(S2), Locals(X2), t, v)
                      ELSE Takes(Shared(S), Locals(X), Shared(S2), Locals(X2), t, v),
           \A u \in Threads : X2[u].rwstate = X[u].rwstate,
           NEW u \in Threads, u # t
    PROVE  /\ ThreadFits(Shared(S2), Locals(X2), X2[u].rwstate, P[u], L[u], A[u], u)
           /\ \A k \in 1 .. Len(L[u]) : L[u][k].entry # v.entry
  <1>1. v \in LogEvents /\ v.object \in Objects /\ (~InLocal(v) => X[t].rwstate[v.object] = "WRLOCKED")
    BY EventIs DEF MayLog
  <1>2. Touches(Shared(S), Locals(X), Shared(S2), Locals(X2), t, v.entry)
    BY DEF Puts, Takes
  <1>3. \A k \in 1 .. Len(L[u]) : L[u][k].entry # v.entry
    <2>1. CASE Adds(v)
      BY <2>1 DEF MayLog
    <2>2. CASE ~Adds(v)
      <3>1. v.entry \in Holder(Shared(S), Locals(X), t, v)
        BY <2>2, ReadyHolder
      <3> QED  BY <1>1, <3>1, NotOthers
    <2> QED  BY <2>1, <2>2
  <1>4. ASSUME NEW o \in Objects, X[t].rwstate[o] # "WRLOCKED"
        PROVE  v.entry \in Shared(S2)[o] <=> v.entry \in Shared(S)[o]
    <2>1. CASE Adds(v)
      <3>1. v.entry \notin Shared(S)[o]
        BY <2>1 DEF MayLog, Nowhere
      <3>2. v.entry \in Shared(S2)[o] <=> o = v.object /\ ~InLocal(v)
        BY <2>1 DEF Puts
      <3> QED  BY <1>1, <1>4, <3>1, <3>2
    <2>2. CASE ~Adds(v)
      <3>1. v.entry \notin Shared(S2)[o]
        BY <2>2 DEF Takes, Nowhere
      <3>2. v.entry \in Holder(Shared(S), Locals(X), t, v)
        BY <2>2, ReadyHolder
      <3>3. v.entry \notin Shared(S)[o]
        <4>1. Apart(Shared(S), Locals(X))
          BY DEF LibInv
        <4>2. CASE InLocal(v)
          BY <1>1, <3>2, <4>1, <4>2 DEF Holder, Apart
        <4>3. CASE ~InLocal(v)
          <5>1. o # v.object
            BY <1>1, <1>4, <4>3
          <5> QED  BY <1>1, <3>2, <4>1, <4>3, <5>1 DEF Holder, Apart
        <4> QED  BY <4>2, <4>3
      <3> QED  BY <3>1, <3>3
    <2> QED  BY <2>1, <2>2
  <1> QED  BY <1>2, <1>3, <1>4, OthersFit

LEMMA EventLogged ==
    ASSUME NEW S, NEW X, NEW P, NEW L, NEW A, LibInv(S, X, P, L, A), NEW t \in Threads, P[t] = "run",
           NEW v, MayLog(S, X, L, t, v), NEW x2, NEW y2, NEW S2, NEW X2,
           Carries(S, X, S2, X2, t, v, x2, y2),
           NEW L2, L2 = [L EXCEPT ![t] = Append(L[t], v)]
    PROVE  LibInv(S2, X2, P, L2, A)
  <1> DEFINE o == v.object  C == Shared(S)  D == Locals(X)  C2 == Shared(S2)  D2 == Locals(X2)
  <1>1. /\ LibTypes(S, X, P, L, A) /\ Apart(C, D) /\ Exclusive(Locks(X)) /\ LogsDiffer(L)
        /\ ThreadsFit(S, X, P, L, A) /\ OrdersFit(X, P, L, A)
    BY DEF LibInv
  <1>2. v \in LogEvents /\ o \in Objects
    BY EventIs DEF MayLog
  <1>3. ValueFits(x2, o) /\ SeqFits(y2) /\ Becomes(S, X, S2, X2, t, o, x2, y2)
    BY DEF Carries, Plus, Minus
  <1>4. /\ S2 = [p \in Objects |-> S2[p]] /\ X2 \in [Threads -> Transactions]
        /\ \A u \in Threads : X2[u].rwstate = X[u].rwstate
        /\ X2[t].local[o] = y2
        /\ \A u \in Threads : \A p \in Objects : u # t \/ p # o => X2[u].local[p] = X[u].local[p]
        /\ \A p \in Objects : ValueFits(S2[p], p)
        /\ \A u \in Threads : \A p \in Objects : SeqFits(X2[u].local[p])
        /\ Locks(X2) = Locks(X)
    BY <1>1, <1>2, <1>3, BecomesWhat
  <1>5. ~Adds(v) => v.entry \in Holder(C, D, t, v)
    BY ReadyHolder
  <1>6. IF Adds(v) THEN Nowhere(C, D, v.entry) /\ Puts(C, D, C2, D2, t, v)
                   ELSE v.entry \in Holder(C, D, t, v) /\ Takes(C, D, C2, D2, t, v)
    <2>1. Adds(v) => Nowhere(C, D, v.entry)
      BY DEF MayLog
    <2> QED  BY <1>1, <1>2, <1>3, <1>5, <2>1, PlusPuts DEF Carries
  <1>7. Apart(C2, D2)
    <2>1. Puts(C, D, C2, D2, t, v) \/ Takes(C, D, C2, D2, t, v)
      BY <1>6
    <2>2. CASE Adds(v)
      BY <1>1, <1>2, <1>6, <2>1, <2>2, StillApart
    <2>3. CASE ~Adds(v)
      <3>1. ~Puts(C, D, C2, D2, t, v)
        BY <1>2, <1>6, <2>3 DEF Puts, Takes, Nowhere
      <3> QED  BY <1>1, <1>2, <2>1, <3>1, StillApart
    <2> QED  BY <2>2, <2>3
  <1>8. /\ L \in [Threads -> Seq(LogEvents)] /\ A \in [Threads -> Nat]
        /\ \A u \in Threads : A[u] \in 0 .. Len(L[u])
    BY <1>1 DEF LibTypes
  <1>9. /\ L2 \in [Threads -> Seq(LogEvents)] /\ L2[t] = Append(L[t], v)
        /\ \A u \in Threads : u # t => L2[u] = L[u]
    BY <1>2, <1>8
  <1>10. /\ Len(L2[t]) = Len(L[t]) + 1 /\ L2[t][Len(L[t]) + 1] = v
         /\ \A k \in 1 .. Len(L[t]) : L2[t][k] = L[t][k]
    BY <1>2, <1>8, <1>9
  <1>11. A[t] = 0
    BY <1>1 DEF ThreadsFit, ThreadFits, PhaseFits
  <1>12. LibTypes(S2, X2, P, L2, A)
    <2>1. \A u \in Threads : A[u] \in 0 .. Len(L2[u])
      BY <1>8, <1>9, <1>10
    <2> QED  BY <1>1, <1>4, <1>8, <1>9, <2>1 DEF LibTypes
  <1>13. \A u \in Threads : u # t => /\ ThreadFits(C2, D2, X2[u].rwstate, P[u], L[u], A[u], u)
                                     /\ \A k \in 1 .. Len(L[u]) : L[u][k].entry # v.entry
    BY <1>4, <1>6, LoggedOthersFit
  <1>14. LogsDiffer(L2)
    <2> SUFFICES ASSUME NEW u \in Threads, NEW w \in Threads, u # w,
                        NEW j \in 1 .. Len(L2[u]), NEW k \in 1 .. Len(L2[w])
                 PROVE  L2[u][j].entry # L2[w][k].entry
      BY DEF LogsDiffer
    <2>1. \A a, b \in Threads : a # b =>
              \A i \in 1 .. Len(L[a]) : \A h \in 1 .. Len(L[b]) : L[a][i].entry # L[b][h].entry
      BY <1>1 DEF LogsDiffer
    <2>2. \A h \in 1 .. Len(L2[t]) : h \in 1 .. Len(L[t]) \/ h = Len(L[t]) + 1
      BY <1>8, <1>10
    <2>3. CASE u # t /\ w # t
      BY <1>9, <2>1, <2>3
    <2>4. CASE u = t
      <3>1. L2[w] = L[w]
        BY <1>9, <2>4
      <3>2. CASE j \in 1 .. Len(L[t])
        BY <1>10, <2>1, <2>4, <3>1, <3>2
      <3>3. CASE j = Len(L[t]) + 1
        BY <1>10, <1>13, <2>4, <3>1, <3>3
      <3> QED  BY <2>2, <2>4, <3>2, <3>3
    <2>5. CASE w = t
      <3>1. L2[u] = L[u]
        BY <1>9, <2>5
      <3>2. CASE k \in 1 .. Len(L[t])
        BY <1>10, <2>1, <2>5, <3>1, <3>2
      <3>3. CASE k = Len(L[t]) + 1
        BY <1>10, <1>13, <2>5, <3>1, <3>3
      <3> QED  BY <2>2, <2>5, <3>2, <3>3
    <2> QED  BY <2>3, <2>4, <2>5
  <1>15. ThreadFits(C2, D2, X2[t].rwstate, P[t], L2[t], A[t], t)
    <2>1. ThreadFits(C, D, X[t].rwstate, "run", L[t], 0, t)
      BY <1>1, <1>11 DEF ThreadsFit
    <2>2. ~InLocal(v) => X[t].rwstate[v.object] = "WRLOCKED"
      BY DEF MayLog
    <2>3. v.op = "LIST_ERASE" /\ v.position # HEAD => v.position \in C[v.object] \ {v.entry}
      BY <1>2 DEF MayLog, Shared
    <2>4. L[t] \in Seq(LogEvents) /\ L2[t] \in Seq(LogEvents)
      BY <1>8, <1>9
    <2> HIDE DEF C, D, C2, D2, o
    <2>5. ThreadFits(C2, D2, X[t].rwstate, "run", L2[t], 0, t)
      BY <1>1, <1>2, <1>6, <1>9, <2>1, <2>2, <2>3, <2>4, LoggedFits
    <2> QED  BY <1>4, <1>11, <2>5
  <1>16. ThreadsFit(S2, X2, P, L2, A)
    BY <1>9, <1>13, <1>15 DEF ThreadsFit
  <1>17. OrdersFit(X2, P, L2, A)
    <2> SUFFICES ASSUME NEW u \in Threads, P[u] # "undo", NEW p \in Objects
                 PROVE  OrderFits(X2[u].local[p], L2[u], A[u], p)
      BY DEF OrdersFit
    <2>1. OrderFits(X[u].local[p], L[u], A[u], p)
      BY <1>1 DEF OrdersFit
    <2>2. CASE u # t
      BY <1>4, <1>9, <2>1, <2>2
    <2>3. CASE u = t
      <3> DEFINE y == X[t].local[p]
      <3>0. y \in Seq(Entries) /\ L[t] \in Seq(LogEvents) /\ L2[t] \in Seq(LogEvents)
            /\ OrderFits(y, L[t], 0, p)
        BY <1>1, <1>8, <1>9, <1>11, <2>1, <2>3 DEF LibTypes, SeqFits
      <3> HIDE DEF y
      <3>1. /\ OrderFits(y, L2[t], 0, p)
            /\ Pushes(v, p, v.entry) => OrderFits(Append(y, v.entry), L2[t], 0, p)
        BY <1>2, <1>9, <3>0, OrderLogged
      <3>2. X2[t].local[p] = y => OrderFits(X2[t].local[p], L2[t], 0, p)
        BY <3>1
      <3>3. CASE p # o \/ ~InLocal(v)
        <4>1. y2 = X[t].local[o] \/ InLocal(v)
          BY DEF Carries, Plus, Minus
        <4>2. X2[t].local[p] = y
          BY <1>4, <3>3, <4>1 DEF y
        <4> QED  BY <1>11, <2>3, <3>2, <4>2
      <3>4. CASE p = o /\ InLocal(v) /\ Adds(v)
        <4>1. y2 = Append(y, v.entry)
          BY <3>4 DEF Carries, y
        <4>2. Pushes(v, p, v.entry)
          BY <1>2, <3>4 DEF Pushes, InLocal, Adds, LogEvents, Fitting, Adding, Pushing, Popping
        <4> QED  BY <1>4, <1>11, <2>3, <3>1, <3>4, <4>1, <4>2
      <3>5. CASE p = o /\ InLocal(v) /\ ~Adds(v)
        <4>1. y # <<>> /\ y2 \in {Tail(y), Front(y)}
          BY <3>5 DEF Carries, y
        <4>2. OrderFits(Tail(y), L2[t], 0, p) /\ OrderFits(Front(y), L2[t], 0, p)
          BY <3>0, <3>1, <4>1, OrderRest
        <4> QED  BY <1>4, <1>11, <2>3, <3>5, <4>1, <4>2
      <3> QED  BY <3>3, <3>4, <3>5
    <2> QED  BY <2>2, <2>3
  <1> QED  BY <1>1, <1>4, <1>7, <1>12, <1>14, <1>16, <1>17 DEF LibInv

LEMMA EventTakenBack ==
    ASSUME Risks = {}, NEW S, NEW X, NEW P, NEW L, NEW A, LibInv(S, X, P, L, A), NEW t \in Threads,
           P[t] = "undo", A[t] > 0, NEW v, v = L[t][A[t]], NEW o, o = v.object
    PROVE  \E x2, y2 :
              /\ txlib_event_undo(Value(S[o], X[t].local[o]), v) = Value(x2, y2)
              /\ \A S2, X2, A2 : Becomes(S, X, S2, X2, t, o, x2, y2) /\ A2 = [A EXCEPT ![t] = A[t] - 1]
                                    => LibInv(S2, X2, P, L, A2)
  <1> DEFINE C == Shared(S)  D == Locals(X)  l == L[t]  a == A[t]  x == S[o]  y == X[t].local[o]
             r == X[t].rwstate
  <1>1. /\ LibTypes(S, X, P, L, A) /\ Apart(C, D) /\ Exclusive(Locks(X)) /\ LogsDiffer(L)
        /\ ThreadsFit(S, X, P, L, A) /\ OrdersFit(X, P, L, A)
    BY DEF LibInv
  <1>2. l \in Seq(LogEvents) /\ a \in 1 .. Len(l) /\ L \in [Threads -> Seq(LogEvents)]
        /\ A \in [Threads -> Nat] /\ \A u \in Threads : A[u] \in 0 .. Len(L[u])
    BY <1>1 DEF LibTypes
  <1>3. ThreadFits(C, D, r, "undo", l, a, t)
    BY <1>1 DEF ThreadsFit
  <1>4. /\ v \in LogEvents
        /\ IF Adds(v) THEN v.entry \in Holder(C, D, t, v) ELSE Nowhere(C, D, v.entry)
        /\ v.op = "LIST_ERASE" /\ v.position # HEAD => v.position \in C[v.object]
        /\ ~InLocal(v) => r[v.object] = "WRLOCKED"
    <2> HIDE DEF C, D, l, a, r
    <2>1. v = l[a]
      BY DEF l, a
    <2> QED  BY <1>2, <1>3, <2>1, UndoReady
  <1>5. o \in Objects
    BY <1>4, EventIs
  <1>6. ValueFits(x, o) /\ SeqFits(y)
    BY <1>1, <1>5 DEF LibTypes
  <1>7. C[o] = Contents(x, o) /\ D[t][o] = ToSet(y)
    BY <1>5 DEF Shared, Locals
  <1>8. PICK x2, y2 :
            /\ txlib_event_undo(Value(x, y), v) = Value(x2, y2)
            /\ IF Adds(v) THEN Minus(x, y, x2, y2, v) ELSE Plus(x, y, x2, y2, v)
    <2>1. Adds(v) => v.entry \in IF InLocal(v) THEN ToSet(y) ELSE Contents(x, o)
      BY <1>4, <1>7 DEF Holder
    <2>2. ~Adds(v) => v.entry \notin Contents(x, o) /\ v.entry \notin ToSet(y)
      BY <1>4, <1>5, <1>7 DEF Nowhere
    <2>3. v.op = "LIST_ERASE" /\ v.position # HEAD => v.position \in Contents(x, o)
      BY <1>4, <1>7
    <2> HIDE DEF x, y
    <2> QED  BY <1>4, <1>6, <2>1, <2>2, <2>3, EventUndone
  <1> SUFFICES ASSUME NEW S2, NEW X2, NEW A2, Becomes(S, X, S2, X2, t, o, x2, y2),
                      A2 = [A EXCEPT ![t] = a - 1]
               PROVE  LibInv(S2, X2, P, L, A2)
    BY <1>8
  <1> DEFINE C2 == Shared(S2)  D2 == Locals(X2)
  <1>9. ValueFits(x2, o) /\ SeqFits(y2)
    BY <1>8 DEF Plus, Minus
  <1>10. /\ S2 = [p \in Objects |-> S2[p]] /\ X2 \in [Threads -> Transactions]
         /\ \A u \in Threads : X2[u].rwstate = X[u].rwstate
         /\ \A u \in Threads : \A p \in Objects : u # t \/ p # o => X2[u].local[p] = X[u].local[p]
         /\ \A p \in Objects : ValueFits(S2[p], p)
         /\ \A u \in Threads : \A p \in Objects : SeqFits(X2[u].local[p])
         /\ Locks(X2) = Locks(X)
    BY <1>1, <1>5, <1>9, BecomesWhat
  <1>11. IF Adds(v) THEN Takes(C, D, C2, D2, t, v) ELSE Nowhere(C, D, v.entry) /\ Puts(C, D, C2, D2, t, v)
    BY <1>1, <1>4, <1>8, PlusPuts
  <1>12. Apart(C2, D2)
    <2>1. Puts(C, D, C2, D2, t, v) \/ Takes(C, D, C2, D2, t, v)
      BY <1>11
    <2>2. CASE ~Adds(v)
      BY <1>1, <1>5, <1>11, <2>1, <2>2, StillApart
    <2>3. CASE Adds(v)
      <3>1. ~Puts(C, D, C2, D2, t, v)
        BY <1>5, <1>11, <2>3 DEF Puts, Takes, Nowhere
      <3> QED  BY <1>1, <1>5, <2>1, <3>1, StillApart
    <2> QED  BY <2>2, <2>3
  <1>13. A2 \in [Threads -> Nat] /\ A2[t] = a - 1 /\ \A u \in Threads : u # t => A2[u] = A[u]
    BY <1>2
  <1>14. LibTypes(S2, X2, P, L, A2)
    <2>1. \A u \in Threads : A2[u] \in 0 .. Len(L[u])
      BY <1>2, <1>13
    <2> QED  BY <1>1, <1>10, <1>13, <2>1 DEF LibTypes
  <1>15. Touches(C, D, C2, D2, t, v.entry)
    BY <1>11 DEF Puts, Takes
  <1>16. ASSUME NEW p \in Objects, r[p] # "WRLOCKED"
         PROVE  v.entry \in C2[p] <=> v.entry \in C[p]
    <2>1. CASE Adds(v)
      <3>1. v.entry \notin C2[p]
        BY <1>11, <2>1 DEF Takes, Nowhere
      <3>2. v.entry \notin C[p]
        <4>1. CASE InLocal(v)
          BY <1>1, <1>4, <1>5, <2>1, <4>1 DEF Holder, Apart
        <4>2. CASE ~InLocal(v)
          <5>1. p # o
            BY <1>4, <1>16, <4>2
          <5> QED  BY <1>1, <1>4, <1>5, <2>1, <4>2, <5>1 DEF Holder, Apart
        <4> QED  BY <4>1, <4>2
      <3> QED  BY <3>1, <3>2
    <2>2. CASE ~Adds(v)
      <3>1. v.entry \notin C[p]
        BY <1>4, <2>2 DEF Nowhere
      <3>2. v.entry \in C2[p] <=> p = o /\ ~InLocal(v)
        BY <1>11, <2>2 DEF Puts
      <3> QED  BY <1>4, <1>16, <3>1, <3>2
    <2> QED  BY <2>1, <2>2
  <1>17. ASSUME NEW u \in Threads, u # t
         PROVE  ThreadFits(C2, D2, X2[u].rwstate, P[u], L[u], A2[u], u)
    <2>1. \A k \in 1 .. Len(L[u]) : L[u][k].entry # v.entry
      BY <1>1, <1>2, <1>17 DEF LogsDiffer
    <2>2. ThreadFits(C2, D2, X2[u].rwstate, P[u], L[u], A[u], u)
      BY <1>10, <1>15, <1>16, <1>17, <2>1, OthersFit
    <2> QED  BY <1>13, <1>17, <2>2
  <1>18. ThreadFits(C2, D2, X2[t].rwstate, P[t], L[t], A2[t], t)
    <2> HIDE DEF C, D, C2, D2, l, a, r
    <2>1. v = l[a]
      BY DEF l, a
    <2>2. ThreadFits(C2, D2, r, "undo", l, a - 1, t)
      BY <1>2, <1>3, <1>11, <2>1, UndoneFits
    <2> QED  BY <1>10, <1>13, <2>2 DEF l, r
  <1>19. ThreadsFit(S2, X2, P, L, A2)
    BY <1>17, <1>18 DEF ThreadsFit
  <1>20. OrdersFit(X2, P, L, A2)
    BY <1>1, <1>10, <1>13 DEF OrdersFit
  <1> QED  BY <1>1, <1>10, <1>12, <1>14, <1>19, <1>20 DEF LibInv

LEMMA EventDelivered ==
    ASSUME NEW S, NEW X, NEW P, NEW L, NEW A, LibInv(S, X, P, L, A), NEW t \in Threads,
           P[t] = "apply", A[t] < Len(L[t]), NEW v, v = L[t][A[t] + 1], NEW o, o = v.object
    PROVE  \E x2, y2 :
              /\ txlib_event_apply(Value(S[o], X[t].local[o]), v) = Value(x2, y2)
              /\ \A S2, X2, A2 : Becomes(S, X, S2, X2, t, o, x2, y2) /\ A2 = [A EXCEPT ![t] = A[t] + 1]
                                    => LibInv(S2, X2, P, L, A2)
  <1> DEFINE C == Shared(S)  D == Locals(X)  l == L[t]  a == A[t]  x == S[o]  y == X[t].local[o]
             r == X[t].rwstate  moves == v.op \in Pushing /\ y # <<>> /\ Head(y) = v.entry
  <1>1. /\ LibTypes(S, X, P, L, A) /\ Apart(C, D) /\ Exclusive(Locks(X)) /\ LogsDiffer(L)
        /\ ThreadsFit(S, X, P, L, A) /\ OrdersFit(X, P, L, A)
    BY DEF LibInv
  <1>2. l \in Seq(LogEvents) /\ a \in Nat /\ a < Len(l) /\ L \in [Threads -> Seq(LogEvents)]
        /\ A \in [Threads -> Nat] /\ \A u \in Threads : A[u] \in 0 .. Len(L[u])
    BY <1>1 DEF LibTypes
  <1>3. a + 1 \in 1 .. Len(l)
    BY <1>2
  <1>4. v \in LogEvents
    BY <1>2, <1>3
  <1>5. o \in Objects
    BY <1>4, EventIs
  <1>6. ValueFits(x, o) /\ SeqFits(y)
    BY <1>1, <1>5 DEF LibTypes
  <1>7. C[o] = Contents(x, o) /\ D[t][o] = ToSet(y)
    BY <1>5 DEF Shared, Locals
  <1>8. \A e \in ToSet(y) : e \notin Contents(x, o)
    BY <1>1, <1>5, <1>7 DEF Apart
  <1>9. IF moves
        THEN \E x2 : /\ txlib_event_apply(Value(x, y), v) = Value(x2, Tail(y))
                     /\ ValueFits(x2, o) /\ SeqFits(Tail(y))
                     /\ v.entry \in ToSet(y) /\ ToSet(Tail(y)) = ToSet(y) \ {v.entry}
                     /\ Contents(x2, o) = Contents(x, o) \cup {v.entry}
        ELSE txlib_event_apply(Value(x, y), v) = Value(x, y)
    <2> HIDE DEF x, y
    <2> QED  BY <1>4, <1>6, <1>8, EventApplied DEF moves
  <1>10. PICK x2, y2 :
            /\ txlib_event_apply(Value(x, y), v) = Value(x2, y2)
            /\ ValueFits(x2, o) /\ SeqFits(y2)
            /\ IF moves THEN /\ v.entry \in ToSet(y) /\ ToSet(y2) = ToSet(y) \ {v.entry}
                             /\ Contents(x2, o) = Contents(x, o) \cup {v.entry} /\ y2 = Tail(y)
                        ELSE x2 = x /\ y2 = y
    <2> HIDE DEF x, y, moves
    <2> QED  BY <1>6, <1>9
  <1> SUFFICES ASSUME NEW S2, NEW X2, NEW A2, Becomes(S, X, S2, X2, t, o, x2, y2),
                      A2 = [A EXCEPT ![t] = a + 1]
               PROVE  LibInv(S2, X2, P, L, A2)
    BY <1>10
  <1> DEFINE C2 == Shared(S2)  D2 == Locals(X2)
  <1>0. ValueFits(x2, o) /\ SeqFits(y2)
    BY <1>10
  <1>11. /\ S2 = [p \in Objects |-> S2[p]] /\ X2 \in [Threads -> Transactions]
         /\ \A u \in Threads : X2[u].rwstate = X[u].rwstate
         /\ X2[t].local[o] = y2
         /\ \A u \in Threads : \A p \in Objects : u # t \/ p # o => X2[u].local[p] = X[u].local[p]
         /\ \A p \in Objects : ValueFits(S2[p], p)
         /\ \A u \in Threads : \A p \in Objects : SeqFits(X2[u].local[p])
         /\ Locks(X2) = Locks(X)
         /\ C2[o] = Contents(x2, o) /\ \A p \in Objects : p # o => C2[p] = C[p]
         /\ D2[t][o] = ToSet(y2)
         /\ \A u \in Threads : \A p \in Objects : u # t \/ p # o => D2[u][p] = D[u][p]
    BY <1>0, <1>1, <1>5, BecomesWhat
  <1>12. A2 \in [Threads -> Nat] /\ A2[t] = a + 1 /\ \A u \in Threads : u # t => A2[u] = A[u]
    BY <1>2
  <1>13. LibTypes(S2, X2, P, L, A2)
    <2>1. \A u \in Threads : A2[u] \in 0 .. Len(L[u])
      BY <1>2, <1>12
    <2> QED  BY <1>1, <1>11, <1>12, <2>1 DEF LibTypes
  <1>14. ThreadFits(C, D, r, "apply", l, a, t)
    BY <1>1 DEF ThreadsFit
  <1>15. /\ Apart(C2, D2) /\ ThreadFits(C2, D2, r, "apply", l, a + 1, t)
         /\ \A u \in Threads : u # t => ThreadFits(C2, D2, X2[u].rwstate, P[u], L[u], A[u], u)
    <2> HIDE DEF C, D, C2, D2, l, a, r
    <2>1. CASE moves
      <3> DEFINE e == v.entry
      <3>0. /\ C2[o] = C[o] \cup {e} /\ D2[t][o] = D[t][o] \ {e} /\ e \in D[t][o]
            /\ \A p \in Objects : p # o => C2[p] = C[p]
            /\ \A u \in Threads : \A p \in Objects : u # t \/ p # o => D2[u][p] = D[u][p]
        BY <1>7, <1>10, <1>11, <2>1
      <3> HIDE DEF e
      <3>1. Touches(C, D, C2, D2, t, e)
        <4>2. \A p \in Objects : \A z : z # e => (z \in C2[p] <=> z \in C[p])
          BY <3>0
        <4>3. \A u \in Threads : \A p \in Objects : \A z : z # e \/ u # t => (z \in D2[u][p] <=> z \in D[u][p])
          BY <3>0
        <4> QED  BY <4>2, <4>3 DEF Touches
      <3>2. Delivers(C, D, C2, D2, t, o, e)
        <4>1. Apart(C, D)
          BY <1>1 DEF C, D
        <4>2. \A p \in Objects : e \in C2[p] <=> p = o
          BY <1>5, <3>0, <4>1 DEF Apart
        <4>3. \A p \in Objects : e \notin D2[t][p]
          BY <1>5, <3>0, <4>1 DEF Apart
        <4> QED  BY <3>0, <3>1, <4>2, <4>3 DEF Delivers
      <3>3. Apart(C2, D2) /\ ThreadFits(C2, D2, r, "apply", l, a + 1, t) /\ r[o] = "WRLOCKED"
        <4>1. Apart(C, D) /\ ThreadFits(C, D, r, "apply", l, a, t)
          BY <1>1, <1>14 DEF C, D, l, a, r
        <4>2. r[o] = "WRLOCKED"
          BY <1>5, <3>0, <4>1 DEF ThreadFits, PhaseFits
        <4>3. Apart(C2, D2)
          BY <1>5, <3>2, <4>1, DeliveredFits
        <4>4. \A b : ThreadFits(C2, D2, r, "apply", l, b, t)
          BY <1>5, <3>2, <4>1, DeliveredFits
        <4> QED  BY <4>2, <4>3, <4>4
      <3>4. ASSUME NEW p \in Objects, r[p] # "WRLOCKED"
            PROVE  e \in C2[p] <=> e \in C[p]
        BY <3>0, <3>3, <3>4
      <3>5. ASSUME NEW u \in Threads, u # t
            PROVE  ThreadFits(C2, D2, X2[u].rwstate, P[u], L[u], A[u], u)
        <4>1. \A k \in 1 .. Len(L[u]) : L[u][k].entry # e
          BY <1>1, <1>2, <1>3, <3>5 DEF LogsDiffer, l, a, e
        <4>2. \A w \in Threads : X2[w].rwstate = X[w].rwstate
          BY <1>11
        <4>3. Touches(Shared(S), Locals(X), Shared(S2), Locals(X2), t, e)
          BY <3>1 DEF C, D, C2, D2
        <4>4. \A p \in Objects : X[t].rwstate[p] # "WRLOCKED" =>
                  (e \in Shared(S2)[p] <=> e \in Shared(S)[p])
          BY <3>4 DEF C, C2, r
        <4> QED  BY <3>5, <4>1, <4>2, <4>3, <4>4, OthersFit DEF C2, D2
      <3> QED  BY <3>3, <3>5
    <2>2. CASE ~moves
      <3>1. x2 = x /\ y2 = y
        BY <1>10, <2>2
      <3>2. \A p \in Objects : C2[p] = C[p]
        BY <1>7, <1>11, <3>1
      <3>3. \A u \in Threads : \A p \in Objects : D2[u][p] = D[u][p]
        BY <1>7, <1>11, <3>1
      <3>4. C2 = C /\ D2 = D
        <4>1. C2 = [p \in Objects |-> C2[p]] /\ C = [p \in Objects |-> C[p]]
          BY DEF C, C2, Shared
        <4>2. C2 = C
          BY <3>2, <4>1
        <4>3. \A u \in Threads : D2[u] = D[u]
          <5> SUFFICES ASSUME NEW u \in Threads PROVE D2[u] = D[u]
            OBVIOUS
          <5>1. D2[u] = [p \in Objects |-> D2[u][p]] /\ D[u] = [p \in Objects |-> D[u][p]]
            BY DEF D, D2, Locals
          <5> QED  BY <3>3, <5>1
        <4>4. D2 = [u \in Threads |-> D2[u]] /\ D = [u \in Threads |-> D[u]]
          BY DEF D, D2, Locals
        <4>5. D2 = D
          BY <4>3, <4>4
        <4> QED  BY <4>2, <4>5
      <3>5. ThreadFits(C, D, r, "apply", l, a + 1, t)
        BY <1>14 DEF ThreadFits, PhaseFits
      <3>6. \A u \in Threads : ThreadFits(C, D, X[u].rwstate, P[u], L[u], A[u], u)
        BY <1>1 DEF ThreadsFit, C, D
      <3> QED  BY <1>1, <1>11, <3>4, <3>5, <3>6
    <2> QED  BY <2>1, <2>2
  <1>16. ThreadsFit(S2, X2, P, L, A2)
    BY <1>11, <1>12, <1>15 DEF ThreadsFit
  <1>17. OrdersFit(X2, P, L, A2)
    <2> SUFFICES ASSUME NEW u \in Threads, P[u] # "undo", NEW p \in Objects
                 PROVE  OrderFits(X2[u].local[p], L[u], A2[u], p)
      BY DEF OrdersFit
    <2>1. OrderFits(X[u].local[p], L[u], A[u], p)
      BY <1>1 DEF OrdersFit
    <2>2. CASE u # t
      BY <1>11, <1>12, <2>1, <2>2
    <2>3. CASE u = t
      <3>1. PICK z : z = X[t].local[p]
        OBVIOUS
      <3>2. SeqFits(z) /\ OrderFits(z, l, a, p)
        BY <1>1, <2>1, <2>3, <3>1 DEF LibTypes
      <3>3. /\ ~(z # <<>> /\ Pushes(l[a + 1], p, Head(z))) => OrderFits(z, l, a + 1, p)
            /\ z # <<>> => OrderFits(Tail(z), l, a + 1, p)
        <4> HIDE DEF l, a
        <4> QED  BY <1>2, <3>2, OrderPassed
      <3>4. CASE p # o
        BY <1>11, <1>12, <2>3, <3>1, <3>3, <3>4 DEF Pushes
      <3>5. CASE p = o /\ moves
        BY <1>10, <1>11, <1>12, <2>3, <3>1, <3>3, <3>5
      <3>6. CASE p = o /\ ~moves
        BY <1>10, <1>11, <1>12, <2>3, <3>1, <3>3, <3>6 DEF Pushes
      <3> QED  BY <3>4, <3>5, <3>6
    <2> QED  BY <2>2, <2>3
  <1> QED  BY <1>1, <1>11, <1>13, <1>15, <1>16, <1>17 DEF LibInv

(* A transaction begins, prepares its commit, commits, or turns back.      *)
PhaseStep(X, P, L, A, P2, A2, t, q) ==
    /\ P2 = [P EXCEPT ![t] = q]
    /\ \/ q = "run" /\ P[t] = "out" /\ A2 = A
       \/ q = "prepare" /\ P[t] = "run" /\ A2 = A
       \/ /\ q = "apply" /\ P[t] = "prepare" /\ A2 = A
          /\ \A o \in Objects : X[t].local[o] # <<>> => X[t].rwstate[o] = "WRLOCKED"
       \/ q = "undo" /\ P[t] \in {"run", "prepare"} /\ A2 = [A EXCEPT ![t] = Len(L[t])]

LEMMA PhaseChanged ==
    ASSUME NEW S, NEW X, NEW P, NEW L, NEW A, LibInv(S, X, P, L, A), NEW t \in Threads,
           NEW P2, NEW A2, NEW q, PhaseStep(X, P, L, A, P2, A2, t, q)
    PROVE  LibInv(S, X, P2, L, A2)
  <1> DEFINE C == Shared(S)  D == Locals(X)  r == X[t].rwstate
  <1>1. /\ LibTypes(S, X, P, L, A) /\ Apart(C, D) /\ Exclusive(Locks(X)) /\ LogsDiffer(L)
        /\ ThreadsFit(S, X, P, L, A) /\ OrdersFit(X, P, L, A)
    BY DEF LibInv
  <1>2. /\ P \in [Threads -> Phases] /\ L \in [Threads -> Seq(LogEvents)] /\ A \in [Threads -> Nat]
        /\ \A u \in Threads : A[u] \in 0 .. Len(L[u])
        /\ \A o \in Objects : SeqFits(X[t].local[o])
    BY <1>1 DEF LibTypes
  <1>3. q \in Phases /\ P2 \in [Threads -> Phases] /\ P2[t] = q /\ \A u \in Threads : u # t => P2[u] = P[u]
    BY <1>2 DEF PhaseStep, Phases
  <1>4. L[t] \in Seq(LogEvents) /\ Len(L[t]) \in Nat
    BY <1>2
  <1>5. /\ A2 \in [Threads -> Nat] /\ \A u \in Threads : A2[u] \in 0 .. Len(L[u])
        /\ \A u \in Threads : u # t => A2[u] = A[u]
    BY <1>2, <1>4 DEF PhaseStep
  <1>6. LibTypes(S, X, P2, L, A2)
    BY <1>1, <1>3, <1>5 DEF LibTypes
  <1>7. ThreadFits(C, D, r, P[t], L[t], A[t], t)
    BY <1>1 DEF ThreadsFit
  <1>8. \/ q = "run" /\ P[t] = "out" /\ A2 = A
        \/ q = "prepare" /\ P[t] = "run" /\ A2 = A
        \/ /\ q = "apply" /\ P[t] = "prepare" /\ A2 = A
           /\ \A o \in Objects : X[t].local[o] # <<>> => X[t].rwstate[o] = "WRLOCKED"
        \/ q = "undo" /\ P[t] \in {"run", "prepare"} /\ A2[t] = Len(L[t])
    BY <1>2 DEF PhaseStep
  <1>9. ThreadFits(C, D, r, P2[t], L[t], A2[t], t)
    <2> HIDE DEF C, D, r
    <2>1. CASE q = "run" /\ P[t] = "out" /\ A2 = A
      BY <1>3, <1>4, <1>7, <2>1, PhasesFit
    <2>2. CASE q = "prepare" /\ P[t] = "run" /\ A2 = A
      BY <1>3, <1>4, <1>7, <2>2, PhasesFit
    <2>3. CASE /\ q = "apply" /\ P[t] = "prepare" /\ A2 = A
               /\ \A o \in Objects : X[t].local[o] # <<>> => X[t].rwstate[o] = "WRLOCKED"
      <3>1. \A o \in Objects : D[t][o] # {} => r[o] = "WRLOCKED"
        <4> SUFFICES ASSUME NEW o \in Objects, D[t][o] # {} PROVE r[o] = "WRLOCKED"
          OBVIOUS
        <4>1. D[t][o] = ToSet(X[t].local[o])
          BY DEF D, Locals
        <4>2. ToSet(<<>>) = {}
          BY DEF ToSet
        <4>3. X[t].local[o] # <<>>
          BY <4>1, <4>2
        <4> QED  BY <2>3, <4>3 DEF r
      <3> QED  BY <1>3, <1>4, <1>7, <2>3, <3>1, PhasesFit
    <2>4. CASE q = "undo" /\ P[t] \in {"run", "prepare"} /\ A2[t] = Len(L[t])
      BY <1>3, <1>4, <1>7, <2>4, PhasesFit
    <2> QED  BY <1>8, <2>1, <2>2, <2>3, <2>4
  <1>10. ThreadsFit(S, X, P2, L, A2)
    BY <1>1, <1>3, <1>5, <1>9 DEF ThreadsFit
  <1>11. OrdersFit(X, P2, L, A2)
    <2> SUFFICES ASSUME NEW u \in Threads, P2[u] # "undo", NEW o \in Objects
                 PROVE  OrderFits(X[u].local[o], L[u], A2[u], o)
      BY DEF OrdersFit
    <2>1. P[u] # "undo" /\ A2[u] = A[u]
      BY <1>3, <1>5, <1>8
    <2> QED  BY <1>1, <2>1 DEF OrdersFit
  <1> QED  BY <1>1, <1>6, <1>10, <1>11 DEF LibInv

LEMMA NothingLeft ==
    ASSUME NEW S, NEW X, NEW P, NEW L, NEW A, LibInv(S, X, P, L, A), NEW t \in Threads,
           \/ P[t] = "apply" /\ A[t] = Len(L[t])
           \/ P[t] = "undo" /\ A[t] = 0
           \/ P[t] = "out",
           NEW o \in Objects
    PROVE  X[t].local[o] = <<>>
  <1> DEFINE y == X[t].local[o]
  <1>1. SeqFits(y) /\ L[t] \in Seq(LogEvents) /\ Len(L[t]) \in Nat
    BY DEF LibInv, LibTypes
  <1>2. ThreadFits(Shared(S), Locals(X), X[t].rwstate, P[t], L[t], A[t], t)
    BY DEF LibInv, ThreadsFit
  <1>3. CASE P[t] = "apply" /\ A[t] = Len(L[t])
    <2>1. OrderFits(y, L[t], Len(L[t]), o)
      BY <1>3 DEF LibInv, OrdersFit
    <2> HIDE DEF y
    <2> QED  BY <1>1, <2>1, OrderEnds DEF SeqFits, y
  <1>4. CASE (P[t] = "undo" /\ A[t] = 0) \/ P[t] = "out"
    <2>1. Active(P[t], L[t], A[t]) = 0
      BY <1>2, <1>4 DEF Active, ThreadFits, PhaseFits
    <2>2. Locals(X)[t][o] = {}
      BY <1>2, <1>4, <2>1 DEF ThreadFits, FromLog
    <2>3. ToSet(y) = {}
      BY <2>2 DEF Locals
    <2>4. y # <<>> => Head(y) \in ToSet(y)
      BY <1>1, EntryRemoved
    <2> QED  BY <2>3, <2>4
  <1> QED  BY <1>3, <1>4

LEMMA TransactionEnds ==
    ASSUME NEW S, NEW X, NEW P, NEW L, NEW A, LibInv(S, X, P, L, A), NEW t \in Threads,
           (P[t] = "apply" /\ A[t] = Len(L[t])) \/ (P[t] = "undo" /\ A[t] = 0),
           NEW X2, X2 = [X EXCEPT ![t].rwstate = [o \in Objects |-> "UNLOCKED"]],
           NEW P2, P2 = [P EXCEPT ![t] = "out"],
           NEW L2, L2 = [L EXCEPT ![t] = <<>>],
           NEW A2, A2 = [A EXCEPT ![t] = 0]
    PROVE  LibInv(S, X2, P2, L2, A2)
  <1> DEFINE C == Shared(S)  D == Locals(X)
  <1>1. /\ LibTypes(S, X, P, L, A) /\ Apart(C, D) /\ Exclusive(Locks(X)) /\ LogsDiffer(L)
        /\ ThreadsFit(S, X, P, L, A) /\ OrdersFit(X, P, L, A)
    BY DEF LibInv
  <1>2. /\ X \in [Threads -> Transactions]
        /\ P \in [Threads -> Phases] /\ L \in [Threads -> Seq(LogEvents)] /\ A \in [Threads -> Nat]
        /\ \A u \in Threads : A[u] \in 0 .. Len(L[u])
    BY <1>1 DEF LibTypes
  <1>3. /\ X2 \in [Threads -> Transactions] /\ X2[t].rwstate = [o \in Objects |-> "UNLOCKED"]
        /\ \A u \in Threads : X2[u].local = X[u].local
        /\ \A u \in Threads : u # t => X2[u].rwstate = X[u].rwstate
    BY <1>2 DEF Transactions, Statuses
  <1>4. P2 \in [Threads -> Phases] /\ P2[t] = "out" /\ \A u \in Threads : u # t => P2[u] = P[u]
    BY <1>2 DEF Phases
  <1>5. L2 \in [Threads -> Seq(LogEvents)] /\ L2[t] = <<>> /\ \A u \in Threads : u # t => L2[u] = L[u]
    BY <1>2
  <1>6. A2 \in [Threads -> Nat] /\ A2[t] = 0 /\ \A u \in Threads : u # t => A2[u] = A[u]
    BY <1>2
  <1>7. Len(L2[t]) = 0
    BY <1>5
  <1>8. LibTypes(S, X2, P2, L2, A2)
    <2>1. \A u \in Threads : A2[u] \in 0 .. Len(L2[u])
      BY <1>2, <1>5, <1>6, <1>7
    <2>2. \A u \in Threads : \A o \in Objects : SeqFits(X2[u].local[o])
      BY <1>1, <1>3 DEF LibTypes
    <2> QED  BY <1>1, <1>3, <1>4, <1>5, <1>6, <2>1, <2>2 DEF LibTypes
  <1>9. Locals(X2) = D
    BY <1>3 DEF Locals
  <1>10. Exclusive(Locks(X2))
    <2> SUFFICES ASSUME NEW u \in Threads, NEW w \in Threads, u # w, NEW o \in Objects,
                        X2[u].rwstate[o] = "WRLOCKED"
                 PROVE  X2[w].rwstate[o] = "UNLOCKED"
      BY DEF Exclusive, Locks
    <2>1. u # t
      BY <1>3
    <2>2. X[u].rwstate[o] = "WRLOCKED"
      BY <1>3, <2>1
    <2>3. X[w].rwstate[o] = "UNLOCKED"
      BY <1>1, <2>2 DEF Exclusive, Locks
    <2> QED  BY <1>3, <2>3
  <1>11. LogsDiffer(L2)
    <2> SUFFICES ASSUME NEW u \in Threads, NEW w \in Threads, u # w,
                        NEW j \in 1 .. Len(L2[u]), NEW k \in 1 .. Len(L2[w])
                 PROVE  L2[u][j].entry # L2[w][k].entry
      BY DEF LogsDiffer
    <2>1. u # t /\ w # t
      BY <1>7
    <2> QED  BY <1>1, <1>5, <2>1 DEF LogsDiffer
  <1>12. \A o \in Objects : X[t].local[o] = <<>>
    BY NothingLeft
  <1>13. \A o \in Objects : D[t][o] = {}
    BY <1>12 DEF Locals, ToSet
  <1>14. ThreadFits(C, D, X2[t].rwstate, P2[t], L2[t], A2[t], t)
    <2> HIDE DEF C, D
    <2>1. ThreadFits(C, D, [o \in Objects |-> "UNLOCKED"], "out", <<>>, 0, t)
      BY <1>13, EndFits
    <2> QED  BY <1>3, <1>4, <1>5, <1>6, <2>1
  <1>15. ThreadsFit(S, X2, P2, L2, A2)
    <2> SUFFICES ASSUME NEW u \in Threads
                 PROVE  ThreadFits(C, D, X2[u].rwstate, P2[u], L2[u], A2[u], u)
      BY <1>9 DEF ThreadsFit
    <2>1. u # t => ThreadFits(C, D, X[u].rwstate, P[u], L[u], A[u], u)
      BY <1>1 DEF ThreadsFit
    <2> QED  BY <1>3, <1>4, <1>5, <1>6, <1>14, <2>1
  <1>16. OrdersFit(X2, P2, L2, A2)
    <2> SUFFICES ASSUME NEW u \in Threads, P2[u] # "undo", NEW o \in Objects
                 PROVE  OrderFits(X2[u].local[o], L2[u], A2[u], o)
      BY DEF OrdersFit
    <2>1. CASE u = t
      <3>1. X2[u].local[o] = <<>>
        BY <1>3, <1>12, <2>1
      <3> QED  BY <3>1, NoOrder
    <2>2. CASE u # t
      <3>1. OrderFits(X[u].local[o], L[u], A[u], o)
        BY <1>1, <1>4, <2>2 DEF OrdersFit
      <3> QED  BY <1>3, <1>5, <1>6, <2>2, <3>1
    <2> QED  BY <2>1, <2>2
  <1> QED  BY <1>1, <1>8, <1>9, <1>10, <1>11, <1>15, <1>16 DEF LibInv

-----------------------------------------------------------------------------
(* The events of a call.                                                   *)

AfterEvents(z, ev, f, n) ==
    f[0] = z /\ \A j \in 1 .. n : f[j] = txlib_event_exec(f[j - 1], ev[j])

EventsFrom(f, z, ev, n) == f = [j \in 0 .. n |-> IF j = 0 THEN z ELSE txlib_event_exec(f[j - 1], ev[j])]

LEMMA AfterExists ==
    ASSUME NEW z, NEW ev, NEW n \in Nat
    PROVE  \E f : EventsFrom(f, z, ev, n)
  <1> DEFINE Eq(f, k) == f = [j \in 0 .. k |-> IF j = 0 THEN z ELSE txlib_event_exec(f[j - 1], ev[j])]
             T == {k \in Nat : \E f : Eq(f, k)}
  <1>1. 0 \in T
    <2> DEFINE f == [j \in 0 .. 0 |-> z]
    <2>1. f[0] = z
      OBVIOUS
    <2>2. \A j \in 0 .. 0 : z = IF j = 0 THEN z ELSE txlib_event_exec(f[j - 1], ev[j])
      OBVIOUS
    <2>3. Eq(f, 0)
      BY <2>2
    <2> QED  BY <2>3
  <1>2. ASSUME NEW k \in T PROVE k + 1 \in T
    <2>1. PICK f : Eq(f, k)
      OBVIOUS
    <2> DEFINE g == [j \in 0 .. k + 1 |-> IF j = k + 1 THEN txlib_event_exec(f[k], ev[j]) ELSE f[j]]
    <2>2. k \in Nat /\ k + 1 \in Nat
      OBVIOUS
    <2>3. \A j \in 0 .. k : f[j] = IF j = 0 THEN z ELSE txlib_event_exec(f[j - 1], ev[j])
      BY <2>1
    <2>4. \A j \in 0 .. k + 1 : g[j] = IF j = k + 1 THEN txlib_event_exec(f[k], ev[j]) ELSE f[j]
      OBVIOUS
    <2>5. g = [j \in 0 .. k + 1 |-> g[j]]
      OBVIOUS
    <2> HIDE DEF g
    <2>6. ASSUME NEW j \in 0 .. k + 1
          PROVE  g[j] = IF j = 0 THEN z ELSE txlib_event_exec(g[j - 1], ev[j])
      <3>1. CASE j = 0
        BY <2>2, <2>3, <2>4, <3>1
      <3>2. CASE j # 0 /\ j # k + 1
        <4>1. j \in 0 .. k /\ j - 1 \in 0 .. k + 1 /\ j - 1 # k + 1
          BY <2>2, <3>2
        <4>2. g[j] = f[j] /\ g[j - 1] = f[j - 1]
          BY <2>4, <3>2, <4>1
        <4> QED  BY <2>3, <3>2, <4>1, <4>2
      <3>3. CASE j = k + 1
        <4>1. j - 1 = k /\ k \in 0 .. k + 1 /\ k # k + 1 /\ j # 0
          BY <2>2, <3>3
        <4>2. g[k] = f[k] /\ g[j] = txlib_event_exec(f[k], ev[j])
          BY <2>4, <3>3, <4>1
        <4> QED  BY <4>1, <4>2
      <3> QED  BY <3>1, <3>2, <3>3
    <2>7. Eq(g, k + 1)
      BY <2>5, <2>6
    <2> QED  BY <2>2, <2>7
  <1> HIDE DEF T
  <1>3. T = Nat
    <2>1. T \subseteq Nat
      BY DEF T
    <2> QED  BY <1>1, <1>2, <2>1, UpwardInduction
  <1> QED  BY <1>3 DEF T, EventsFrom

PrefixesFit(l, ev) ==
    /\ l \o SubSeq(ev, 1, 0) = l /\ SubSeq(ev, 1, Len(ev)) = ev
    /\ \A k \in Nat : k < Len(ev) =>
          l \o SubSeq(ev, 1, k + 1) = Append(l \o SubSeq(ev, 1, k), ev[k + 1])

LEMMA LoggedPrefixes ==
    ASSUME NEW l \in Seq(LogEvents), NEW ev \in Seq(LogEvents)
    PROVE  PrefixesFit(l, ev)
  <1>1. SubSeq(ev, 1, 0) = <<>>
    OBVIOUS
  <1>2. SubSeq(ev, 1, Len(ev)) = ev
    OBVIOUS
  <1>3. ASSUME NEW k \in Nat, k < Len(ev)
        PROVE  l \o SubSeq(ev, 1, k + 1) = Append(l \o SubSeq(ev, 1, k), ev[k + 1])
    <2>1. PICK n \in Nat : n = k + 1 /\ n <= Len(ev)
      BY <1>3
    <2>0. ASSUME NEW m \in Nat, m <= Len(ev)
          PROVE  /\ SubSeq(ev, 1, m) \in Seq(LogEvents) /\ Len(SubSeq(ev, 1, m)) = m
                 /\ \A i \in 1 .. m : SubSeq(ev, 1, m)[i] = ev[i]
      BY <2>0
    <2>2. PICK x \in Seq(LogEvents) : x = SubSeq(ev, 1, k) /\ Len(x) = k /\ \A i \in 1 .. k : x[i] = ev[i]
      <3>1. k <= Len(ev)
        BY <1>3
      <3> QED  BY <2>0, <3>1, Zenon
    <2>3. PICK y \in Seq(LogEvents) : y = SubSeq(ev, 1, n) /\ Len(y) = n /\ \A i \in 1 .. n : y[i] = ev[i]
      BY <2>0, <2>1, Zenon
    <2>4. ev[n] \in LogEvents
      BY <2>1
    <2>5. y = Append(x, ev[n])
      BY <2>1, <2>2, <2>3, <2>4
    <2>6. l \o Append(x, ev[n]) = Append(l \o x, ev[n])
      BY <2>4
    <2> QED  BY <2>1, <2>2, <2>3, <2>5, <2>6
  <1>4. l \o <<>> = l
    OBVIOUS
  <1>5. l \o SubSeq(ev, 1, 0) = l
    BY <1>1, <1>4
  <1> QED  BY <1>2, <1>3, <1>5, Zenon DEF PrefixesFit

Remaining(x, o, ev, k) == Contents(x, o) \ {ev[i].entry : i \in 1 .. k}

(* The events take entries of o away, one after another.                   *)
Erases(x, o, ev) ==
    \A k \in 1 .. Len(ev) :
        /\ ev[k].op \in {"LIST_ERASE", "MULTISET_ERASE"}
        /\ ev[k].entry \in Remaining(x, o, ev, k - 1)
        /\ ev[k].op = "LIST_ERASE" /\ ev[k].position # HEAD =>
               ev[k].position \in Remaining(x, o, ev, k - 1) \ {ev[k].entry}

Suitable(S, X, L, t, o, ev) ==
    /\ ev \in Seq(LogEvents) /\ \A k \in 1 .. Len(ev) : ev[k].object = o
    /\ \/ Len(ev) = 1 /\ MayLog(S, X, L, t, ev[1])
       \/ X[t].rwstate[o] = "WRLOCKED" /\ Erases(S[o], o, ev)
       \/ ev = <<>>

(* The state after the events that led to record z of o and t.             *)
StateWith(S, o, z) == [S EXCEPT ![o] = z.state]
TxWith(X, t, o, z) == [X EXCEPT ![t].local[o] = z.local]

Logs(S, X, P, L, A, t, v, o, z, L2) ==
    /\ LibInv(S, X, P, L, A) /\ t \in Threads /\ P[t] = "run"
    /\ MayLog(S, X, L, t, v) /\ o = v.object
    /\ z = txlib_event_exec(Value(S[o], X[t].local[o]), v)
    /\ L2 = [L EXCEPT ![t] = Append(L[t], v)]

LEMMA OneLogged ==
    ASSUME Risks = {}, NEW S, NEW X, NEW P, NEW L, NEW A, NEW t, NEW v, NEW o, NEW z, NEW L2,
           Logs(S, X, P, L, A, t, v, o, z, L2)
    PROVE  /\ LibInv(StateWith(S, o, z), TxWith(X, t, o, z), P, L2, A)
           /\ z = Value(z.state, z.local)
           /\ ~Adds(v) /\ ~InLocal(v) => Contents(z.state, o) = Contents(S[o], o) \ {v.entry}
  <1> USE DEF Logs
  <1> DEFINE x == S[o]  y == X[t].local[o]
  <1>1. v \in LogEvents /\ o \in Objects /\ Ready(x, y, v)
    BY EventIs DEF MayLog
  <1>2. ValueFits(x, o) /\ SeqFits(y)
    BY <1>1 DEF LibInv, LibTypes
  <1>3. PICK x2, y2 :
              /\ txlib_event_exec(Value(x, y), v) = Value(x2, y2)
              /\ IF Adds(v) THEN Plus(x, y, x2, y2, v) ELSE Minus(x, y, x2, y2, v)
              /\ InLocal(v) /\ Adds(v) => y2 = Append(y, v.entry)
              /\ InLocal(v) /\ ~Adds(v) => y # <<>> /\ y2 \in {Tail(y), Front(y)}
    <2> HIDE DEF x, y
    <2> QED  BY <1>1, <1>2, EventExecuted
  <1>4. z = Value(x2, y2) /\ z.state = x2 /\ z.local = y2
    BY <1>3 DEF Value
  <1>5. PICK S2, X2 : S2 = StateWith(S, o, z) /\ X2 = TxWith(X, t, o, z)
    OBVIOUS
  <1>6. Carries(S, X, S2, X2, t, v, x2, y2)
    BY <1>3, <1>4, <1>5 DEF Carries, Becomes, StateWith, TxWith
  <1>7. LibInv(S2, X2, P, L2, A)
    BY <1>6, EventLogged
  <1> QED  BY <1>3, <1>4, <1>5, <1>7 DEF Minus

LEMMA EventsLogged ==
    ASSUME Risks = {}, NEW S, NEW X, NEW P, NEW L, NEW A, LibInv(S, X, P, L, A), NEW t \in Threads, P[t] = "run",
           NEW o \in Objects, NEW ev, Suitable(S, X, L, t, o, ev),
           NEW f, AfterEvents(Value(S[o], X[t].local[o]), ev, f, Len(ev)),
           NEW S2, S2 = StateWith(S, o, f[Len(ev)]),
           NEW X2, X2 = TxWith(X, t, o, f[Len(ev)]),
           NEW L2, L2 = [L EXCEPT ![t] = L[t] \o ev]
    PROVE  LibInv(S2, X2, P, L2, A)
  <1>1. /\ S = [p \in Objects |-> S[p]] /\ DOMAIN S = Objects /\ X \in [Threads -> Transactions] /\ L \in [Threads -> Seq(LogEvents)]
        /\ L[t] \in Seq(LogEvents) /\ DOMAIN L = Threads
    BY DEF LibInv, LibTypes
  <1>2. ev \in Seq(LogEvents) /\ Len(ev) \in Nat /\ \A k \in 1 .. Len(ev) : ev[k].object = o /\ ev[k] \in LogEvents
    BY DEF Suitable
  <1>3. /\ f[0] = Value(S[o], X[t].local[o])
        /\ \A j \in 1 .. Len(ev) : f[j] = txlib_event_exec(f[j - 1], ev[j])
    BY DEF AfterEvents
  <1>4. /\ StateWith(S, o, f[0]) = S /\ TxWith(X, t, o, f[0]) = X /\ [L EXCEPT ![t] = L[t]] = L
        /\ f[0] = Value(f[0].state, f[0].local)
    <2>1. f[0].state = S[o] /\ f[0].local = X[t].local[o] /\ f[0] = Value(f[0].state, f[0].local)
      BY <1>3 DEF Value
    <2>2. [S EXCEPT ![o] = S[o]] = S /\ [L EXCEPT ![t] = L[t]] = L
      BY <1>1
    <2>3. [X EXCEPT ![t].local[o] = X[t].local[o]] = X
      <3>1. PICK w \in Transactions : w = X[t]
        BY <1>1
      <3>2. [w EXCEPT !.local[o] = w.local[o]] = w
        BY DEF Transactions
      <3>3. [X EXCEPT ![t] = w] = X
        BY <1>1, <3>1
      <3> QED  BY <1>1, <3>1, <3>2, <3>3
    <2> QED  BY <2>1, <2>2, <2>3 DEF StateWith, TxWith
  <1>8. PICK l \in Seq(LogEvents) : l = L[t]
    BY <1>1
  <1>9. /\ l \o SubSeq(ev, 1, 0) = l /\ SubSeq(ev, 1, Len(ev)) = ev
        /\ \A k \in Nat : k < Len(ev) =>
              l \o SubSeq(ev, 1, k + 1) = Append(l \o SubSeq(ev, 1, k), ev[k + 1])
    <2>1. PrefixesFit(l, ev)
      BY <1>2, <1>8, LoggedPrefixes
    <2> QED  BY <2>1, Zenon DEF PrefixesFit
  <1>5. CASE ev = <<>>
    <2>1. Len(ev) = 0 /\ L[t] \o ev = L[t]
      BY <1>1, <1>5
    <2> QED  BY <1>4, <2>1
  <1>6. CASE Len(ev) = 1 /\ MayLog(S, X, L, t, ev[1])
    <2>1. f[1] = txlib_event_exec(Value(S[o], X[t].local[o]), ev[1]) /\ ev[1].object = o
      BY <1>2, <1>3, <1>6
    <2>2. L[t] \o ev = Append(L[t], ev[1])
      <3>1. ev = <<ev[1]>> /\ ev[1] \in LogEvents
        BY <1>2, <1>6
      <3>2. \A v \in LogEvents : l \o <<v>> = Append(l, v)
        OBVIOUS
      <3> QED  BY <1>8, <3>1, <3>2
    <2>3. PICK v, z : v = ev[1] /\ z = f[1]
      OBVIOUS
    <2>4. Logs(S, X, P, L, A, t, v, o, z, L2)
      BY <1>6, <2>1, <2>2, <2>3 DEF Logs
    <2>5. LibInv(StateWith(S, o, z), TxWith(X, t, o, z), P, L2, A)
      BY <2>4, OneLogged
    <2> QED  BY <1>6, <2>3, <2>5
  <1>7. CASE X[t].rwstate[o] = "WRLOCKED" /\ Erases(S[o], o, ev)
    <2> DEFINE SS(k) == StateWith(S, o, f[k])  XX(k) == TxWith(X, t, o, f[k])
               LL(k) == [L EXCEPT ![t] = L[t] \o SubSeq(ev, 1, k)]
               Good(k) == /\ LibInv(SS(k), XX(k), P, LL(k), A)
                          /\ f[k] = Value(f[k].state, f[k].local)
                          /\ Contents(f[k].state, o) = Remaining(S[o], o, ev, k)
               T == {k \in Nat : k <= Len(ev) => Good(k)}
    <2>1. 0 \in T
      <3>1. LL(0) = L
        BY <1>4, <1>8, <1>9
      <3>2. Contents(f[0].state, o) = Remaining(S[o], o, ev, 0)
        <4>1. {ev[i].entry : i \in 1 .. 0} = {}
          OBVIOUS
        <4> QED  BY <1>3, <4>1 DEF Value, Remaining
      <3> QED  BY <1>4, <3>1, <3>2
    <2>2. ASSUME NEW k \in T PROVE k + 1 \in T
      <3>0. k \in Nat /\ k + 1 \in Nat
        OBVIOUS
      <3> SUFFICES ASSUME k + 1 <= Len(ev) PROVE Good(k + 1)
        BY <3>0
      <3> DEFINE v == ev[k + 1]
      <3>1. Good(k) /\ k + 1 \in 1 .. Len(ev) /\ k < Len(ev) /\ (k + 1) - 1 = k
        BY <1>2, <3>0
      <3>2. PICK S1, X1, L1 : S1 = SS(k) /\ X1 = XX(k) /\ L1 = LL(k)
        OBVIOUS
      <3>3. /\ S1[o] = f[k].state /\ X1[t].local[o] = f[k].local /\ X1[t].rwstate = X[t].rwstate
        BY <1>1, <3>2 DEF StateWith, TxWith, Transactions
      <3>4. Value(S1[o], X1[t].local[o]) = f[k]
        BY <3>1, <3>3
      <3>5. v \in LogEvents /\ v.object = o
        BY <1>2, <3>1
      <3>6. /\ v.op \in {"LIST_ERASE", "MULTISET_ERASE"} /\ v.entry \in Remaining(S[o], o, ev, k)
            /\ v.op = "LIST_ERASE" /\ v.position # HEAD => v.position \in Remaining(S[o], o, ev, k) \ {v.entry}
        BY <1>7, <3>1 DEF Erases
      <3>7. Contents(S1[o], o) = Remaining(S[o], o, ev, k)
        BY <3>1, <3>3
      <3>8. ~Adds(v) /\ ~InLocal(v)
        BY <3>5, <3>6, EventIs
      <3> HIDE DEF v, Good, SS, XX, LL
      <3>9. MayLog(S1, X1, L1, t, v)
        <4>1. Ready(S1[o], X1[t].local[o], v)
          BY <3>5, <3>6, <3>7, <3>8 DEF Ready
        <4> QED  BY <1>7, <3>3, <3>5, <3>6, <3>7, <3>8, <4>1 DEF MayLog
      <3>10. LibInv(S1, X1, P, L1, A)
        BY <3>1, <3>2 DEF Good
      <3>11. f[k + 1] = txlib_event_exec(Value(S1[o], X1[t].local[o]), v)
        BY <1>3, <3>1, <3>4 DEF v
      <3>12. PICK L3 : L3 = [L1 EXCEPT ![t] = Append(L1[t], v)]
        OBVIOUS
      <3>13. PICK z : z = f[k + 1]
        OBVIOUS
      <3>14. /\ LibInv(StateWith(S1, o, z), TxWith(X1, t, o, z), P, L3, A)
             /\ z = Value(z.state, z.local)
             /\ Contents(z.state, o) = Contents(S1[o], o) \ {v.entry}
        <4>1. Logs(S1, X1, P, L1, A, t, v, o, z, L3)
          BY <3>5, <3>9, <3>10, <3>11, <3>12, <3>13 DEF Logs
        <4> QED  BY <3>8, <4>1, OneLogged
      <3>15. StateWith(S1, o, z) = SS(k + 1)
        BY <1>1, <3>2, <3>13 DEF StateWith, SS
      <3>16. TxWith(X1, t, o, z) = XX(k + 1)
        BY <1>1, <3>2, <3>13 DEF TxWith, XX, Transactions
      <3>17. L3 = LL(k + 1)
        <4>1. L[t] \o SubSeq(ev, 1, k + 1) = Append(L[t] \o SubSeq(ev, 1, k), v)
          BY <1>8, <1>9, <3>0, <3>1 DEF v
        <4>2. L1[t] = L[t] \o SubSeq(ev, 1, k)
          BY <1>1, <3>2 DEF LL
        <4> QED  BY <1>1, <3>2, <3>12, <4>1, <4>2 DEF LL
      <3>18. Contents(z.state, o) = Remaining(S[o], o, ev, k + 1)
        <4>1. {ev[i].entry : i \in 1 .. k + 1} = {ev[i].entry : i \in 1 .. k} \cup {v.entry}
          <5>1. \A i : i \in 1 .. k + 1 <=> i \in 1 .. k \/ i = k + 1
            BY <3>0
          <5> QED  BY <5>1 DEF v
        <4> QED  BY <3>7, <3>14, <4>1 DEF Remaining
      <3> QED  BY <3>13, <3>14, <3>15, <3>16, <3>17, <3>18 DEF Good
    <2> HIDE DEF T, Good, SS, XX, LL
    <2>3. T = Nat
      <3>1. T \subseteq Nat
        BY DEF T
      <3> QED  BY <2>1, <2>2, <3>1, UpwardInduction
    <2>4. Good(Len(ev))
      BY <1>2, <2>3 DEF T
    <2>5. LL(Len(ev)) = L2
      BY <1>9 DEF LL
    <2> QED  BY <2>4, <2>5 DEF Good, SS, XX
  <1> QED  BY <1>5, <1>6, <1>7 DEF Suitable

-----------------------------------------------------------------------------
(* Calls.                                                                  *)

(* An event that stands alone, of a call on object o.                      *)
OneEvent(t, o, e, locks) ==
    /\ e \in LogEvents /\ e.object = o /\ e.op # "LIST_ERASE"
    /\ InLocal(e) \/ "WRLOCKED" \in ToSet(locks)
    /\ Ready(state[o], tx[t].local[o], e)
    /\ Adds(e) => Free(t, e.entry)

Effects(t, o, locks, events) ==
    \/ events = <<>>
    \/ Len(events) = 1 /\ events \in Seq(LogEvents) /\ OneEvent(t, o, events[1], locks)
    \/ /\ "WRLOCKED" \in ToSet(locks)
       /\ events \in Seq(LogEvents) /\ \A k \in 1 .. Len(events) : events[k].object = o
       /\ Erases(state[o], o, events)

CallFits(t, o, v) ==
    /\ v.locks \in Seq(Statuses)
    /\ v.allowed => Effects(t, o, v.locks, v.events)

LEMMA ReadingFits ==
    ASSUME NEW t, NEW o, NEW a
    PROVE  CallFits(t, o, ReadLocked(a)) /\ CallFits(t, o, [Call EXCEPT !.answer = a])
  <1>1. ReadLocked(a).events = <<>> /\ ReadLocked(a).locks = <<"RDLOCKED">>
    BY DEF ReadLocked, picotm_rwstate_try_rdlock, Call
  <1>2. [Call EXCEPT !.answer = a].events = <<>> /\ [Call EXCEPT !.answer = a].locks = <<>>
    BY DEF Call
  <1>3. <<>> \in Seq(Statuses) /\ <<"RDLOCKED">> \in Seq(Statuses)
    BY DEF Statuses
  <1> QED  BY <1>1, <1>2, <1>3 DEF CallFits, Effects

LEMMA SingleEvent ==
    ASSUME NEW t, NEW o, NEW e, NEW locks, OneEvent(t, o, e, locks)
    PROVE  Effects(t, o, locks, <<e>>)
  <1>1. e \in LogEvents
    BY DEF OneEvent
  <1>2. Len(<<e>>) = 1 /\ <<e>>[1] = e /\ <<e>> \in Seq(LogEvents)
    BY <1>1
  <1> QED  BY <1>2 DEF Effects

LEMMA SingleErasure ==
    ASSUME NEW t, NEW o, NEW e \in LogEvents, e.object = o, e.op \in {"LIST_ERASE", "MULTISET_ERASE"},
           e.entry \in Contents(state[o], o),
           e.op = "LIST_ERASE" /\ e.position # HEAD => e.position \in Contents(state[o], o) \ {e.entry},
           NEW locks, "WRLOCKED" \in ToSet(locks)
    PROVE  Effects(t, o, locks, <<e>>)
  <1> DEFINE ev == <<e>>
  <1>1. Len(ev) = 1 /\ ev[1] = e /\ ev \in Seq(LogEvents)
    OBVIOUS
  <1> HIDE DEF ev
  <1>2. Remaining(state[o], o, ev, 0) = Contents(state[o], o)
    <2>1. {ev[i].entry : i \in 1 .. 0} = {}
      OBVIOUS
    <2> QED  BY <2>1 DEF Remaining
  <1>3. \A k \in 1 .. Len(ev) : k = 1 /\ k - 1 = 0
    BY <1>1
  <1>4. Erases(state[o], o, ev)
    BY <1>1, <1>2, <1>3 DEF Erases
  <1>5. \A k \in 1 .. Len(ev) : ev[k].object = o
    BY <1>1, <1>3
  <1> QED  BY <1>1, <1>4, <1>5 DEF Effects, ev

LEMMA WritingIs ==
    ASSUME NEW ev
    PROVE  /\ WriteLocked(ev).events = ev /\ WriteLocked(ev).locks = <<"WRLOCKED">>
           /\ <<"WRLOCKED">> \in Seq(Statuses) /\ "WRLOCKED" \in ToSet(<<"WRLOCKED">>)
  <1>1. WriteLocked(ev).events = ev /\ WriteLocked(ev).locks = <<"WRLOCKED">>
    BY DEF WriteLocked, picotm_rwstate_try_wrlock, Call
  <1> QED  BY <1>1 DEF Statuses, ToSet

LEMMA ListNext ==
    ASSUME NEW s, SeqFits(s), NEW k \in 1 .. Len(s)
    PROVE  /\ s[k] \in ToSet(s) /\ s[k] \in Entries
           /\ txlist_entry_next(s, s[k]) = IF k = Len(s) THEN HEAD ELSE s[k + 1]
           /\ k # Len(s) => k + 1 \in 1 .. Len(s) /\ s[k + 1] \in ToSet(s) /\ s[k + 1] # s[k]
  <1>0. /\ s \in Seq(Entries) /\ Len(s) \in Nat /\ k \in Nat
        /\ \A i, j \in 1 .. Len(s) : s[i] = s[j] => i = j
    BY DEF SeqFits, IsInjective
  <1>1. s[k] \in ToSet(s) /\ s[k] \in Entries
    BY <1>0, ElementsAre
  <1>2. Position(s, s[k]) = k
    BY <1>0, <1>1, PositionOf
  <1>3. k # Len(s) => k + 1 \in 1 .. Len(s) /\ s[k + 1] \in ToSet(s) /\ s[k + 1] # s[k]
    <2> SUFFICES ASSUME k # Len(s)
                 PROVE  k + 1 \in 1 .. Len(s) /\ s[k + 1] \in ToSet(s) /\ s[k + 1] # s[k]
      OBVIOUS
    <2>1. k + 1 \in 1 .. Len(s) /\ k + 1 # k
      BY <1>0
    <2> QED  BY <1>0, <2>1, ElementsAre
  <1>4. First(SubSeq(s, k + 1, Len(s))) = IF k = Len(s) THEN HEAD ELSE s[k + 1]
    <2>1. PICK n \in Nat : n = k + 1
      BY <1>0
    <2>2. CASE k = Len(s)
      <3>1. SubSeq(s, n, Len(s)) = <<>>
        BY <1>0, <2>1, <2>2
      <3> QED  BY <2>1, <2>2, <3>1 DEF First
    <2>3. CASE k # Len(s)
      <3>1. n <= Len(s) /\ 1 <= n
        BY <1>0, <2>1, <2>3
      <3>2. PICK r \in Seq(Entries) : r = SubSeq(s, n, Len(s)) /\ Len(r) # 0 /\ r[1] = s[n]
        <4>1. PICK d \in Nat : d = Len(s) - n + 1 /\ 1 <= d
          BY <1>0, <2>1, <3>1
        <4>2. SubSeq(s, n, Len(s)) \in Seq(Entries) /\ Len(SubSeq(s, n, Len(s))) = d
          BY <1>0, <2>1, <3>1, <4>1
        <4>3. SubSeq(s, n, Len(s))[1] = s[n]
          BY <1>0, <2>1, <3>1
        <4>4. Len(SubSeq(s, n, Len(s))) # 0
          BY <4>1, <4>2
        <4> QED  BY <4>2, <4>3, <4>4
      <3>3. r # <<>> /\ Head(r) = r[1]
        <4>1. \A q \in Seq(Entries) : Len(q) # 0 => q # <<>> /\ Head(q) = q[1]
          OBVIOUS
        <4> QED  BY <3>2, <4>1, Zenon
      <3> QED  BY <2>1, <2>3, <3>2, <3>3 DEF First
    <2> QED  BY <2>2, <2>3
  <1> QED  BY <1>1, <1>2, <1>3, <1>4 DEF txlist_entry_next

LEMMA ErasureOfList ==
    ASSUME NEW o \in Objects, Kind[o] = "list", SeqFits(state[o]), NEW k \in 1 .. Len(state[o]),
           NEW e, e = ListErase(o, state[o][k])
    PROVE  /\ e \in LogEvents /\ e.object = o /\ e.op = "LIST_ERASE" /\ e.entry = state[o][k]
           /\ e.entry \in ToSet(state[o])
           /\ e.position # HEAD => k # Len(state[o]) /\ e.position = state[o][k + 1]
                                   /\ k + 1 \in 1 .. Len(state[o])
                                   /\ e.position \in ToSet(state[o]) \ {e.entry}
  <1> DEFINE s == state[o]
  <1>1. /\ s[k] \in ToSet(s) /\ s[k] \in Entries
        /\ txlist_entry_next(s, s[k]) = IF k = Len(s) THEN HEAD ELSE s[k + 1]
        /\ k # Len(s) => k + 1 \in 1 .. Len(s) /\ s[k + 1] \in ToSet(s) /\ s[k + 1] # s[k]
    <2> HIDE DEF s
    <2> QED  BY ListNext DEF s
  <1>2. /\ e.op = "LIST_ERASE" /\ e.object = o /\ e.entry = s[k] /\ e.local = FALSE
        /\ e.position = IF k = Len(s) THEN HEAD ELSE s[k + 1]
    BY <1>1 DEF ListErase, Event
  <1>3. ToSet(s) \subseteq Entries
    BY ElementsAre DEF SeqFits
  <1>4. e.position \in Nodes
    BY <1>1, <1>2, <1>3 DEF Nodes
  <1>5. e \in Records
    BY <1>1, <1>2, <1>4 DEF Records, ListErase, Event, Removing
  <1>6. e \in LogEvents
    BY <1>2, <1>5 DEF LogEvents, Fitting
  <1> QED  BY <1>1, <1>2, <1>6

LEMMA EndsAre ==
    ASSUME NEW s, SeqFits(s)
    PROVE  /\ First(s) # HEAD => s # <<>> /\ First(s) = Head(s)
           /\ Final(s) # HEAD => s # <<>> /\ Final(s) = Last(s)
           /\ First(s) \in ToSet(s) \cup {HEAD} /\ Final(s) \in ToSet(s) \cup {HEAD}
           /\ \A e \in ToSet(s) : \E k \in 1 .. Len(s) : s[k] = e
  BY EntryRemoved, ElementsAre DEF First, Final, SeqFits

LEMMA FreeIs ==
    ASSUME NEW t \in Threads, NEW o \in Objects, NEW e, Free(t, e)
    PROVE  e \notin Contents(state[o], o) /\ e \notin ToSet(tx[t].local[o])
  BY DEF Free

(* A list's entry is inserted in front of another one or at the end.       *)
Inserts(t, o, c, position, v) ==
    /\ t \in Threads /\ o \in Objects /\ Kind[o] = "list" /\ SeqFits(state[o])
    /\ c.object = o /\ c.entry \in Entries
    /\ v.events = ListInsert(t, c, position).events /\ v.locks = ListInsert(t, c, position).locks
    /\ v.allowed => Free(t, c.entry) /\ position \in ToSet(state[o]) \cup {HEAD}

LEMMA ListInsertion ==
    ASSUME NEW t, NEW o, NEW c, NEW position, NEW v, Inserts(t, o, c, position, v)
    PROVE  CallFits(t, o, v)
  <1> USE DEF Inserts
  <1> DEFINE e == Event("LIST_INSERT", o, c.entry, position, FALSE)
  <1>1. /\ v.events = <<e>> /\ v.locks = <<"WRLOCKED">>
        /\ v.locks \in Seq(Statuses) /\ "WRLOCKED" \in ToSet(v.locks)
    BY WritingIs DEF ListInsert, Insertion, WriteLocked, picotm_rwstate_try_wrlock, Call
  <1>2. ASSUME v.allowed PROVE Effects(t, o, v.locks, <<e>>)
    <2>1. Free(t, c.entry) /\ position \in ToSet(state[o]) \cup {HEAD}
      BY <1>2
    <2>2. ToSet(state[o]) \subseteq Entries
      BY ElementsAre DEF SeqFits
    <2>3. e \in Records
      BY <2>1, <2>2 DEF Records, Event, Adding, Nodes
    <2>4. e.op = "LIST_INSERT" /\ e.object = o /\ e.entry = c.entry /\ e.position = position
      BY DEF Event
    <2> HIDE DEF e
    <2>5. e \in LogEvents
      BY <2>3, <2>4 DEF LogEvents, Fitting
    <2>6. Ready(state[o], tx[t].local[o], e)
      BY <2>1, <2>4, FreeIs DEF Ready
    <2> QED  BY <1>1, <2>1, <2>4, <2>5, <2>6, SingleEvent DEF OneEvent
  <1> QED  BY <1>1, <1>2 DEF CallFits

LEMMA ListErasure ==
    ASSUME NEW t \in Threads, NEW o \in Objects, Kind[o] = "list", SeqFits(state[o]),
           NEW x \in ToSet(state[o]), NEW locks, "WRLOCKED" \in ToSet(locks)
    PROVE  Effects(t, o, locks, <<ListErase(o, x)>>)
  <1>1. PICK k \in 1 .. Len(state[o]) : state[o][k] = x
    BY ElementsAre DEF SeqFits
  <1>2. PICK e : e = ListErase(o, x)
    OBVIOUS
  <1>3. /\ e \in LogEvents /\ e.object = o /\ e.op = "LIST_ERASE" /\ e.entry \in ToSet(state[o])
        /\ e.position # HEAD => e.position \in ToSet(state[o]) \ {e.entry}
    BY <1>1, <1>2, ErasureOfList
  <1>4. Contents(state[o], o) = ToSet(state[o])
    BY DEF Contents
  <1> QED  BY <1>2, <1>3, <1>4, SingleErasure

LEMMA ListCleared ==
    ASSUME NEW t \in Threads, NEW o \in Objects, Kind[o] = "list", SeqFits(state[o]),
           NEW ev, ev = [k \in DOMAIN state[o] |-> ListErase(o, state[o][k])],
           NEW locks, "WRLOCKED" \in ToSet(locks)
    PROVE  Effects(t, o, locks, ev)
  <1> DEFINE s == state[o]
  <1>1. /\ s \in Seq(Entries) /\ DOMAIN s = 1 .. Len(s) /\ Len(s) \in Nat
        /\ \A i, j \in 1 .. Len(s) : s[i] = s[j] => i = j
    BY DEF SeqFits, IsInjective
  <1>2. \A k \in 1 .. Len(s) : /\ ev[k] = ListErase(o, s[k])
                               /\ ev[k] \in LogEvents /\ ev[k].object = o /\ ev[k].op = "LIST_ERASE"
                               /\ ev[k].entry = s[k] /\ s[k] \in ToSet(s)
                               /\ ev[k].position # HEAD => /\ ev[k].position = s[k + 1] /\ k + 1 \in 1 .. Len(s)
                                                           /\ s[k + 1] \in ToSet(s) \ {s[k]}
    <2> SUFFICES ASSUME NEW k \in 1 .. Len(s)
                 PROVE  /\ ev[k] = ListErase(o, s[k])
                        /\ ev[k] \in LogEvents /\ ev[k].object = o /\ ev[k].op = "LIST_ERASE"
                        /\ ev[k].entry = s[k] /\ s[k] \in ToSet(s)
                        /\ ev[k].position # HEAD => /\ ev[k].position = s[k + 1] /\ k + 1 \in 1 .. Len(s)
                                                    /\ s[k + 1] \in ToSet(s) \ {s[k]}
      OBVIOUS
    <2>1. PICK e : e = ListErase(o, s[k])
      OBVIOUS
    <2>2. ev[k] = e
      BY <1>1, <2>1
    <2> QED  BY <2>1, <2>2, ErasureOfList
  <1>3. ev = [k \in 1 .. Len(s) |-> ev[k]]
    BY <1>1
  <1> HIDE DEF s
  <1>4. ev \in [1 .. Len(s) -> LogEvents]
    BY <1>2, <1>3
  <1>5. ev \in Seq(LogEvents) /\ Len(ev) = Len(s)
    BY <1>1, <1>4
  <1>6. \A k \in 1 .. Len(ev) : ev[k].object = o
    BY <1>2, <1>5
  <1>7. Contents(state[o], o) = ToSet(s)
    BY DEF Contents, s
  <1>8. ASSUME NEW k \in 1 .. Len(s), NEW i \in 1 .. Len(s), k - 1 < i
        PROVE  s[i] \in Remaining(state[o], o, ev, k - 1)
    <2>1. s[i] \in ToSet(s)
      BY <1>2
    <2>2. s[i] \notin {ev[j].entry : j \in 1 .. k - 1}
      <3> SUFFICES ASSUME NEW j \in 1 .. k - 1, ev[j].entry = s[i] PROVE FALSE
        OBVIOUS
      <3>1. j \in 1 .. Len(s) /\ j # i
        BY <1>1, <1>8
      <3>2. ev[j].entry = s[j]
        BY <1>2, <3>1
      <3> QED  BY <1>1, <3>1, <3>2
    <2>3. PICK d \in Int : d = k - 1
      BY <1>1
    <2>4. s[i] \notin {ev[j].entry : j \in 1 .. d}
      BY <2>2, <2>3
    <2>5. s[i] \in Remaining(state[o], o, ev, d)
      BY <1>7, <2>1, <2>4, Zenon DEF Remaining
    <2> QED  BY <2>3, <2>5
  <1>9. Erases(state[o], o, ev)
    <2> SUFFICES ASSUME NEW k \in 1 .. Len(s)
                 PROVE  /\ ev[k].op \in {"LIST_ERASE", "MULTISET_ERASE"}
                        /\ ev[k].entry \in Remaining(state[o], o, ev, k - 1)
                        /\ ev[k].op = "LIST_ERASE" /\ ev[k].position # HEAD =>
                               ev[k].position \in Remaining(state[o], o, ev, k - 1) \ {ev[k].entry}
      BY <1>5, Zenon DEF Erases
    <2>1. s[k] \in Remaining(state[o], o, ev, k - 1)
      BY <1>1, <1>8
    <2>2. k + 1 \in 1 .. Len(s) => s[k + 1] \in Remaining(state[o], o, ev, k - 1)
      BY <1>1, <1>8
    <2> QED  BY <1>2, <2>1, <2>2
  <1> QED  BY <1>5, <1>6, <1>9 DEF Effects

LEMMA ListCalls ==
    ASSUME NEW t \in Threads, NEW o \in Objects, Kind[o] = "list", SeqFits(state[o]),
           NEW c, c.object = o, c.op \in Operations("list"), c.op \in Enqueueing => c.entry \in Entries
    PROVE  CallFits(t, o, list_calls(t, c))
  <1> DEFINE v == list_calls(t, c)  s == state[o]
  <1>1. c.op \in {"begin", "next", "empty", "size", "front", "back", "insert", "erase",
                  "push_front", "push_back", "pop_front", "pop_back", "clear"}
    BY DEF Operations
  <1>2. CASE c.op \in {"begin", "empty", "size", "front", "back"}
    <2>1. \E a : v = ReadLocked(a)
      BY <1>2 DEF list_calls, txlist_tx_exec_begin, txlist_tx_exec_empty, txlist_tx_exec_size,
                  txlist_tx_exec_front, txlist_tx_exec_back
    <2> QED  BY <2>1, ReadingFits
  <1>3. CASE c.op = "next"
    <2>1. v = txlist_entry_next_tx(t, c)
      BY <1>3 DEF list_calls
    <2>2. v.events = <<>> /\ v.locks = <<>>
      BY <2>1 DEF txlist_entry_next_tx, Call
    <2> QED  BY <2>2 DEF CallFits, Effects
  <1>4. CASE c.op \in {"insert", "push_front", "push_back"}
    <2>1. c.entry \in Entries
      BY <1>4 DEF Enqueueing
    <2>2. \A p : ListInsert(t, c, p).allowed => Free(t, c.entry)
      BY DEF ListInsert, Insertion, WriteLocked, picotm_rwstate_try_wrlock, Call
    <2>3. CASE c.op = "insert"
      <3>1. v = txlist_tx_exec_insert(t, c)
        BY <2>3 DEF list_calls
      <3>2. /\ v.events = ListInsert(t, c, c.position).events /\ v.locks = ListInsert(t, c, c.position).locks
            /\ v.allowed => ListInsert(t, c, c.position).allowed /\ c.position \in ToSet(s) \cup {HEAD}
        BY <3>1 DEF txlist_tx_exec_insert, ListInsert, Insertion, WriteLocked, picotm_rwstate_try_wrlock, Call
      <3> HIDE DEF v
      <3>3. Inserts(t, o, c, c.position, v)
        BY <2>1, <2>2, <3>2 DEF Inserts
      <3>4. CallFits(t, o, v)
        BY <3>3, ListInsertion
      <3> QED  BY <3>4 DEF v
    <2>4. CASE c.op = "push_front"
      <3>1. v = ListInsert(t, c, First(s))
        BY <2>4 DEF list_calls, txlist_tx_exec_push_front
      <3>2. First(s) \in ToSet(s) \cup {HEAD}
        BY EndsAre
      <3> HIDE DEF v
      <3>3. Inserts(t, o, c, First(s), v)
        BY <2>1, <2>2, <3>1, <3>2 DEF Inserts
      <3>4. CallFits(t, o, v)
        BY <3>3, ListInsertion
      <3> QED  BY <3>4 DEF v
    <2>5. CASE c.op = "push_back"
      <3>1. v = ListInsert(t, c, HEAD)
        BY <2>5 DEF list_calls, txlist_tx_exec_push_back
      <3> HIDE DEF v
      <3>3. Inserts(t, o, c, HEAD, v)
        BY <2>1, <2>2, <3>1 DEF Inserts
      <3>4. CallFits(t, o, v)
        BY <3>3, ListInsertion
      <3> QED  BY <3>4 DEF v
    <2> QED  BY <1>4, <2>3, <2>4, <2>5
  <1>5. CASE c.op = "erase"
    <2> DEFINE there == c.entry \in ToSet(s)
               ev == IF there THEN <<ListErase(o, c.entry)>> ELSE <<>>
    <2>1. v = Removal(t, c, WriteLocked(ev))
      BY <1>5 DEF list_calls, txlist_tx_exec_erase
    <2>2. v.events = ev /\ v.locks = <<"WRLOCKED">>
      BY <2>1 DEF Removal, WriteLocked, picotm_rwstate_try_wrlock, Call
    <2>3. Effects(t, o, <<"WRLOCKED">>, ev)
      BY WritingIs, ListErasure DEF Effects
    <2> HIDE DEF v, ev
    <2>9. CallFits(t, o, v)
      BY <2>2, <2>3, WritingIs DEF CallFits
    <2> QED  BY <2>9 DEF v
  <1>6. CASE c.op \in {"pop_front", "pop_back"}
    <2>1. PICK e \in ToSet(s) \cup {HEAD} : v = ListPop(c, e)
      BY <1>6, EndsAre DEF list_calls, txlist_tx_exec_pop_front, txlist_tx_exec_pop_back
    <2> DEFINE ev == IF e = HEAD THEN <<>> ELSE <<ListErase(o, e)>>
    <2>2. v.events = ev /\ v.locks = <<"WRLOCKED">>
      BY <2>1 DEF ListPop, WriteLocked, picotm_rwstate_try_wrlock, Call
    <2>3. Effects(t, o, <<"WRLOCKED">>, ev)
      BY <2>1, WritingIs, ListErasure DEF Effects
    <2> HIDE DEF v, ev
    <2>9. CallFits(t, o, v)
      BY <2>2, <2>3, WritingIs DEF CallFits
    <2> QED  BY <2>9 DEF v
  <1>7. CASE c.op = "clear"
    <2> DEFINE ev == [k \in DOMAIN s |-> ListErase(o, s[k])]
    <2>1. v = WriteLocked(ev)
      BY <1>7 DEF list_calls, txlist_tx_exec_clear
    <2>2. Effects(t, o, <<"WRLOCKED">>, ev)
      BY WritingIs, ListCleared
    <2> HIDE DEF v, ev
    <2>9. CallFits(t, o, v)
      BY <2>1, <2>2, WritingIs DEF CallFits
    <2> QED  BY <2>9 DEF v
  <1> QED  BY <1>1, <1>2, <1>3, <1>4, <1>5, <1>6, <1>7

(* An entry is pushed on, or popped from, a queue or stack.                *)
OneCall(t, o, v, op, e, locks, local) ==
    /\ t \in Threads /\ o \in Objects
    /\ v.events = <<Event(op, o, e, NULL, local)>> /\ v.locks = locks
    /\ v.locks \in Seq(Statuses) /\ local \in BOOLEAN
    /\ \/ op = "QUEUE_PUSH" /\ Kind[o] = "queue"
       \/ op = "STACK_PUSH" /\ Kind[o] = "stack"
       \/ op = "MULTISET_INSERT" /\ Kind[o] = "multiset"
       \/ op = "QUEUE_POP" /\ Kind[o] = "queue"
       \/ op = "STACK_POP" /\ Kind[o] = "stack"
    /\ op \in Adding => e \in Entries
    /\ v.allowed =>
          /\ e \in Entries
          /\ op \in Adding => Free(t, e)
          /\ op = "QUEUE_POP" => IF local THEN tx[t].local[o] # <<>> /\ e = Head(tx[t].local[o])
                                          ELSE state[o] # <<>> /\ e = Head(state[o])
          /\ op = "STACK_POP" => IF local THEN tx[t].local[o] # <<>> /\ e = Last(tx[t].local[o])
                                          ELSE state[o] # <<>> /\ e = Last(state[o])
          /\ op \in Pushing \/ (op \in Popping /\ local) \/ "WRLOCKED" \in ToSet(locks)

LEMMA OneCallFits ==
    ASSUME NEW t, NEW o, NEW v, NEW op, NEW e, NEW locks, NEW local,
           OneCall(t, o, v, op, e, locks, local)
    PROVE  CallFits(t, o, v)
  <1> USE DEF OneCall
  <1>1. PICK w : w = Event(op, o, e, NULL, local)
    OBVIOUS
  <1>2. v.events = <<w>> /\ v.locks = locks
    BY <1>1
  <1>3. /\ w.op = op /\ w.object = o /\ w.entry = e /\ w.position = NULL /\ w.local = local
        /\ w = [op |-> op, object |-> o, entry |-> e, position |-> NULL, local |-> local]
    BY <1>1 DEF Event
  <1>4. ASSUME v.allowed PROVE OneEvent(t, o, w, locks)
    <2>1. op \in Adding \cup Removing
      BY DEF Adding, Removing, Pushing, Popping
    <2>2. w \in Records
      BY <1>3, <1>4, <2>1 DEF Records
    <2>3. w \in LogEvents
      BY <1>3, <2>2 DEF LogEvents, Fitting
    <2>4. Adds(w) => op \in Adding
      BY <1>3 DEF Adds
    <2>5. Adds(w) => Free(t, e)
      BY <1>4, <2>4
    <2>6. Ready(state[o], tx[t].local[o], w)
      <3>1. Adds(w) => e \notin Contents(state[o], o) /\ e \notin ToSet(tx[t].local[o])
        BY <2>5, FreeIs
      <3>2. op \notin {"LIST_INSERT", "LIST_ERASE", "MULTISET_ERASE"}
        OBVIOUS
      <3> QED  BY <1>3, <1>4, <3>1, <3>2 DEF Ready
    <2>7. InLocal(w) \/ "WRLOCKED" \in ToSet(locks)
      BY <1>3, <1>4 DEF InLocal
    <2> QED  BY <1>3, <2>3, <2>5, <2>6, <2>7 DEF OneEvent
  <1>5. v.allowed => Effects(t, o, v.locks, v.events)
    BY <1>2, <1>4, SingleEvent
  <1> QED  BY <1>5 DEF CallFits

LEMMA HeadNotEntry ==
    ASSUME NEW s, SeqFits(s)
    PROVE  /\ First(s) # HEAD => s # <<>> /\ First(s) = Head(s) /\ First(s) \in Entries
           /\ Final(s) # HEAD => s # <<>> /\ Final(s) = Last(s) /\ Final(s) \in Entries
  <1>1. ToSet(s) \subseteq Entries
    BY ElementsAre DEF SeqFits
  <1> QED  BY <1>1, EndsAre

(* A call that has taken locks so far.                                     *)
Taking(w) ==
    /\ w = [locks |-> w.locks, events |-> w.events, answer |-> w.answer, allowed |-> w.allowed]
    /\ w.locks \in Seq(Statuses)

LEMMA NothingTaken == Taking(Call)
  BY DEF Taking, Call

LEMMA LocksAppended ==
    ASSUME NEW w, Taking(w)
    PROVE  /\ Taking(picotm_rwstate_try_rdlock(w)) /\ Taking(picotm_rwstate_try_wrlock(w))
           /\ "WRLOCKED" \in ToSet(picotm_rwstate_try_wrlock(w).locks)
  <1> DEFINE W(s) == [locks |-> s, events |-> w.events, answer |-> w.answer, allowed |-> w.allowed]
  <1>1. PICK s \in Seq(Statuses) : w = W(s)
    BY DEF Taking
  <1>2. "RDLOCKED" \in Statuses /\ "WRLOCKED" \in Statuses
    BY DEF Statuses
  <1>3. \A q \in Statuses : Append(s, q) \in Seq(Statuses) /\ q \in ToSet(Append(s, q))
    <2> SUFFICES ASSUME NEW q \in Statuses PROVE Append(s, q) \in Seq(Statuses) /\ q \in ToSet(Append(s, q))
      OBVIOUS
    <2>1. Append(s, q) \in Seq(Statuses) /\ Len(s) + 1 \in DOMAIN Append(s, q) /\ Append(s, q)[Len(s) + 1] = q
      OBVIOUS
    <2> QED  BY <2>1 DEF ToSet
  <1>4. /\ picotm_rwstate_try_rdlock(w) = W(Append(s, "RDLOCKED"))
        /\ picotm_rwstate_try_wrlock(w) = W(Append(s, "WRLOCKED"))
    <2>1. \A r : [W(s) EXCEPT !.locks = r] = W(r)
      OBVIOUS
    <2>2. W(s).locks = s
      OBVIOUS
    <2> HIDE DEF W
    <2> QED  BY <1>1, <2>1, <2>2 DEF picotm_rwstate_try_rdlock, picotm_rwstate_try_wrlock
  <1>5. \A r \in Seq(Statuses) : Taking(W(r)) /\ W(r).locks = r
    BY DEF Taking
  <1> QED  BY <1>2, <1>3, <1>4, <1>5

Pops(v, w, ev, e) == Taking(w) /\ v = [w EXCEPT !.events = ev, !.allowed = e # HEAD]

LEMMA CallOf ==
    ASSUME NEW w, NEW v, NEW ev, NEW e, Pops(v, w, ev, e)
    PROVE  v.events = ev /\ (v.allowed => e # HEAD) /\ v.locks = w.locks /\ v.locks \in Seq(Statuses)
  BY DEF Taking, Pops

LEMMA QueueCalls ==
    ASSUME NEW t \in Threads, NEW o \in Objects, Kind[o] = "queue", SeqFits(state[o]),
           SeqFits(tx[t].local[o]),
           NEW c, c.object = o, c.op \in Operations("queue"), c.op \in Enqueueing => c.entry \in Entries
    PROVE  CallFits(t, o, queue_calls(t, c))
  <1>1. c.op \in {"empty", "size", "front", "back", "pop", "push"}
    BY DEF Operations
  <1>2. CASE c.op \in {"empty", "size", "front", "back"}
    <2>1. PICK a : queue_calls(t, c) = ReadLocked(a) \/ queue_calls(t, c) = [Call EXCEPT !.answer = a]
      BY <1>2 DEF queue_calls, txqueue_tx_exec_empty, txqueue_tx_exec_size,
                  txqueue_tx_exec_front, txqueue_tx_exec_back
    <2>2. CallFits(t, o, ReadLocked(a)) /\ CallFits(t, o, [Call EXCEPT !.answer = a])
      BY ReadingFits
    <2> QED  BY <2>1, <2>2
  <1>3. CASE c.op = "pop"
    <2>1. PICK v, local, w, e :
              /\ v = queue_calls(t, c) /\ local = (state[o] = <<>>)
              /\ w = IF local THEN picotm_rwstate_try_rdlock(Call)
                              ELSE picotm_rwstate_try_wrlock(picotm_rwstate_try_rdlock(Call))
              /\ e = First(IF local THEN tx[t].local[o] ELSE state[o])
      OBVIOUS
    <2>0. v = txqueue_tx_exec_pop(t, c)
      BY <1>3, <2>1 DEF queue_calls
    <2>6. Taking(w) /\ (~local => "WRLOCKED" \in ToSet(w.locks))
      BY <2>1, NothingTaken, LocksAppended
    <2>7. v = [w EXCEPT !.events = <<Event("QUEUE_POP", o, e, NULL, local)>>,
                        !.allowed = e # HEAD]
      BY <2>0, <2>1, Zenon DEF txqueue_tx_exec_pop
    <2>2. /\ v.events = <<Event("QUEUE_POP", o, e, NULL, local)>> /\ v.locks = w.locks
          /\ (v.allowed => e # HEAD) /\ v.locks \in Seq(Statuses)
      <3>1. PICK ev : ev = <<Event("QUEUE_POP", o, e, NULL, local)>>
        OBVIOUS
      <3>2. Pops(v, w, ev, e)
        BY <2>6, <2>7, <3>1, Zenon DEF Pops
      <3> QED  BY <3>1, <3>2, CallOf
    <2>4. v.allowed => /\ e \in Entries
                       /\ IF local THEN tx[t].local[o] # <<>> /\ e = Head(tx[t].local[o])
                                   ELSE state[o] # <<>> /\ e = Head(state[o])
      BY <2>1, <2>2, HeadNotEntry
    <2>5. OneCall(t, o, v, "QUEUE_POP", e, w.locks, local)
      BY <2>1, <2>2, <2>4, <2>6 DEF OneCall, Adding, Pushing, Popping
    <2> QED  BY <2>1, <2>5, OneCallFits
  <1>4. CASE c.op = "push"
    <2>1. PICK v, e : v = queue_calls(t, c) /\ e = c.entry
      OBVIOUS
    <2>2. /\ v.events = <<Event("QUEUE_PUSH", o, e, NULL, FALSE)>> /\ v.locks = <<>>
          /\ v.allowed => Free(t, e)
      BY <1>4, <2>1 DEF queue_calls, txqueue_tx_exec_push, Insertion, Call
    <2>3. e \in Entries /\ <<>> \in Seq(Statuses)
      BY <1>4, <2>1 DEF Enqueueing
    <2>4. OneCall(t, o, v, "QUEUE_PUSH", e, <<>>, FALSE)
      BY <2>2, <2>3 DEF OneCall, Pushing
    <2> QED  BY <2>1, <2>4, OneCallFits
  <1> QED  BY <1>1, <1>2, <1>3, <1>4

LEMMA StackCalls ==
    ASSUME NEW t \in Threads, NEW o \in Objects, Kind[o] = "stack", SeqFits(state[o]),
           SeqFits(tx[t].local[o]),
           NEW c, c.object = o, c.op \in Operations("stack"), c.op \in Enqueueing => c.entry \in Entries
    PROVE  CallFits(t, o, stack_calls(t, c))
  <1>1. c.op \in {"empty", "size", "top", "pop", "push"}
    BY DEF Operations
  <1>2. CASE c.op \in {"empty", "size", "top"}
    <2>1. PICK a : stack_calls(t, c) = ReadLocked(a) \/ stack_calls(t, c) = [Call EXCEPT !.answer = a]
      BY <1>2 DEF stack_calls, txstack_tx_exec_empty, txstack_tx_exec_size, txstack_tx_exec_top
    <2>2. CallFits(t, o, ReadLocked(a)) /\ CallFits(t, o, [Call EXCEPT !.answer = a])
      BY ReadingFits
    <2> QED  BY <2>1, <2>2
  <1>3. CASE c.op = "pop"
    <2>1. PICK v, local, w, e :
              /\ v = stack_calls(t, c) /\ local = (tx[t].local[o] # <<>>)
              /\ w = IF local THEN Call ELSE picotm_rwstate_try_wrlock(Call)
              /\ e = Final(IF local THEN tx[t].local[o] ELSE state[o])
      OBVIOUS
    <2>0. v = txstack_tx_exec_pop(t, c)
      BY <1>3, <2>1 DEF stack_calls
    <2>6. Taking(w) /\ (~local => "WRLOCKED" \in ToSet(w.locks))
      BY <2>1, NothingTaken, LocksAppended
    <2>7. v = [w EXCEPT !.events = <<Event("STACK_POP", o, e, NULL, local)>>,
                        !.allowed = e # HEAD]
      BY <2>0, <2>1, Zenon DEF txstack_tx_exec_pop
    <2>2. /\ v.events = <<Event("STACK_POP", o, e, NULL, local)>> /\ v.locks = w.locks
          /\ (v.allowed => e # HEAD) /\ v.locks \in Seq(Statuses)
      <3>1. PICK ev : ev = <<Event("STACK_POP", o, e, NULL, local)>>
        OBVIOUS
      <3>2. Pops(v, w, ev, e)
        BY <2>6, <2>7, <3>1, Zenon DEF Pops
      <3> QED  BY <3>1, <3>2, CallOf
    <2>4. v.allowed => /\ e \in Entries
                       /\ IF local THEN tx[t].local[o] # <<>> /\ e = Last(tx[t].local[o])
                                   ELSE state[o] # <<>> /\ e = Last(state[o])
      BY <2>1, <2>2, HeadNotEntry
    <2>5. OneCall(t, o, v, "STACK_POP", e, w.locks, local)
      BY <2>1, <2>2, <2>4, <2>6 DEF OneCall, Adding, Pushing, Popping
    <2> QED  BY <2>1, <2>5, OneCallFits
  <1>4. CASE c.op = "push"
    <2>1. PICK v, e : v = stack_calls(t, c) /\ e = c.entry
      OBVIOUS
    <2>2. /\ v.events = <<Event("STACK_PUSH", o, e, NULL, FALSE)>> /\ v.locks = <<>>
          /\ v.allowed => Free(t, e)
      BY <1>4, <2>1 DEF stack_calls, txstack_tx_exec_push, Insertion, Call
    <2>3. e \in Entries /\ <<>> \in Seq(Statuses)
      BY <1>4, <2>1 DEF Enqueueing
    <2>4. OneCall(t, o, v, "STACK_PUSH", e, <<>>, FALSE)
      BY <2>2, <2>3 DEF OneCall, Pushing
    <2> QED  BY <2>1, <2>4, OneCallFits
  <1> QED  BY <1>1, <1>2, <1>3, <1>4

-----------------------------------------------------------------------------
(* The calls of multisets.                                                 *)

StepsFrom(f, z, step, n) == f = [j \in 0 .. n |-> IF j = 0 THEN z ELSE step[f[j - 1]][j]]

LEMMA StepsExist ==
    ASSUME NEW z, NEW step, NEW n \in Nat
    PROVE  \E f : StepsFrom(f, z, step, n)
  <1> DEFINE Eq(f, k) == f = [j \in 0 .. k |-> IF j = 0 THEN z ELSE step[f[j - 1]][j]]
             T == {k \in Nat : \E f : Eq(f, k)}
  <1>1. 0 \in T
    <2> DEFINE f == [j \in 0 .. 0 |-> z]
    <2>1. f[0] = z
      OBVIOUS
    <2>2. \A j \in 0 .. 0 : z = IF j = 0 THEN z ELSE step[f[j - 1]][j]
      OBVIOUS
    <2>3. Eq(f, 0)
      BY <2>2
    <2> QED  BY <2>3
  <1>2. ASSUME NEW k \in T PROVE k + 1 \in T
    <2>1. PICK f : Eq(f, k)
      OBVIOUS
    <2> DEFINE g == [j \in 0 .. k + 1 |-> IF j = k + 1 THEN step[f[k]][j] ELSE f[j]]
    <2>2. k \in Nat /\ k + 1 \in Nat
      OBVIOUS
    <2>3. \A j \in 0 .. k : f[j] = IF j = 0 THEN z ELSE step[f[j - 1]][j]
      BY <2>1
    <2>4. \A j \in 0 .. k + 1 : g[j] = IF j = k + 1 THEN step[f[k]][j] ELSE f[j]
      OBVIOUS
    <2>5. g = [j \in 0 .. k + 1 |-> g[j]]
      OBVIOUS
    <2> HIDE DEF g
    <2>6. ASSUME NEW j \in 0 .. k + 1
          PROVE  g[j] = IF j = 0 THEN z ELSE step[g[j - 1]][j]
      <3>1. CASE j = 0
        BY <2>2, <2>3, <2>4, <3>1
      <3>2. CASE j # 0 /\ j # k + 1
        <4>1. j \in 0 .. k /\ j - 1 \in 0 .. k + 1 /\ j - 1 # k + 1
          BY <2>2, <3>2
        <4>2. g[j] = f[j] /\ g[j - 1] = f[j - 1]
          BY <2>4, <3>2, <4>1
        <4> QED  BY <2>3, <3>2, <4>1, <4>2
      <3>3. CASE j = k + 1
        <4>1. j - 1 = k /\ k \in 0 .. k + 1 /\ k # k + 1 /\ j # 0
          BY <2>2, <3>3
        <4>2. g[k] = f[k] /\ g[j] = step[f[k]][j]
          BY <2>4, <3>3, <4>1
        <4> QED  BY <4>1, <4>2
      <3> QED  BY <3>1, <3>2, <3>3
    <2>7. Eq(g, k + 1)
      BY <2>5, <2>6
    <2> QED  BY <2>2, <2>7
  <1> HIDE DEF T
  <1>3. T = Nat
    <2>1. T \subseteq Nat
      BY DEF T
    <2> QED  BY <1>1, <1>2, <2>1, UpwardInduction
  <1> QED  BY <1>3 DEF T, StepsFrom

(* What is left of a tree as its front is erased again and again.          *)
EraseFront(x) == txmultiset_state_erase(x, txmultiset_state_front(x))

FrontsErased(tree, f, n) ==
    f[0] = tree /\ \A k \in 1 .. n : TreeFits(f[k - 1]) => f[k] = EraseFront(f[k - 1])

LeftOf(tree, f, n, k) ==
    /\ TreeFits(f[k]) /\ Cardinality(EntriesOf(f[k])) = n - k
    /\ EntriesOf(f[k]) = EntriesOf(tree) \ {txmultiset_state_front(f[i - 1]) : i \in 1 .. k}

LEMMA LeftFits ==
    ASSUME NEW tree, TreeFits(tree), NEW n, n = Cardinality(EntriesOf(tree)),
           NEW f, FrontsErased(tree, f, n)
    PROVE  /\ n \in Nat
           /\ \A k \in 0 .. n : LeftOf(tree, f, n, k)
           /\ \A k \in 1 .. n : txmultiset_state_front(f[k - 1]) \in EntriesOf(f[k - 1])
  <1>1. /\ n \in Nat
        /\ \A x : IsFiniteSet(EntriesOf(x)) /\ Cardinality(EntriesOf(x)) \in Nat
    <2>1. \A x : EntriesOf(x) \subseteq Entries
      BY DEF EntriesOf
    <2>2. \A x : IsFiniteSet(EntriesOf(x))
      BY <2>1, EntriesAssumption, FS_Subset
    <2>3. \A x : Cardinality(EntriesOf(x)) \in Nat
      BY <2>2, FS_CardinalityType
    <2> QED  BY <2>2, <2>3
  <1>2. ASSUME NEW k \in Nat, k < n, LeftOf(tree, f, n, k)
        PROVE  txmultiset_state_front(f[k]) \in EntriesOf(f[k])
    <2>1. Cardinality(EntriesOf(f[k])) # 0 /\ TreeFits(f[k])
      BY <1>1, <1>2 DEF LeftOf
    <2>2. EntriesOf(f[k]) # {}
      BY <2>1, FS_EmptySet
    <2> QED  BY <2>1, <2>2, TreeFront
  <1> DEFINE T == {k \in Nat : k <= n => LeftOf(tree, f, n, k)}
  <1>3. 0 \in T
    <2>1. {txmultiset_state_front(f[i - 1]) : i \in 1 .. 0} = {}
      OBVIOUS
    <2>2. n - 0 = n /\ f[0] = tree
      BY <1>1 DEF FrontsErased
    <2> QED  BY <2>1, <2>2 DEF LeftOf
  <1>4. ASSUME NEW k \in T PROVE k + 1 \in T
    <2>0. k \in Nat /\ k + 1 \in Nat
      OBVIOUS
    <2> SUFFICES ASSUME k + 1 <= n PROVE LeftOf(tree, f, n, k + 1)
      BY <2>0
    <2>1. LeftOf(tree, f, n, k) /\ k < n /\ k + 1 \in 1 .. n /\ (k + 1) - 1 = k
      BY <1>1, <2>0
    <2>2. PICK x, e : x = f[k] /\ e = txmultiset_state_front(x)
      OBVIOUS
    <2>3. TreeFits(x) /\ e \in EntriesOf(x)
      BY <1>2, <2>1, <2>2 DEF LeftOf
    <2>4. f[k + 1] = txmultiset_state_erase(x, e)
      BY <2>1, <2>2, <2>3 DEF FrontsErased, EraseFront
    <2>5. TreeFits(f[k + 1]) /\ EntriesOf(f[k + 1]) = EntriesOf(x) \ {e}
      BY <2>3, <2>4, TreeErased
    <2>6. Cardinality(EntriesOf(f[k + 1])) = Cardinality(EntriesOf(x)) - 1
      BY <1>1, <2>3, <2>5, FS_RemoveElement
    <2>7. Cardinality(EntriesOf(f[k + 1])) = n - (k + 1)
      BY <1>1, <2>0, <2>1, <2>2, <2>6 DEF LeftOf
    <2>8. {txmultiset_state_front(f[i - 1]) : i \in 1 .. k + 1} =
              {txmultiset_state_front(f[i - 1]) : i \in 1 .. k} \cup {e}
      <3>1. \A i : i \in 1 .. k + 1 <=> i \in 1 .. k \/ i = k + 1
        BY <2>0
      <3>2. txmultiset_state_front(f[(k + 1) - 1]) = e
        BY <2>1, <2>2
      <3> QED  BY <3>1, <3>2
    <2> QED  BY <2>1, <2>2, <2>5, <2>7, <2>8 DEF LeftOf
  <1> HIDE DEF T
  <1>5. T = Nat
    <2>1. T \subseteq Nat
      BY DEF T
    <2> QED  BY <1>3, <1>4, <2>1, UpwardInduction
  <1>6. \A k \in 0 .. n : LeftOf(tree, f, n, k)
    BY <1>1, <1>5 DEF T
  <1>7. \A k \in 1 .. n : txmultiset_state_front(f[k - 1]) \in EntriesOf(f[k - 1])
    <2> SUFFICES ASSUME NEW k \in 1 .. n PROVE txmultiset_state_front(f[k - 1]) \in EntriesOf(f[k - 1])
      OBVIOUS
    <2>1. PICK j \in Nat : j = k - 1 /\ j < n /\ j \in 0 .. n
      BY <1>1
    <2> QED  BY <1>2, <1>6, <2>1
  <1> QED  BY <1>1, <1>6, <1>7

Fronts(o, f, n) == [k \in 1 .. n |-> MultisetErase(o, txmultiset_state_front(f[k - 1]))]

LEMMA ClearedTree ==
    ASSUME NEW o \in Objects, NEW tree, tree = state[o], TreeFits(tree), NEW t, NEW c, c.object = o,
           NEW n, n = Cardinality(EntriesOf(tree))
    PROVE  \E f : /\ FrontsErased(tree, f, n)
                  /\ txmultiset_tx_exec_clear(t, c) = WriteLocked(Fronts(o, f, n))
  <1> DEFINE size == txmultiset_state_size(state[c.object])
             Eq(h) == h = [k \in 0 .. size |-> IF k = 0 THEN state[c.object]
                              ELSE txmultiset_state_erase(h[k - 1], txmultiset_state_front(h[k - 1]))]
             left == CHOOSE h : Eq(h)
             step == [x \in [Nodes -> Links] |-> [j \in Nat |-> EraseFront(x)]]
  <1>0. n = size /\ n \in Nat /\ state[c.object] = tree
    <2>1. IsFiniteSet(EntriesOf(tree))
      BY EntriesAssumption, FS_Subset DEF EntriesOf
    <2> QED  BY <2>1, TreeSize, FS_CardinalityType
  <1>1. txmultiset_tx_exec_clear(t, c) =
            WriteLocked([k \in 1 .. size |-> MultisetErase(c.object, txmultiset_state_front(left[k - 1]))])
    BY Zenon DEF txmultiset_tx_exec_clear
  <1>2. PICK f : StepsFrom(f, tree, step, n)
    <2> HIDE DEF step
    <2> QED  BY <1>0, StepsExist
  <1>3. \A x \in [Nodes -> Links] : \A j \in Nat : step[x][j] = EraseFront(x)
    OBVIOUS
  <1> HIDE DEF step
  <1>40. \A j \in 0 .. n : f[j] = IF j = 0 THEN tree ELSE step[f[j - 1]][j]
    BY <1>2 DEF StepsFrom
  <1>41. f = [j \in 0 .. n |-> f[j]]
    BY <1>2, <1>40 DEF StepsFrom
  <1>4. f[0] = tree /\ \A j \in 1 .. n : f[j] = step[f[j - 1]][j]
    <2>1. 0 \in 0 .. n /\ \A j \in 1 .. n : j \in 0 .. n /\ j # 0
      BY <1>0
    <2> QED  BY <1>40, <2>1
  <1>5. FrontsErased(tree, f, n)
    <2>1. \A x : TreeFits(x) => x \in [Nodes -> Links]
      BY DEF TreeFits
    <2>2. \A j \in 1 .. n : j \in Nat
      BY <1>0
    <2> QED  BY <1>3, <1>4, <2>1, <2>2 DEF FrontsErased
  <1>6. \A k \in 0 .. n : TreeFits(f[k])
    BY <1>5, LeftFits DEF LeftOf
  <1>7. \A k \in 0 .. n : f[k] = IF k = 0 THEN tree
                              ELSE txmultiset_state_erase(f[k - 1], txmultiset_state_front(f[k - 1]))
    <2> SUFFICES ASSUME NEW k \in 0 .. n, k # 0 PROVE f[k] = EraseFront(f[k - 1])
      BY <1>4 DEF EraseFront
    <2>1. k \in 1 .. n /\ k - 1 \in 0 .. n
      BY <1>0
    <2> QED  BY <1>5, <1>6, <2>1 DEF FrontsErased
  <1>8. Eq(f)
    <2> HIDE DEF size
    <2> QED  BY <1>0, <1>41, <1>7
  <1> HIDE DEF Eq
  <1>9. Eq(left)
    BY <1>8, Zenon
  <1>10. FrontsErased(tree, left, n)
    <2> HIDE DEF left
    <2>1. \A k \in 0 .. n : left[k] = IF k = 0 THEN tree
                              ELSE txmultiset_state_erase(left[k - 1], txmultiset_state_front(left[k - 1]))
      <3> HIDE DEF size
      <3> QED  BY <1>0, <1>9 DEF Eq
    <2> QED  BY <1>0, <2>1 DEF FrontsErased, EraseFront
  <1> HIDE DEF left, size
  <1>11. txmultiset_tx_exec_clear(t, c) = WriteLocked(Fronts(o, left, n))
    BY <1>0, <1>1 DEF Fronts
  <1> QED  BY <1>10, <1>11

LEMMA MultisetCleared ==
    ASSUME NEW t \in Threads, NEW o \in Objects, Kind[o] = "multiset", TreeFits(state[o]),
           NEW n, n = Cardinality(EntriesOf(state[o])), NEW f, FrontsErased(state[o], f, n),
           NEW locks, "WRLOCKED" \in ToSet(locks)
    PROVE  Effects(t, o, locks, Fronts(o, f, n))
  <1> DEFINE front(k) == txmultiset_state_front(f[k - 1])
  <1>1. n \in Nat /\ \A k \in 1 .. n : front(k) \in EntriesOf(f[k - 1]) /\ LeftOf(state[o], f, n, k - 1)
    <2>1. n \in Nat /\ \A k \in 1 .. n : k - 1 \in 0 .. n
      BY LeftFits
    <2> QED  BY <2>1, LeftFits
  <1>2. PICK ev : ev = Fronts(o, f, n)
    OBVIOUS
  <1>3. \A k \in 1 .. n : ev[k] = MultisetErase(o, front(k))
    BY <1>2 DEF Fronts
  <1>4. \A k \in 1 .. n : /\ ev[k].op = "MULTISET_ERASE" /\ ev[k].object = o /\ ev[k].entry = front(k)
                          /\ ev[k] = [op |-> "MULTISET_ERASE", object |-> o, entry |-> front(k),
                                      position |-> NULL, local |-> FALSE]
    BY <1>3 DEF MultisetErase, Event
  <1>5. \A k \in 1 .. n : front(k) \in Entries /\ front(k) \in EntriesOf(state[o])
    BY <1>1 DEF EntriesOf, LeftOf
  <1>6. \A k \in 1 .. n : ev[k] \in LogEvents
    <2> SUFFICES ASSUME NEW k \in 1 .. n PROVE ev[k] \in LogEvents
      OBVIOUS
    <2>1. PICK v, e : v = ev[k] /\ e = front(k)
      OBVIOUS
    <2>2. v.op = "MULTISET_ERASE" /\ v.object = o /\ e \in Entries /\ v = MultisetErase(o, e)
      BY <1>3, <1>4, <1>5, <2>1
    <2>3. v \in Records
      BY <2>2 DEF Records, Removing, MultisetErase, Event
    <2> QED  BY <2>1, <2>2, <2>3 DEF LogEvents, Fitting
  <1>7. ev = [k \in 1 .. n |-> ev[k]]
    BY <1>2, <1>3 DEF Fronts
  <1>8. ev \in Seq(LogEvents) /\ Len(ev) = n
    BY <1>1, <1>6, <1>7
  <1>9. \A k \in 1 .. n : ev[k].entry \in Remaining(state[o], o, ev, k - 1)
    <2> SUFFICES ASSUME NEW k \in 1 .. n PROVE front(k) \in Remaining(state[o], o, ev, k - 1)
      BY <1>4
    <2>1. PICK d \in Nat : d = k - 1 /\ d <= n
      BY <1>1
    <2>2. {ev[i].entry : i \in 1 .. d} = {front(i) : i \in 1 .. d}
      <3>1. \A i \in 1 .. d : i \in 1 .. n
        BY <1>1, <2>1
      <3>2. \A i \in 1 .. d : ev[i].entry = front(i)
        BY <1>4, <3>1
      <3> HIDE DEF front
      <3> QED  BY <3>2
    <2>3. EntriesOf(f[d]) = EntriesOf(state[o]) \ {front(i) : i \in 1 .. d}
      BY <1>1, <2>1 DEF LeftOf
    <2>4. front(k) \in EntriesOf(f[d])
      BY <1>1, <2>1
    <2>5. Contents(state[o], o) = EntriesOf(state[o])
      BY DEF Contents
    <2>6. Remaining(state[o], o, ev, d) = EntriesOf(f[d])
      BY <2>2, <2>3, <2>5 DEF Remaining
    <2> QED  BY <2>1, <2>4, <2>6
  <1> HIDE DEF front
  <1>10. Erases(state[o], o, ev)
    BY <1>4, <1>8, <1>9 DEF Erases
  <1>11. \A k \in 1 .. Len(ev) : ev[k].object = o
    BY <1>4, <1>8
  <1> QED  BY <1>2, <1>8, <1>10, <1>11 DEF Effects

LEMMA WriterLock == picotm_rwstate_try_wrlock(Call).locks = <<"WRLOCKED">>
  BY DEF picotm_rwstate_try_wrlock, Call

LEMMA BoundFits ==
    ASSUME NEW t, NEW o, NEW a, NEW fits
    PROVE  CallFits(t, o, Bound(a, fits))
  <1>1. Bound(a, fits).events = <<>> /\ Bound(a, fits).locks = <<"RDLOCKED">>
    BY DEF Bound, ReadLocked, picotm_rwstate_try_rdlock, Call
  <1>2. <<"RDLOCKED">> \in Seq(Statuses)
    BY DEF Statuses
  <1> QED  BY <1>1, <1>2 DEF CallFits, Effects

LEMMA MultisetCalls ==
    ASSUME NEW t \in Threads, NEW o \in Objects, Kind[o] = "multiset", TreeFits(state[o]),
           NEW c, c.object = o, c.op \in Operations("multiset"), c.op \in Enqueueing => c.entry \in Entries
    PROVE  CallFits(t, o, multiset_calls(t, c))
  <1>1. c.op \in {"begin", "empty", "size", "find", "lower_bound", "upper_bound",
                  "count", "insert", "erase", "clear"}
    BY DEF Operations
  <1>2. CASE c.op \in {"begin", "empty", "size", "find", "count"}
    <2>1. PICK a : multiset_calls(t, c) = ReadLocked(a)
      BY <1>2 DEF multiset_calls, txmultiset_tx_exec_begin, txmultiset_tx_exec_empty,
                  txmultiset_tx_exec_size, txmultiset_tx_exec_find, txmultiset_tx_exec_count
    <2>2. CallFits(t, o, ReadLocked(a))
      BY ReadingFits
    <2> QED  BY <2>1, <2>2
  <1>6. CASE c.op \in {"lower_bound", "upper_bound"}
    <2>1. PICK a, fits : multiset_calls(t, c) = Bound(a, fits)
      BY <1>6 DEF multiset_calls, txmultiset_tx_exec_lower_bound, txmultiset_tx_exec_upper_bound
    <2>2. CallFits(t, o, Bound(a, fits))
      BY BoundFits
    <2> QED  BY <2>1, <2>2
  <1>3. CASE c.op = "insert"
    <2>1. PICK v, e : v = multiset_calls(t, c) /\ e = c.entry
      OBVIOUS
    <2>2. /\ v.events = <<Event("MULTISET_INSERT", o, e, NULL, FALSE)>> /\ v.locks = <<"WRLOCKED">>
          /\ v.allowed => Free(t, e)
      <3>1. PICK ev : ev = <<Event("MULTISET_INSERT", o, e, NULL, FALSE)>>
        OBVIOUS
      <3>2. v = [WriteLocked(ev) EXCEPT !.allowed = Free(t, e)]
        BY <1>3, <2>1, <3>1 DEF multiset_calls, txmultiset_tx_exec_insert, Insertion
      <3>3. PICK w0 : w0 = picotm_rwstate_try_wrlock(Call) /\ Taking(w0) /\ w0.locks = <<"WRLOCKED">>
        BY NothingTaken, LocksAppended, WriterLock
      <3>4. v = [[w0 EXCEPT !.events = ev] EXCEPT !.allowed = Free(t, e)]
        BY <3>2, <3>3 DEF WriteLocked
      <3>5. v.events = ev /\ v.locks = w0.locks /\ (v.allowed => Free(t, e))
        BY <3>3, <3>4 DEF Taking
      <3> QED  BY <3>1, <3>3, <3>5
    <2>3. e \in Entries
      BY <1>3, <2>1 DEF Enqueueing
    <2>4. OneCall(t, o, v, "MULTISET_INSERT", e, <<"WRLOCKED">>, FALSE)
      BY <2>2, <2>3, WritingIs DEF OneCall, Pushing, Popping
    <2> QED  BY <2>1, <2>4, OneCallFits
  <1>4. CASE c.op = "erase"
    <2>1. PICK v, e, w : v = multiset_calls(t, c) /\ e = c.entry /\ w = MultisetErase(o, e)
      OBVIOUS
    <2>2. /\ v.events = <<w>> /\ v.locks = <<"WRLOCKED">>
          /\ v.allowed => e \in Contents(state[o], o)
      <3>1. PICK ev : ev = <<w>>
        OBVIOUS
      <3>2. v = [WriteLocked(ev) EXCEPT !.allowed = e \in Contents(state[o], o)]
        BY <1>4, <2>1, <3>1 DEF multiset_calls, txmultiset_tx_exec_erase, Removal
      <3>3. PICK w0 : w0 = picotm_rwstate_try_wrlock(Call) /\ Taking(w0) /\ w0.locks = <<"WRLOCKED">>
        BY NothingTaken, LocksAppended, WriterLock
      <3>4. v = [[w0 EXCEPT !.events = ev] EXCEPT !.allowed = e \in Contents(state[o], o)]
        BY <3>2, <3>3 DEF WriteLocked
      <3>5. v.events = ev /\ v.locks = w0.locks /\ (v.allowed => e \in Contents(state[o], o))
        BY <3>3, <3>4 DEF Taking
      <3> QED  BY <3>1, <3>3, <3>5
    <2>3. ASSUME e \in Contents(state[o], o) PROVE Effects(t, o, <<"WRLOCKED">>, <<w>>)
      <3>1. e \in Entries
        BY <2>3 DEF Contents, EntriesOf
      <3>2. w.op = "MULTISET_ERASE" /\ w.object = o /\ w.entry = e /\ w \in Records
        BY <2>1, <3>1 DEF MultisetErase, Event, Records, Removing
      <3>3. w \in LogEvents
        BY <3>2 DEF LogEvents, Fitting
      <3> QED  BY <2>3, <3>2, <3>3, SingleErasure, WritingIs
    <2>4. CallFits(t, o, v)
      BY <2>2, <2>3, WritingIs DEF CallFits
    <2> QED  BY <2>1, <2>4
  <1>5. CASE c.op = "clear"
    <2>1. PICK v, n : v = multiset_calls(t, c) /\ n = Cardinality(EntriesOf(state[o]))
      OBVIOUS
    <2>2. v = txmultiset_tx_exec_clear(t, c)
      BY <1>5, <2>1 DEF multiset_calls
    <2>3. PICK f : FrontsErased(state[o], f, n) /\ v = WriteLocked(Fronts(o, f, n))
      BY <2>1, <2>2, ClearedTree
    <2>4. PICK ev : ev = Fronts(o, f, n)
      OBVIOUS
    <2>5. Effects(t, o, <<"WRLOCKED">>, ev)
      BY <2>1, <2>3, <2>4, MultisetCleared, WritingIs
    <2>6. CallFits(t, o, v)
      BY <2>3, <2>4, <2>5, WritingIs DEF CallFits
    <2> QED  BY <2>1, <2>6
  <1> QED  BY <1>1, <1>2, <1>3, <1>4, <1>5, <1>6

(* Whatever the object, a call that is allowed fits the state.             *)
LEMMA CallsFit ==
    ASSUME NEW t \in Threads, NEW m \in Menus, NEW c \in m, NEW o, o = c.object,
           \A p \in Objects : ValueFits(state[p], p) /\ SeqFits(tx[t].local[p])
    PROVE  o \in Objects /\ CallFits(t, o, txlib_module(t, c))
  <1>1. o \in Objects /\ c.op \in Operations(Kind[o]) /\ (c.op \in Enqueueing => c.entry \in Entries)
    BY CallsAssumption
  <1>2. Kind[o] \in {"list", "queue", "stack", "multiset"}
    BY <1>1, KindAssumption
  <1>3. CASE Kind[o] = "list"
    <2>1. SeqFits(state[o]) /\ txlib_module(t, c) = list_calls(t, c)
      BY <1>1, <1>3 DEF ValueFits, txlib_module
    <2> QED  BY <1>1, <1>3, <2>1, ListCalls
  <1>4. CASE Kind[o] = "queue"
    <2>1. SeqFits(state[o]) /\ txlib_module(t, c) = queue_calls(t, c)
      BY <1>1, <1>4 DEF ValueFits, txlib_module
    <2> QED  BY <1>1, <1>4, <2>1, QueueCalls
  <1>5. CASE Kind[o] = "stack"
    <2>1. SeqFits(state[o]) /\ txlib_module(t, c) = stack_calls(t, c)
      BY <1>1, <1>5 DEF ValueFits, txlib_module
    <2> QED  BY <1>1, <1>5, <2>1, StackCalls
  <1>6. CASE Kind[o] = "multiset"
    <2>1. TreeFits(state[o]) /\ txlib_module(t, c) = multiset_calls(t, c)
      BY <1>1, <1>6 DEF ValueFits, txlib_module
    <2> QED  BY <1>1, <1>6, <2>1, MultisetCalls
  <1> QED  BY <1>2, <1>3, <1>4, <1>5, <1>6

-----------------------------------------------------------------------------
(* Steps.                                                                  *)

Granted(t, o, locks) ==
    /\ t \in Threads /\ o \in Objects /\ locks \in Seq(Statuses)
    /\ \A k \in DOMAIN locks : Grantable(t, o, locks[k])

LEMMA LocksFit ==
    ASSUME NEW t, NEW o, NEW locks, Granted(t, o, locks), LibInv(state, tx, phase, log, applied),
           phase[t] # "out", NEW X, X = Locked(t, o, locks)
    PROVE  /\ LibInv(state, X, phase, log, applied)
           /\ \A u \in Threads : X[u].local = tx[u].local
           /\ "WRLOCKED" \in ToSet(locks) => X[t].rwstate[o] = "WRLOCKED"
  <1> USE DEF Granted
  <1>1. PICK q : q = IF "WRLOCKED" \in ToSet(locks) THEN "WRLOCKED"
                   ELSE IF "RDLOCKED" \in ToSet(locks) /\ tx[t].rwstate[o] = "UNLOCKED" THEN "RDLOCKED"
                   ELSE tx[t].rwstate[o]
    OBVIOUS
  <1>2. Gets(tx, X, t, o, q)
    BY <1>1, Zenon DEF Gets, Locked
  <1>3. tx[t].rwstate[o] \in Statuses /\ tx \in [Threads -> Transactions]
        /\ \A u \in Threads : tx[u].rwstate[o] \in Statuses
    BY DEF LibInv, LibTypes, Transactions
  <1>4. \A a \in ToSet(locks) : Grantable(t, o, a)
    BY DEF ToSet
  <1>5. q = "WRLOCKED" => \/ tx[t].rwstate[o] = "WRLOCKED"
                          \/ \A u \in Threads \ {t} : tx[u].rwstate[o] = "UNLOCKED"
    <2> SUFFICES ASSUME "WRLOCKED" \in ToSet(locks), tx[t].rwstate[o] # "WRLOCKED"
                 PROVE  \A u \in Threads \ {t} : tx[u].rwstate[o] = "UNLOCKED"
      BY <1>1
    <2>1. Grantable(t, o, "WRLOCKED")
      BY <1>4
    <2>2. {tx[u].rwstate[o] : u \in Threads \ {t}} \subseteq {"UNLOCKED"}
      BY <2>1 DEF Grantable
    <2> QED  BY <2>2
  <1>6. q = "RDLOCKED" => \/ tx[t].rwstate[o] # "UNLOCKED"
                          \/ \A u \in Threads \ {t} : tx[u].rwstate[o] # "WRLOCKED"
    <2> SUFFICES ASSUME "RDLOCKED" \in ToSet(locks), tx[t].rwstate[o] = "UNLOCKED"
                 PROVE  \A u \in Threads \ {t} : tx[u].rwstate[o] # "WRLOCKED"
      BY <1>1
    <2>1. Grantable(t, o, "RDLOCKED")
      BY <1>4
    <2>2. "WRLOCKED" \notin {tx[u].rwstate[o] : u \in Threads \ {t}}
      BY <2>1 DEF Grantable
    <2> QED  BY <2>2
  <1>7. q \in Statuses /\ (tx[t].rwstate[o] = "WRLOCKED" => q = "WRLOCKED")
        /\ ("WRLOCKED" \in ToSet(locks) => q = "WRLOCKED")
    BY <1>1, <1>3 DEF Statuses
  <1>8. /\ LibInv(state, X, phase, log, applied)
        /\ X[t].rwstate[o] = q /\ \A u \in Threads : X[u].local = tx[u].local
    BY <1>2, <1>5, <1>6, <1>7, LockTaken
  <1> QED  BY <1>7, <1>8

EventsAppended(t, o, v, k, n) ==
    \E f : /\ AfterEvents(Value(state[o], tx[t].local[o]), v.events, f, k)
           /\ state' = StateWith(state, o, f[k])
           /\ tx' = TxWith(Locked(t, o, v.locks), t, o, f[k])
           /\ log' = [log EXCEPT ![t] = log[t] \o SubSeq(v.events, 1, n)]

LEMMA AppendedEvents ==
    ASSUME NEW t, NEW c, NEW v, NEW k \in Nat, NEW n, txlib_tx_append_events(t, c, v, k, n), NEW o, o = c.object
    PROVE  EventsAppended(t, o, v, k, n)
  <1> DEFINE Eq(h) == h = [j \in 0 .. k |-> IF j = 0 THEN Before(t, c.object)
                                            ELSE txlib_event_exec(h[j - 1], v.events[j])]
             after == CHOOSE h : Eq(h)
  <1>1. /\ state' = [state EXCEPT ![c.object] = after[k].state]
        /\ tx' = [Locked(t, c.object, v.locks) EXCEPT ![t].local[c.object] = after[k].local]
        /\ log' = [log EXCEPT ![t] = log[t] \o SubSeq(v.events, 1, n)]
    BY Zenon DEF txlib_tx_append_events
  <1>2. \E f : Eq(f)
    <2>1. PICK z, ev : z = Before(t, c.object) /\ ev = v.events
      OBVIOUS
    <2>2. PICK f : EventsFrom(f, z, ev, k)
      BY AfterExists
    <2>3. Eq(f)
      BY <2>1, <2>2, Zenon DEF EventsFrom
    <2> QED  BY <2>3
  <1>3. Eq(after)
    BY <1>2, Zenon
  <1>4. PICK f : f = after
    OBVIOUS
  <1>5. f = [j \in 0 .. k |-> IF j = 0 THEN Before(t, c.object)
                                            ELSE txlib_event_exec(f[j - 1], v.events[j])]
    <2> HIDE DEF after
    <2> QED  BY <1>3, <1>4
  <1>6. \A j \in 0 .. k : f[j] = IF j = 0 THEN Before(t, c.object) ELSE txlib_event_exec(f[j - 1], v.events[j])
    BY <1>5
  <1> HIDE DEF after
  <1>7. 0 \in 0 .. k /\ \A j \in 1 .. k : j \in 0 .. k /\ j # 0
    OBVIOUS
  <1>8. Before(t, o) = Value(state[o], tx[t].local[o])
    BY DEF Before, Value
  <1>9. AfterEvents(Value(state[o], tx[t].local[o]), v.events, f, k)
    BY <1>6, <1>7, <1>8 DEF AfterEvents
  <1>10. state' = StateWith(state, o, f[k]) /\ tx' = TxWith(Locked(t, o, v.locks), t, o, f[k])
    BY <1>1, <1>4 DEF StateWith, TxWith
  <1> QED  BY <1>1, <1>9, <1>10 DEF EventsAppended

LEMMA CallSuitable ==
    ASSUME NEW t \in Threads, NEW o \in Objects, NEW v, CallFits(t, o, v), v.allowed,
           LibInv(state, tx, phase, log, applied),
           NEW X, \A u \in Threads : X[u].local = tx[u].local,
           "WRLOCKED" \in ToSet(v.locks) => X[t].rwstate[o] = "WRLOCKED"
    PROVE  v.events \in Seq(LogEvents) /\ Suitable(state, X, log, t, o, v.events)
  <1>0. PICK ev : ev = v.events
    OBVIOUS
  <1>1. Effects(t, o, v.locks, ev)
    BY <1>0 DEF CallFits
  <1>2. CASE ev = <<>>
    BY <1>0, <1>2 DEF Suitable
  <1>3. CASE /\ "WRLOCKED" \in ToSet(v.locks)
             /\ ev \in Seq(LogEvents) /\ \A k \in 1 .. Len(ev) : ev[k].object = o
             /\ Erases(state[o], o, ev)
    BY <1>0, <1>3 DEF Suitable
  <1>4. CASE Len(ev) = 1 /\ ev \in Seq(LogEvents) /\ OneEvent(t, o, ev[1], v.locks)
    <2>1. PICK e : e = ev[1]
      OBVIOUS
    <2>2. /\ e \in LogEvents /\ e.object = o /\ e.op # "LIST_ERASE"
          /\ InLocal(e) \/ "WRLOCKED" \in ToSet(v.locks)
          /\ Ready(state[o], tx[t].local[o], e)
          /\ Adds(e) => Free(t, e.entry)
      BY <1>4, <2>1 DEF OneEvent
    <2>3. ASSUME Free(t, e.entry)
          PROVE  /\ Nowhere(Shared(state), Locals(X), e.entry)
                 /\ \A u \in Threads \ {t} : \A k \in 1 .. Len(log[u]) : log[u][k].entry # e.entry
      <3>1. \A p \in Objects : /\ e.entry \notin Contents(state[p], p)
                               /\ \A u \in Threads : e.entry \notin ToSet(tx[u].local[p])
        BY <2>3 DEF Free
      <3>2. \A u \in Threads : DOMAIN log[u] = 1 .. Len(log[u])
        BY DEF LibInv, LibTypes
      <3>3. \A u \in Threads \ {t} : \A k \in 1 .. Len(log[u]) : log[u][k].entry # e.entry
        BY <2>3, <3>2 DEF Free
      <3>4. Nowhere(Shared(state), Locals(X), e.entry)
        BY <3>1 DEF Nowhere, Shared, Locals
      <3> QED  BY <3>3, <3>4
    <2>4. MayLog(state, X, log, t, e)
      BY <2>2, <2>3 DEF MayLog
    <2>5. \A k \in 1 .. Len(ev) : ev[k].object = o
      BY <1>4, <2>1, <2>2
    <2> QED  BY <1>0, <1>4, <2>1, <2>4, <2>5 DEF Suitable
  <1> QED  BY <1>1, <1>2, <1>3, <1>4 DEF Effects

LEMMA CallAppended ==
    ASSUME Risks = {}, LibInv(state, tx, phase, log, applied), NEW t \in Threads, phase[t] = "run",
           NEW c, NEW o \in Objects, o = c.object, NEW v, CallFits(t, o, v), v.allowed,
           \A k \in DOMAIN v.locks : Grantable(t, o, v.locks[k]),
           NEW k, k = 0 \/ k = Len(v.events), txlib_tx_append_events(t, c, v, k, k)
    PROVE  LibInv(state', tx', phase, log', applied)
  <1>1. PICK X : X = Locked(t, o, v.locks)
    OBVIOUS
  <1>2. Granted(t, o, v.locks)
    BY DEF Granted, CallFits
  <1>3. /\ LibInv(state, X, phase, log, applied)
        /\ \A u \in Threads : X[u].local = tx[u].local
        /\ "WRLOCKED" \in ToSet(v.locks) => X[t].rwstate[o] = "WRLOCKED"
    BY <1>1, <1>2, LocksFit
  <1>4. v.events \in Seq(LogEvents) /\ Suitable(state, X, log, t, o, v.events)
    BY <1>3, CallSuitable
  <1>5. PICK ev \in Seq(LogEvents) : /\ Suitable(state, X, log, t, o, ev) /\ Len(ev) = k
                                     /\ SubSeq(v.events, 1, k) = ev /\ \A j \in 1 .. k : ev[j] = v.events[j]
    <2>1. CASE k = 0
      <3>1. Suitable(state, X, log, t, o, <<>>)
        BY DEF Suitable
      <3>2. \A s \in Seq(LogEvents) : SubSeq(s, 1, 0) = <<>>
        OBVIOUS
      <3>3. <<>> \in Seq(LogEvents) /\ Len(<<>>) = 0
        OBVIOUS
      <3>4. SubSeq(v.events, 1, k) = <<>>
        BY <1>4, <2>1, <3>2
      <3>5. \A j \in 1 .. k : FALSE
        BY <2>1
      <3> QED  BY <2>1, <3>1, <3>3, <3>4, <3>5
    <2>2. CASE k = Len(v.events)
      <3>1. \A s \in Seq(LogEvents) : SubSeq(s, 1, Len(s)) = s
        OBVIOUS
      <3> QED  BY <1>4, <2>2, <3>1
    <2> QED  BY <2>1, <2>2
  <1>6. k \in Nat
    BY <1>5
  <1>7. PICK f : /\ AfterEvents(Value(state[o], tx[t].local[o]), v.events, f, k)
                 /\ state' = StateWith(state, o, f[k])
                 /\ tx' = TxWith(Locked(t, o, v.locks), t, o, f[k])
                 /\ log' = [log EXCEPT ![t] = log[t] \o SubSeq(v.events, 1, k)]
    <2>1. EventsAppended(t, o, v, k, k)
      BY <1>6, AppendedEvents
    <2> QED  BY <2>1, Zenon DEF EventsAppended
  <1>8. AfterEvents(Value(state[o], X[t].local[o]), ev, f, Len(ev))
    BY <1>3, <1>5, <1>7 DEF AfterEvents
  <1>9. PICK S2, X2, L2 : S2 = state' /\ X2 = tx' /\ L2 = log'
    OBVIOUS
  <1>10. /\ S2 = StateWith(state, o, f[Len(ev)]) /\ X2 = TxWith(X, t, o, f[Len(ev)])
         /\ L2 = [log EXCEPT ![t] = log[t] \o ev]
    BY <1>1, <1>5, <1>7, <1>9
  <1>11. LibInv(S2, X2, phase, L2, applied)
    BY <1>3, <1>5, <1>8, <1>10, EventsLogged
  <1> QED  BY <1>9, <1>11

-----------------------------------------------------------------------------
(* The inductive invariant.                                                *)

HistoriesFit ==
    /\ history = [t \in Threads |-> history[t]]
    /\ \A t \in Threads : /\ \E T : history[t] \in Seq(T)
                          /\ Len(history[t]) <= MAX_CALLS

TLInv ==
    /\ LibInv(state, tx, phase, log, applied)
    /\ menu \in Menus /\ started \in [Threads -> 0 .. MAX_TX]
    /\ HistoriesFit

LEMMA HistoryChanged ==
    ASSUME HistoriesFit, NEW t \in Threads
    PROVE  /\ history' = history => HistoriesFit'
           /\ history' = [history EXCEPT ![t] = <<>>] => HistoriesFit'
           /\ \A x : Len(history[t]) < MAX_CALLS /\ history' = [history EXCEPT ![t] = Append(history[t], x)]
                         => HistoriesFit'
  <1>1. DOMAIN history = Threads /\ \A u \in Threads : Len(history[u]) \in Nat
    BY DEF HistoriesFit
  <1>2. history' = history => HistoriesFit'
    BY DEF HistoriesFit
  <1>3. ASSUME history' = [history EXCEPT ![t] = <<>>] PROVE HistoriesFit'
    <2>1. \A u \in Threads : history'[u] = IF u = t THEN <<>> ELSE history[u]
      BY <1>1, <1>3
    <2>2. history' = [u \in Threads |-> history'[u]]
      BY <1>1, <1>3
    <2>3. <<>> \in Seq({}) /\ Len(<<>>) = 0 /\ 0 <= MAX_CALLS
      BY BoundsAssumption
    <2> QED  BY <2>1, <2>2, <2>3 DEF HistoriesFit
  <1>4. ASSUME NEW x, Len(history[t]) < MAX_CALLS, history' = [history EXCEPT ![t] = Append(history[t], x)]
        PROVE  HistoriesFit'
    <2>1. \A u \in Threads : history'[u] = IF u = t THEN Append(history[t], x) ELSE history[u]
      BY <1>1, <1>4
    <2>2. history' = [u \in Threads |-> history'[u]]
      BY <1>1, <1>4
    <2>3. PICK T : history[t] \in Seq(T)
      BY DEF HistoriesFit
    <2>4. \E T2 : Append(history[t], x) \in Seq(T2)
      <3>1. PICK h \in Seq(T) : h = history[t]
        BY <2>3
      <3>2. h \in Seq(T \cup {x}) /\ x \in T \cup {x}
        OBVIOUS
      <3>3. Append(h, x) \in Seq(T \cup {x})
        BY <3>2
      <3> QED  BY <3>1, <3>3
    <2>5. Len(Append(history[t], x)) = Len(history[t]) + 1
      BY <2>3
    <2>6. Len(Append(history[t], x)) <= MAX_CALLS
      BY <1>1, <1>4, <2>5, BoundsAssumption
    <2> QED  BY <2>1, <2>2, <2>4, <2>6 DEF HistoriesFit
  <1> QED  BY <1>2, <1>3, <1>4

LEMMA RunningFits ==
    ASSUME TLInv, NEW t \in Threads, NEW c \in menu, NEW v, v = txlib_module(t, c), NEW o, o = c.object
    PROVE  o \in Objects /\ CallFits(t, o, v)
  <1>1. \A p \in Objects : ValueFits(state[p], p) /\ SeqFits(tx[t].local[p])
    BY DEF TLInv, LibInv, LibTypes
  <1> QED  BY <1>1, CallsFit DEF TLInv

LEMMA ExecKeeps ==
    ASSUME Risks = {}, TLInv, NEW t \in Threads, NEW c \in menu, Exec(t, c)
    PROVE  TLInv'
  <1>1. PICK v, o : v = txlib_module(t, c) /\ o = c.object
    OBVIOUS
  <1>2. o \in Objects /\ CallFits(t, o, v)
    BY <1>1, RunningFits
  <1>3. /\ phase[t] = "run" /\ Len(history[t]) < MAX_CALLS
        /\ \A k \in DOMAIN v.locks : Grantable(t, o, v.locks[k])
        /\ v.allowed
        /\ txlib_tx_append_events(t, c, v, Len(v.events), Len(v.events))
        /\ history' = [history EXCEPT ![t] = Append(history[t], <<c, v.answer>>)]
        /\ UNCHANGED <<menu, phase, started, applied>>
    BY <1>1, Zenon DEF Exec
  <1>4. LibInv(state', tx', phase, log', applied)
    BY <1>1, <1>2, <1>3, CallAppended DEF TLInv
  <1>5. LibInv(state', tx', phase', log', applied')
    BY <1>3, <1>4
  <1>6. HistoriesFit'
    <2>1. HistoriesFit
      BY DEF TLInv
    <2> QED  BY <1>3, <2>1, HistoryChanged
  <1> QED  BY <1>3, <1>5, <1>6 DEF TLInv

LEMMA TurnsBack ==
    ASSUME NEW S, NEW X, NEW L, LibInv(S, X, phase, L, applied), NEW t \in Threads,
           phase[t] \in {"run", "prepare"},
           phase' = [phase EXCEPT ![t] = "undo"], applied' = [applied EXCEPT ![t] = Len(L[t])]
    PROVE  LibInv(S, X, phase', L, applied')
  <1>1. PICK P2, A2 : P2 = phase' /\ A2 = applied'
    OBVIOUS
  <1>2. PhaseStep(X, phase, L, applied, P2, A2, t, "undo")
    BY <1>1 DEF PhaseStep
  <1>3. LibInv(S, X, P2, L, A2)
    BY <1>2, PhaseChanged
  <1> QED  BY <1>1, <1>3

LEMMA RollsBack ==
    ASSUME TLInv, NEW t \in Threads, phase[t] \in {"run", "prepare"},
           LibInv(state', tx', phase, log', applied), RollBack(t), UNCHANGED <<menu, started>>
    PROVE  TLInv'
  <1>1. /\ phase' = [phase EXCEPT ![t] = "undo"]
        /\ applied' = [applied EXCEPT ![t] = Len(log'[t])]
        /\ history' = [history EXCEPT ![t] = <<>>]
    BY DEF RollBack
  <1>2. PICK S, X, L : S = state' /\ X = tx' /\ L = log'
    OBVIOUS
  <1>3. LibInv(S, X, phase', L, applied')
    BY <1>1, <1>2, TurnsBack
  <1>4. HistoriesFit'
    BY <1>1, HistoryChanged DEF TLInv
  <1> QED  BY <1>2, <1>3, <1>4 DEF TLInv

LEMMA NoMemoryKeeps ==
    ASSUME Risks = {}, TLInv, NEW t \in Threads, NEW c \in menu, NoMemory(t, c)
    PROVE  TLInv'
  <1>1. PICK v, o : v = txlib_module(t, c) /\ o = c.object
    OBVIOUS
  <1>2. o \in Objects /\ CallFits(t, o, v)
    BY <1>1, RunningFits
  <1>3. /\ phase[t] = "run"
        /\ \A k \in DOMAIN v.locks : Grantable(t, o, v.locks[k])
        /\ v.allowed
        /\ txlib_tx_append_events(t, c, v, 0, 0)
        /\ UNCHANGED <<menu, started>> /\ RollBack(t)
    <2>1. "no memory" \notin Risks
      OBVIOUS
    <2> QED  BY <1>1, <2>1, Zenon DEF NoMemory
  <1>4. LibInv(state', tx', phase, log', applied)
    BY <1>1, <1>2, <1>3, CallAppended DEF TLInv
  <1> QED  BY <1>3, <1>4, RollsBack

LEMMA ConflictKeeps ==
    ASSUME TLInv, NEW t \in Threads, NEW c \in menu, Conflict(t, c)
    PROVE  TLInv'
  <1>1. PICK v, o : v = txlib_module(t, c) /\ o = c.object
    OBVIOUS
  <1>2. o \in Objects /\ CallFits(t, o, v)
    BY <1>1, RunningFits
  <1>3. /\ phase[t] = "run"
        /\ \E k \in {k \in DOMAIN v.locks : ~Grantable(t, o, v.locks[k])} :
               /\ \A j \in 1 .. k - 1 : j \notin {i \in DOMAIN v.locks : ~Grantable(t, o, v.locks[i])}
               /\ tx' = Locked(t, o, SubSeq(v.locks, 1, k - 1))
        /\ state' = state /\ log' = log /\ UNCHANGED <<menu, started>> /\ RollBack(t)
    BY <1>1, Zenon DEF Conflict
  <1>4. PICK k \in DOMAIN v.locks :
            /\ \A j \in 1 .. k - 1 : j \in DOMAIN v.locks => Grantable(t, o, v.locks[j])
            /\ tx' = Locked(t, o, SubSeq(v.locks, 1, k - 1))
    BY <1>3
  <1>5. PICK locks \in Seq(Statuses) : locks = v.locks
    BY <1>2 DEF CallFits
  <1>6. PICK n \in Nat : n = k - 1 /\ n < Len(locks)
    BY <1>4, <1>5
  <1>7. PICK r \in Seq(Statuses) : r = SubSeq(locks, 1, n) /\ Len(r) = n /\ \A i \in 1 .. n : r[i] = locks[i]
    <2>1. \A m \in Nat : m <= Len(locks) => /\ SubSeq(locks, 1, m) \in Seq(Statuses)
                                            /\ Len(SubSeq(locks, 1, m)) = m
                                            /\ \A i \in 1 .. m : SubSeq(locks, 1, m)[i] = locks[i]
      OBVIOUS
    <2>2. n <= Len(locks)
      BY <1>6
    <2> QED  BY <2>1, <2>2, Zenon
  <1>8. Granted(t, o, r)
    <2>1. \A i \in DOMAIN r : i \in 1 .. k - 1 /\ i \in DOMAIN v.locks /\ r[i] = v.locks[i]
      BY <1>5, <1>6, <1>7
    <2> QED  BY <1>2, <1>4, <1>7, <2>1 DEF Granted
  <1>9. PICK X : X = Locked(t, o, r)
    OBVIOUS
  <1>10. LibInv(state, X, phase, log, applied)
    BY <1>3, <1>8, <1>9, LocksFit DEF TLInv
  <1>11. LibInv(state', tx', phase, log', applied)
    BY <1>3, <1>4, <1>5, <1>6, <1>7, <1>9, <1>10
  <1> QED  BY <1>3, <1>11, RollsBack

(* The steps of a transaction that change its phase only.                  *)
LEMMA PhaseKeeps ==
    ASSUME TLInv, NEW t \in Threads, NEW q, PhaseStep(tx, phase, log, applied, phase', applied', t, q),
           UNCHANGED <<state, tx, log>>, menu' = menu, started' \in [Threads -> 0 .. MAX_TX],
           history' = history \/ history' = [history EXCEPT ![t] = <<>>]
    PROVE  TLInv'
  <1>1. PICK P2, A2 : P2 = phase' /\ A2 = applied'
    OBVIOUS
  <1>2. LibInv(state, tx, phase, log, applied) /\ HistoriesFit
    BY DEF TLInv
  <1>3. PhaseStep(tx, phase, log, applied, P2, A2, t, q)
    BY <1>1
  <1>4. LibInv(state, tx, P2, log, A2)
    BY <1>2, <1>3, PhaseChanged
  <1>5. HistoriesFit'
    BY <1>2, HistoryChanged
  <1> QED  BY <1>1, <1>4, <1>5 DEF TLInv

LEMMA PhasesKeep ==
    ASSUME TLInv, NEW t \in Threads, Begin(t) \/ txlib_tx_prepare_commit(t) \/ Commit(t)
    PROVE  TLInv'
  <1>1. CASE Begin(t)
    <2>1. PhaseStep(tx, phase, log, applied, phase', applied', t, "run")
      BY <1>1 DEF Begin, PhaseStep
    <2>2. started' \in [Threads -> 0 .. MAX_TX]
      BY <1>1, BoundsAssumption DEF Begin, TLInv
    <2> QED  BY <1>1, <2>1, <2>2, PhaseKeeps DEF Begin
  <1>2. CASE txlib_tx_prepare_commit(t)
    <2>1. PhaseStep(tx, phase, log, applied, phase', applied', t, "prepare")
      BY <1>2 DEF txlib_tx_prepare_commit, PhaseStep
    <2> QED  BY <1>2, <2>1, PhaseKeeps DEF txlib_tx_prepare_commit, TLInv
  <1>3. CASE Commit(t)
    <2>1. \A o \in Objects : tx[t].local[o] # <<>> => tx[t].rwstate[o] = "WRLOCKED"
      BY <1>3 DEF Commit, Unprepared
    <2>2. PhaseStep(tx, phase, log, applied, phase', applied', t, "apply")
      BY <1>3, <2>1 DEF Commit, PhaseStep
    <2> QED  BY <1>3, <2>2, PhaseKeeps DEF Commit, TLInv
  <1> QED  BY <1>1, <1>2, <1>3

LEMMA PrepareKeeps ==
    ASSUME TLInv, NEW t \in Threads, Prepare(t)
    PROVE  TLInv'
  <1>1. PICK o \in Unprepared(t) : txqueue_tx_lock(t, o)
    BY DEF Prepare, txstack_tx_lock
  <1>2. o \in Objects /\ phase[t] = "prepare"
    BY <1>1 DEF Prepare, Unprepared
  <1>3. CASE Grantable(t, o, "WRLOCKED")
    <2>1. tx' = Locked(t, o, <<"WRLOCKED">>) /\ UNCHANGED <<state, menu, phase, started, log, applied, history>>
      BY <1>1, <1>3 DEF txqueue_tx_lock, txVars
    <2>2. Granted(t, o, <<"WRLOCKED">>)
      BY <1>2, <1>3, WritingIs DEF Granted
    <2>3. PICK X : X = Locked(t, o, <<"WRLOCKED">>)
      OBVIOUS
    <2>4. LibInv(state, X, phase, log, applied)
      BY <1>2, <2>2, <2>3, LocksFit DEF TLInv
    <2>5. HistoriesFit'
      BY <2>1, HistoryChanged DEF TLInv
    <2> QED  BY <2>1, <2>3, <2>4, <2>5 DEF TLInv
  <1>4. CASE ~Grantable(t, o, "WRLOCKED")
    <2>1. UNCHANGED <<state, tx, menu, started, log>> /\ RollBack(t)
      BY <1>1, <1>4 DEF txqueue_tx_lock
    <2>2. LibInv(state', tx', phase, log', applied)
      BY <2>1 DEF TLInv
    <2> QED  BY <1>2, <2>1, <2>2, RollsBack
  <1> QED  BY <1>3, <1>4

LEMMA ApplyKeeps ==
    ASSUME TLInv, NEW t \in Threads, txlib_tx_apply_event(t)
    PROVE  TLInv'
  <1>1. PICK v, o : v = log[t][applied[t] + 1] /\ o = v.object
    OBVIOUS
  <1>2. /\ phase[t] = "apply" /\ applied[t] < Len(log[t])
        /\ Replace(t, o, txlib_event_apply(Before(t, o), v))
        /\ applied' = [applied EXCEPT ![t] = applied[t] + 1]
        /\ UNCHANGED <<menu, phase, started, log, history>>
    BY <1>1, Zenon DEF txlib_tx_apply_event
  <1>3. LibInv(state, tx, phase, log, applied) /\ HistoriesFit
    BY DEF TLInv
  <1>4. PICK x2, y2 :
              /\ txlib_event_apply(Value(state[o], tx[t].local[o]), v) = Value(x2, y2)
              /\ \A S2, X2, A2 : Becomes(state, tx, S2, X2, t, o, x2, y2) /\ A2 = [applied EXCEPT ![t] = applied[t] + 1]
                                    => LibInv(S2, X2, phase, log, A2)
    BY <1>1, <1>2, <1>3, EventDelivered
  <1>5. Before(t, o) = Value(state[o], tx[t].local[o]) /\ Value(x2, y2).state = x2 /\ Value(x2, y2).local = y2
    BY DEF Before, Value
  <1>6. PICK S2, X2, A2 : S2 = state' /\ X2 = tx' /\ A2 = applied'
    OBVIOUS
  <1>7. Becomes(state, tx, S2, X2, t, o, x2, y2)
    BY <1>2, <1>4, <1>5, <1>6 DEF Becomes, Replace
  <1>8. LibInv(S2, X2, phase, log, A2)
    BY <1>2, <1>4, <1>6, <1>7
  <1>9. HistoriesFit'
    BY <1>2, <1>3, HistoryChanged
  <1> QED  BY <1>2, <1>6, <1>8, <1>9 DEF TLInv

LEMMA UndoKeeps ==
    ASSUME Risks = {}, TLInv, NEW t \in Threads, txlib_tx_undo_event(t)
    PROVE  TLInv'
  <1>1. PICK v, o : v = log[t][applied[t]] /\ o = v.object
    OBVIOUS
  <1>2. /\ phase[t] = "undo" /\ applied[t] > 0
        /\ Replace(t, o, txlib_event_undo(Before(t, o), v))
        /\ applied' = [applied EXCEPT ![t] = applied[t] - 1]
        /\ UNCHANGED <<menu, phase, started, log, history>>
    BY <1>1, Zenon DEF txlib_tx_undo_event
  <1>3. LibInv(state, tx, phase, log, applied) /\ HistoriesFit
    BY DEF TLInv
  <1>4. PICK x2, y2 :
              /\ txlib_event_undo(Value(state[o], tx[t].local[o]), v) = Value(x2, y2)
              /\ \A S2, X2, A2 : Becomes(state, tx, S2, X2, t, o, x2, y2) /\ A2 = [applied EXCEPT ![t] = applied[t] - 1]
                                    => LibInv(S2, X2, phase, log, A2)
    BY <1>1, <1>2, <1>3, EventTakenBack
  <1>5. Before(t, o) = Value(state[o], tx[t].local[o]) /\ Value(x2, y2).state = x2 /\ Value(x2, y2).local = y2
    BY DEF Before, Value
  <1>6. PICK S2, X2, A2 : S2 = state' /\ X2 = tx' /\ A2 = applied'
    OBVIOUS
  <1>7. Becomes(state, tx, S2, X2, t, o, x2, y2)
    BY <1>2, <1>4, <1>5, <1>6 DEF Becomes, Replace
  <1>8. LibInv(S2, X2, phase, log, A2)
    BY <1>2, <1>4, <1>6, <1>7
  <1>9. HistoriesFit'
    BY <1>2, <1>3, HistoryChanged
  <1> QED  BY <1>2, <1>6, <1>8, <1>9 DEF TLInv

LEMMA FinishKeeps ==
    ASSUME TLInv, NEW t \in Threads, txlib_tx_finish(t)
    PROVE  TLInv'
  <1>1. /\ \/ phase[t] = "apply" /\ applied[t] = Len(log[t])
           \/ phase[t] = "undo" /\ applied[t] = 0
        /\ tx' = [tx EXCEPT ![t].rwstate = [o \in Objects |-> "UNLOCKED"]]
        /\ phase' = [phase EXCEPT ![t] = "out"]
        /\ log' = [log EXCEPT ![t] = <<>>]
        /\ applied' = [applied EXCEPT ![t] = 0]
        /\ UNCHANGED <<state, menu, started, history>>
    BY DEF txlib_tx_finish, cleanup
  <1>2. LibInv(state, tx, phase, log, applied) /\ HistoriesFit
    BY DEF TLInv
  <1>3. PICK X2, P2, L2, A2 : X2 = tx' /\ P2 = phase' /\ L2 = log' /\ A2 = applied'
    OBVIOUS
  <1>4. LibInv(state, X2, P2, L2, A2)
    BY <1>1, <1>2, <1>3, TransactionEnds
  <1>5. HistoriesFit'
    BY <1>1, <1>2, HistoryChanged
  <1> QED  BY <1>1, <1>3, <1>4, <1>5 DEF TLInv

LEMMA StepKeeps ==
    ASSUME Risks = {}, TLInv, [TLNext]_tlVars
    PROVE  TLInv'
  <1>1. CASE UNCHANGED tlVars
    BY <1>1 DEF tlVars, txVars, TLInv, HistoriesFit
  <1>2. CASE TLNext
    <2>1. PICK t \in Threads :
              \/ Begin(t) \/ txlib_tx_prepare_commit(t) \/ Commit(t)
              \/ \E c \in menu : Exec(t, c) \/ Conflict(t, c) \/ NoMemory(t, c)
              \/ Prepare(t)
              \/ txlib_tx_apply_event(t)
              \/ txlib_tx_undo_event(t)
              \/ txlib_tx_finish(t)
      BY <1>2 DEF TLNext
    <2> QED  BY <2>1, PhasesKeep, ExecKeeps, ConflictKeeps, NoMemoryKeeps, PrepareKeeps,
                ApplyKeeps, UndoKeeps, FinishKeeps
  <1> QED  BY <1>1, <1>2

-----------------------------------------------------------------------------
(* The initial state.                                                      *)

BuiltFrom(s, f) ==
    /\ f[0] = txmultiset_state_init
    /\ \A k \in 1 .. Len(s) : TreeFits(f[k - 1]) => f[k] = txmultiset_state_insert(f[k - 1], s[k])

BuiltSoFar(s, f, k) == TreeFits(f[k]) /\ EntriesOf(f[k]) = {s[i] : i \in 1 .. k}

LEMMA BuiltFits ==
    ASSUME Risks = {}, NEW s, SeqFits(s), NEW f, BuiltFrom(s, f)
    PROVE  \A k \in 0 .. Len(s) : BuiltSoFar(s, f, k)
  <1>1. /\ Len(s) \in Nat /\ \A i \in 1 .. Len(s) : s[i] \in Entries
        /\ \A i, j \in 1 .. Len(s) : s[i] = s[j] => i = j
    BY DEF SeqFits, IsInjective
  <1> DEFINE T == {k \in Nat : k <= Len(s) => BuiltSoFar(s, f, k)}
  <1>2. 0 \in T
    <2>1. {s[i] : i \in 1 .. 0} = {}
      OBVIOUS
    <2> QED  BY <2>1, TreeStarts DEF BuiltFrom, BuiltSoFar
  <1>3. ASSUME NEW k \in T PROVE k + 1 \in T
    <2>0. k \in Nat /\ k + 1 \in Nat
      OBVIOUS
    <2> SUFFICES ASSUME k + 1 <= Len(s) PROVE BuiltSoFar(s, f, k + 1)
      BY <2>0
    <2>1. BuiltSoFar(s, f, k) /\ k + 1 \in 1 .. Len(s) /\ (k + 1) - 1 = k
      BY <1>1, <2>0
    <2>2. PICK x, e : x = f[k] /\ e = s[k + 1]
      OBVIOUS
    <2>3. TreeFits(x) /\ e \in Entries /\ EntriesOf(x) = {s[i] : i \in 1 .. k}
      BY <1>1, <2>1, <2>2 DEF BuiltSoFar
    <2>4. e \notin EntriesOf(x)
      <3> SUFFICES ASSUME NEW i \in 1 .. k, s[i] = e PROVE FALSE
        BY <2>3
      <3>1. i \in 1 .. Len(s) /\ i # k + 1
        BY <1>1, <2>0, <2>1
      <3> QED  BY <1>1, <2>1, <2>2, <3>1
    <2>5. f[k + 1] = txmultiset_state_insert(x, e)
      BY <2>1, <2>2, <2>3 DEF BuiltFrom
    <2>6. TreeFits(f[k + 1]) /\ EntriesOf(f[k + 1]) = EntriesOf(x) \cup {e}
      BY <2>3, <2>4, <2>5, TreeInserted
    <2>7. {s[i] : i \in 1 .. k + 1} = {s[i] : i \in 1 .. k} \cup {e}
      <3>1. \A i : i \in 1 .. k + 1 <=> i \in 1 .. k \/ i = k + 1
        BY <2>0
      <3> QED  BY <2>2, <3>1
    <2> QED  BY <2>3, <2>6, <2>7 DEF BuiltSoFar
  <1> HIDE DEF T
  <1>4. T = Nat
    <2>1. T \subseteq Nat
      BY DEF T
    <2> QED  BY <1>2, <1>3, <2>1, UpwardInduction
  <1> QED  BY <1>1, <1>4 DEF T

LEMMA TreeBuilt ==
    ASSUME Risks = {}, NEW s, SeqFits(s)
    PROVE  TreeFits(Inserted(s)) /\ EntriesOf(Inserted(s)) = ToSet(s)
  <1> DEFINE Eq(h) == h = [k \in 0 .. Len(s) |-> IF k = 0 THEN txmultiset_state_init
                                                 ELSE txmultiset_state_insert(h[k - 1], s[k])]
             tree == CHOOSE h : Eq(h)
             step == [x \in [Nodes -> Links] |-> [j \in Nat |-> txmultiset_state_insert(x, s[j])]]
  <1>0. Len(s) \in Nat /\ s \in Seq(Entries)
    BY DEF SeqFits
  <1>1. Inserted(s) = tree[Len(s)]
    BY Zenon DEF Inserted
  <1>2. PICK f : StepsFrom(f, txmultiset_state_init, step, Len(s))
    <2> HIDE DEF step
    <2> QED  BY <1>0, StepsExist
  <1>3. \A x \in [Nodes -> Links] : \A j \in Nat : step[x][j] = txmultiset_state_insert(x, s[j])
    OBVIOUS
  <1> HIDE DEF step
  <1>4. \A j \in 0 .. Len(s) : f[j] = IF j = 0 THEN txmultiset_state_init ELSE step[f[j - 1]][j]
    BY <1>2 DEF StepsFrom
  <1>5. f = [j \in 0 .. Len(s) |-> f[j]]
    BY <1>2, <1>4 DEF StepsFrom
  <1>6. f[0] = txmultiset_state_init /\ \A j \in 1 .. Len(s) : f[j] = step[f[j - 1]][j]
    <2>1. 0 \in 0 .. Len(s) /\ \A j \in 1 .. Len(s) : j \in 0 .. Len(s) /\ j # 0
      BY <1>0
    <2> QED  BY <1>4, <2>1
  <1>7. BuiltFrom(s, f)
    <2>1. \A x : TreeFits(x) => x \in [Nodes -> Links]
      BY DEF TreeFits
    <2>2. \A j \in 1 .. Len(s) : j \in Nat
      BY <1>0
    <2> QED  BY <1>3, <1>6, <2>1, <2>2 DEF BuiltFrom
  <1>8. \A k \in 0 .. Len(s) : TreeFits(f[k])
    BY <1>7, BuiltFits DEF BuiltSoFar
  <1>9. \A k \in 0 .. Len(s) : f[k] = IF k = 0 THEN txmultiset_state_init
                                      ELSE txmultiset_state_insert(f[k - 1], s[k])
    <2> SUFFICES ASSUME NEW k \in 0 .. Len(s), k # 0 PROVE f[k] = txmultiset_state_insert(f[k - 1], s[k])
      BY <1>6
    <2>1. k \in 1 .. Len(s) /\ k - 1 \in 0 .. Len(s)
      BY <1>0
    <2> QED  BY <1>7, <1>8, <2>1 DEF BuiltFrom
  <1>10. Eq(f)
    BY <1>5, <1>9
  <1> HIDE DEF Eq
  <1>11. Eq(tree)
    BY <1>10, Zenon
  <1>12. BuiltFrom(s, tree)
    <2> HIDE DEF tree
    <2>1. \A k \in 0 .. Len(s) : tree[k] = IF k = 0 THEN txmultiset_state_init
                                           ELSE txmultiset_state_insert(tree[k - 1], s[k])
      BY <1>11 DEF Eq
    <2> QED  BY <1>0, <2>1 DEF BuiltFrom
  <1> HIDE DEF tree
  <1>13. BuiltSoFar(s, tree, Len(s))
    BY <1>0, <1>12, BuiltFits
  <1>14. {s[i] : i \in 1 .. Len(s)} = ToSet(s)
    BY <1>0 DEF ToSet
  <1> QED  BY <1>1, <1>13, <1>14 DEF BuiltSoFar

LEMMA InitFits ==
    ASSUME Risks = {}, TLInit
    PROVE  TLInv
  <1>1. \A o \in Objects : SeqFits(Initially[o])
    BY InitiallyAssumption DEF SeqFits
  <1>2. /\ state = [o \in Objects |-> state[o]]
        /\ \A o \in Objects : ValueFits(state[o], o) /\ Contents(state[o], o) = ToSet(Initially[o])
    <2>1. state = [o \in Objects |-> IF Kind[o] # "multiset" THEN Initially[o] ELSE Inserted(Initially[o])]
      BY DEF TLInit
    <2>2. state = [o \in Objects |-> state[o]]
      BY <2>1
    <2>3. \A o \in Objects : state[o] = IF Kind[o] # "multiset" THEN Initially[o] ELSE Inserted(Initially[o])
      BY <2>1
    <2>4. \A o \in Objects : TreeFits(Inserted(Initially[o])) /\ EntriesOf(Inserted(Initially[o])) = ToSet(Initially[o])
      BY <1>1, TreeBuilt
    <2> QED  BY <1>1, <2>2, <2>3, <2>4 DEF ValueFits, Contents
  <1>3. /\ tx \in [Threads -> Transactions]
        /\ \A t \in Threads : \A o \in Objects : tx[t].local[o] = <<>> /\ tx[t].rwstate[o] = "UNLOCKED"
    BY DEF TLInit, txlib_tx_init, Transactions, Statuses
  <1>4. /\ phase = [t \in Threads |-> "out"] /\ log = [t \in Threads |-> <<>>]
        /\ applied = [t \in Threads |-> 0] /\ history = [t \in Threads |-> <<>>]
        /\ started = [t \in Threads |-> 0] /\ menu \in Menus
    BY DEF TLInit
  <1>5. SeqFits(<<>>) /\ ToSet(<<>>) = {}
    BY DEF SeqFits, IsInjective, ToSet
  <1>6. LibTypes(state, tx, phase, log, applied)
    BY <1>2, <1>3, <1>4, <1>5 DEF LibTypes, Phases
  <1>7. \A t \in Threads : \A o \in Objects : Locals(tx)[t][o] = {}
    BY <1>3, <1>5 DEF Locals
  <1>8. \A o \in Objects : Shared(state)[o] = ToSet(Initially[o])
    BY <1>2 DEF Shared
  <1>9. Apart(Shared(state), Locals(tx))
    BY <1>7, <1>8, InitiallyAssumption DEF Apart
  <1>10. Exclusive(Locks(tx)) /\ LogsDiffer(log)
    BY <1>3, <1>4 DEF Exclusive, Locks, LogsDiffer
  <1>11. ThreadsFit(state, tx, phase, log, applied)
    <2> SUFFICES ASSUME NEW t \in Threads
                 PROVE  ThreadFits(Shared(state), Locals(tx), tx[t].rwstate, phase[t], log[t], applied[t], t)
      BY DEF ThreadsFit
    <2>1. phase[t] = "out" /\ log[t] = <<>> /\ Len(log[t]) = 0 /\ applied[t] = 0
      BY <1>4
    <2>2. Active(phase[t], log[t], applied[t]) = 0
      BY <2>1 DEF Active
    <2>3. FromLog(Locals(tx), log[t], 0, t)
      BY <1>7 DEF FromLog
    <2>4. OwnFits(Shared(state), Locals(tx), tx[t].rwstate, log[t], t) /\ LogFits(log[t])
      BY <2>1 DEF OwnFits, LogFits
    <2>5. StaysPut(Shared(state), Locals(tx), log[t], 0, t) /\ PositionsFit(Shared(state), log[t], 0)
      BY DEF StaysPut, PositionsFit
    <2>6. PhaseFits(Locals(tx), tx[t].rwstate, phase[t], log[t], applied[t], t)
      BY <1>3, <2>1 DEF PhaseFits
    <2> QED  BY <2>2, <2>3, <2>4, <2>5, <2>6 DEF ThreadFits
  <1>12. OrdersFit(tx, phase, log, applied)
    BY <1>3, NoOrder DEF OrdersFit
  <1>13. LibInv(state, tx, phase, log, applied)
    BY <1>6, <1>9, <1>10, <1>11, <1>12 DEF LibInv
  <1>14. started \in [Threads -> 0 .. MAX_TX]
    BY <1>4, BoundsAssumption
  <1>15. HistoriesFit
    <2>1. <<>> \in Seq({}) /\ Len(<<>>) = 0 /\ 0 <= MAX_CALLS
      BY BoundsAssumption
    <2> QED  BY <1>4, <2>1 DEF HistoriesFit
  <1> QED  BY <1>4, <1>13, <1>14, <1>15 DEF TLInv

-----------------------------------------------------------------------------
(* Results.                                                                *)

LEMMA PlacesAre ==
    ASSUME NEW p \in Places
    PROVE  \/ \E o \in Objects : p = <<o>> /\ At(p) = Shared(state)[o]
           \/ \E t \in Threads, o \in Objects : p = <<t, o>> /\ At(p) = Locals(tx)[t][o]
  <1>1. CASE p \in {<<o>> : o \in Objects}
    <2>1. PICK o \in Objects : p = <<o>>
      BY <1>1
    <2>2. Len(p) = 1 /\ p[1] = o
      BY <2>1
    <2> QED  BY <2>1, <2>2 DEF At, Shared
  <1>2. CASE p \in Threads \X Objects
    <2>1. PICK t \in Threads, o \in Objects : p = <<t, o>>
      BY <1>2
    <2>2. Len(p) # 1 /\ p[1] = t /\ p[2] = o
      BY <2>1
    <2> QED  BY <2>1, <2>2 DEF At, Locals
  <1> QED  BY <1>1, <1>2 DEF Places

LEMMA InvariantTypes ==
    ASSUME TLInv
    PROVE  TLTypeOK
  <1>1. LibTypes(state, tx, phase, log, applied) /\ ThreadsFit(state, tx, phase, log, applied)
    BY DEF TLInv, LibInv
  <1>2. \A o \in Objects : IF Kind[o] = "multiset" THEN DOMAIN state[o] = Nodes
                                                  ELSE state[o] \in Seq(Entries)
    BY <1>1 DEF LibTypes, ValueFits, TreeFits, SeqFits
  <1>3. \A t \in Threads : /\ tx[t].rwstate \in [Objects -> {"UNLOCKED", "RDLOCKED", "WRLOCKED"}]
                           /\ tx[t].local \in [Objects -> Seq(Entries)]
                           /\ applied[t] \in 0 .. Len(log[t])
    BY <1>1 DEF LibTypes, Transactions, Statuses
  <1>4. \A t \in Threads : Len(history[t]) \in 0 .. MAX_CALLS
    <2> SUFFICES ASSUME NEW t \in Threads PROVE Len(history[t]) \in 0 .. MAX_CALLS
      OBVIOUS
    <2>1. PICK T : history[t] \in Seq(T)
      BY DEF TLInv, HistoriesFit
    <2>2. Len(history[t]) \in Nat
      BY <2>1
    <2> QED  BY <2>2, BoundsAssumption DEF TLInv, HistoriesFit
  <1>5. \A t \in Threads : phase[t] = "out" =>
                               log[t] = <<>> /\ \A o \in Objects : tx[t].rwstate[o] = "UNLOCKED"
    BY <1>1 DEF ThreadsFit, ThreadFits, PhaseFits
  <1> QED  BY <1>1, <1>2, <1>3, <1>4, <1>5 DEF TLTypeOK, LibTypes, Phases, TLInv

LEMMA InvariantPlaces ==
    ASSUME TLInv
    PROVE  EntryIsInOnePlace
  <1>1. Apart(Shared(state), Locals(tx))
    BY DEF TLInv, LibInv
  <1>2. ASSUME NEW p \in Places, NEW q \in Places, p # q
        PROVE  At(p) \cap At(q) = {}
    <2>1. CASE \E o \in Objects : p = <<o>> /\ At(p) = Shared(state)[o]
      <3>1. PICK o \in Objects : p = <<o>> /\ At(p) = Shared(state)[o]
        BY <2>1
      <3>2. CASE \E r \in Objects : q = <<r>> /\ At(q) = Shared(state)[r]
        BY <1>1, <1>2, <3>1, <3>2 DEF Apart
      <3>3. CASE \E u \in Threads, r \in Objects : q = <<u, r>> /\ At(q) = Locals(tx)[u][r]
        BY <1>1, <3>1, <3>3 DEF Apart
      <3> QED  BY <3>2, <3>3, PlacesAre
    <2>2. CASE \E t \in Threads, o \in Objects : p = <<t, o>> /\ At(p) = Locals(tx)[t][o]
      <3>1. PICK t \in Threads, o \in Objects : p = <<t, o>> /\ At(p) = Locals(tx)[t][o]
        BY <2>2
      <3>2. CASE \E r \in Objects : q = <<r>> /\ At(q) = Shared(state)[r]
        BY <1>1, <3>1, <3>2 DEF Apart
      <3>3. CASE \E u \in Threads, r \in Objects : q = <<u, r>> /\ At(q) = Locals(tx)[u][r]
        BY <1>1, <1>2, <3>1, <3>3 DEF Apart
      <3> QED  BY <3>2, <3>3, PlacesAre
    <2> QED  BY <2>1, <2>2, PlacesAre
  <1>3. \A o \in Objects : Kind[o] # "multiset" => IsInjective(state[o])
    BY DEF TLInv, LibInv, LibTypes, ValueFits, SeqFits
  <1> QED  BY <1>2, <1>3, InvariantTypes DEF EntryIsInOnePlace

(* The invariant: the entries of objects and of the transactions' local    *)
(* queues and stacks are apart; a transaction has the entries of its log   *)
(* for itself, and the log, read backwards, leads from where they are to   *)
(* where they were; local entries are in the order of the pushes that are  *)
(* still to be applied; and multisets are search trees.                    *)
THEOREM LibraryInvariant ==
    ASSUME Risks = {}
    PROVE  TLSpec => []TLInv
  <1>1. TLInit => TLInv
    BY InitFits
  <1>2. TLInv /\ [TLNext]_tlVars => TLInv'
    BY StepKeeps
  <1> QED  BY <1>1, <1>2, PTL DEF TLSpec

(* However transactions interleave, conflict, run out of memory and are    *)
(* rolled back, no entry is ever in two lists, queues, stacks, multisets   *)
(* or local parts of them, or twice in one: txlist_entry_insert and its    *)
(* likes never meet an entry that is enqueued already.                     *)
THEOREM EntriesStayApart ==
    ASSUME Risks = {}
    PROVE  TLSpec => []EntryIsInOnePlace
  <1>1. TLInv => EntryIsInOnePlace
    BY InvariantPlaces
  <1> QED  BY <1>1, LibraryInvariant, PTL

(* txlib_tx_apply_event and txlib_tx_undo_event, called for every event of *)
(* the log, empty the transaction's local queues and stacks, as            *)
(* txqueue_entry_uninit_head and txstack_entry_uninit_head assert.         *)
THEOREM LocalPartsEmptied ==
    ASSUME Risks = {}
    PROVE  TLSpec => []NoEntryIsLeftBehind
  <1>1. TLInv => NoEntryIsLeftBehind
    BY NothingLeft DEF TLInv, NoEntryIsLeftBehind
  <1> QED  BY <1>1, LibraryInvariant, PTL

(* txmultiset_state_size, which walks from entry to entry up and down the  *)
(* unbalanced tree, counts every entry once.                               *)
THEOREM SizesCount ==
    ASSUME Risks = {}
    PROVE  TLSpec => []SizeCountsEntries
  <1>1. TLInv => SizeCountsEntries
    BY TreeSize DEF TLInv, LibInv, LibTypes, ValueFits, SizeCountsEntries
  <1> QED  BY <1>1, LibraryInvariant, PTL
=============================================================================
