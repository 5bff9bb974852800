----------------------------- MODULE AvlProofs -----------------------------
(***************************************************************************)
(* Proofs about Avl, for any number of types, any heights that nodes have  *)
(* stored and trees however far out of balance: rebalancing ends and keeps *)
(* a search tree of the same nodes, an insertion adds one node, a removal  *)
(* takes away its node and exactly what the exchange of nodes drops, and a *)
(* walk visits every node that stays.                                      *)
(***************************************************************************)
EXTENDS Avl, FiniteSetTheorems, WellFoundedInduction, TLAPS

-----------------------------------------------------------------------------
(* Loops: a recursive function that follows g until it is in E.            *)

LEMMA LeastExists ==
    ASSUME NEW S \in SUBSET Nat, S # {}
    PROVE  \E m \in S : \A k \in S : m <= k
<1> DEFINE Upto(m) == {k \in S : k <= m}
           R == StrictSubsetOrdering(Nat)
           D == {Upto(m) : m \in S}
<1>1. D \subseteq FiniteSubsetsOf(Nat) /\ D # {}
  <2>1. ASSUME NEW m \in S PROVE Upto(m) \in FiniteSubsetsOf(Nat)
    <3>1. Upto(m) \in SUBSET Nat /\ m \in Nat /\ \A k \in Upto(m) : k <= m
      OBVIOUS
    <3> HIDE DEF Upto
    <3>2. IsFiniteSet(Upto(m))
      BY <3>1, FS_BoundedSetOfNaturals
    <3> QED BY <3>1, <3>2 DEF FiniteSubsetsOf
  <2> HIDE DEF Upto
  <2> QED BY <2>1
<1>2. IsWellFoundedOn(R, FiniteSubsetsOf(Nat))
  BY FS_StrictSubsetOrderingWellFounded
<1>3. PICK d \in D : \A c \in D : ~ (<<c, d>> \in R)
  <2> HIDE DEF D, R
  <2> QED BY <1>1, <1>2, WFMin
<1>4. PICK m \in S : d = Upto(m)
  OBVIOUS
<1>5. ASSUME NEW k \in S, ~ (m <= k) PROVE FALSE
  <2>1. Upto(k) \subseteq Upto(m) /\ m \in Upto(m) /\ m \notin Upto(k)
    <3>1. k \in Int /\ m \in Int /\ k < m /\ \A j \in S : j \in Int
      BY <1>5
    <3>2. \A j \in S : j <= k => j <= m
      BY <3>1
    <3>3. m \in Upto(m) /\ m \notin Upto(k)
      BY <3>1
    <3> QED BY <3>2, <3>3
  <2>2. <<Upto(k), Upto(m)>> \in R
    <3>1. Upto(k) \in SUBSET Nat /\ Upto(m) \in SUBSET Nat
      OBVIOUS
    <3> HIDE DEF Upto
    <3> QED BY <2>1, <3>1 DEF StrictSubsetOrdering
  <2> QED BY <1>3, <1>4, <2>2
<1> QED BY <1>5

\* What g leads to from x, x included.
Ahead(D, g, x) ==
    {y \in D : \A C \in SUBSET D :
                  x \in C /\ (\A z \in C : g[z] \in C) => y \in C}

LEMMA AheadSplit ==
    ASSUME NEW D, NEW g \in [D -> D], NEW x \in D
    PROVE  Ahead(D, g, x) = {x} \cup Ahead(D, g, g[x])
<1> DEFINE B == {x} \cup Ahead(D, g, g[x])
<1>1. Ahead(D, g, g[x]) \in SUBSET D /\ g[x] \in D /\ B \in SUBSET D
  BY DEF Ahead
<1>2. \A z \in Ahead(D, g, g[x]) : g[z] \in Ahead(D, g, g[x])
  BY DEF Ahead
<1>3. g[x] \in Ahead(D, g, g[x])
  BY <1>1 DEF Ahead
<1>4. \A z \in B : g[z] \in B
  BY <1>2, <1>3
<1>5. Ahead(D, g, x) \subseteq B
  <2> HIDE DEF B
  <2>1. x \in B
    BY DEF B
  <2> QED BY <1>1, <1>4, <2>1 DEF Ahead
<1>6. x \in Ahead(D, g, x)
  BY DEF Ahead
<1>7. ASSUME NEW y \in Ahead(D, g, g[x]), NEW C \in SUBSET D, x \in C,
             \A z \in C : g[z] \in C
      PROVE  y \in C
  BY <1>7 DEF Ahead
<1>8. Ahead(D, g, g[x]) \subseteq Ahead(D, g, x)
  BY <1>1, <1>7 DEF Ahead
<1> QED BY <1>5, <1>6, <1>8

\* f is such a function, with the result out[x] at an x in E.
IsLoop(f, D, E, g, out) ==
    f = [x \in D |-> IF x \in E THEN out[x] ELSE f[g[x]]]

LEMMA LoopExists ==
    ASSUME NEW D, NEW E \in SUBSET D, NEW g \in [D -> D], NEW out,
           \A x \in E : g[x] = x
    PROVE  \E f : IsLoop(f, D, E, g, out)
<1> DEFINE Ends(x) == Ahead(D, g, x) \cap E
           Stay(x) == CHOOSE y : y \in Ends(x)
           f == [x \in D |-> IF Ends(x) = {} THEN 0 ELSE out[Stay(x)]]
<1>1. ASSUME NEW x \in E PROVE f[x] = out[x]
  <2>1. x \in D /\ g[x] = x
    OBVIOUS
  <2>2. {x} \in SUBSET D /\ x \in {x} /\ \A z \in {x} : g[z] \in {x}
    BY <2>1
  <2>3. Ahead(D, g, x) = {x}
    <3>1. x \in Ahead(D, g, x)
      BY <2>1 DEF Ahead
    <3>2. Ahead(D, g, x) \subseteq {x}
      BY <2>2 DEF Ahead
    <3> QED BY <3>1, <3>2
  <2>4. Ends(x) = {x}
    BY <2>3
  <2>5. Stay(x) = x
    <3> HIDE DEF Ends
    <3> QED BY <2>4
  <2> HIDE DEF Ends, Stay
  <2> QED BY <2>1, <2>4, <2>5
<1>2. ASSUME NEW x \in D, x \notin E PROVE f[x] = f[g[x]]
  <2>1. g[x] \in D
    OBVIOUS
  <2>2. Ends(x) = Ends(g[x])
    BY <1>2, AheadSplit
  <2>3. Stay(x) = Stay(g[x])
    <3> HIDE DEF Ends
    <3> QED BY <2>2
  <2> HIDE DEF Ends, Stay
  <2> QED BY <2>1, <2>2, <2>3
<1>3. f = [x \in D |-> f[x]]
  OBVIOUS
<1> HIDE DEF f
<1>4. f = [x \in D |-> IF x \in E THEN out[x] ELSE f[g[x]]]
  BY <1>1, <1>2, <1>3
<1> QED BY <1>4 DEF IsLoop

\* In P the loop comes closer to its end with every turn; P also holds there.
Closing(P, D, E, g, m) ==
    /\ P \in SUBSET D
    /\ \A x \in P : m[x] \in Nat
    /\ \A x \in P \ E : g[x] \in P /\ m[g[x]] < m[x]

LEMMA LoopEnds ==
    ASSUME NEW D, NEW E, NEW g, NEW out, NEW f, IsLoop(f, D, E, g, out),
           NEW P, NEW m, Closing(P, D, E, g, m), NEW x \in P
    PROVE  \E y \in P \cap E : f[x] = out[y]
<1> DEFINE B == {z \in P : ~ \E y \in P \cap E : f[z] = out[y]}
           M == {m[z] : z \in B}
<1>1. SUFFICES ASSUME B # {} PROVE FALSE
  OBVIOUS
<1>2. M \in SUBSET Nat /\ M # {}
  BY <1>1 DEF Closing
<1>3. PICK k \in M : \A j \in M : k <= j
  <2> HIDE DEF M
  <2> QED BY <1>2, LeastExists
<1>4. PICK z \in B : k = m[z]
  OBVIOUS
<1>5. z \in P /\ z \in D
  BY DEF Closing
<1>6. z \notin E
  <2>1. z \in E => f[z] = out[z]
    BY <1>5 DEF IsLoop
  <2> QED BY <1>4, <1>5, <2>1
<1>7. f[z] = f[g[z]]
  BY <1>5, <1>6 DEF IsLoop
<1>8. g[z] \in P /\ m[g[z]] < m[z] /\ m[z] \in Nat /\ m[g[z]] \in Nat
  BY <1>5, <1>6 DEF Closing
<1>9. g[z] \in B
  BY <1>4, <1>7, <1>8
<1>10. m[g[z]] \in M
  BY <1>9
<1> QED BY <1>3, <1>4, <1>8, <1>10

-----------------------------------------------------------------------------
(* Descendants.  l and r are the two links, on one side and on the other.  *)

Chained(l, r, C) ==
    \A x \in C : l[x] \in C \cup {NULL} /\ r[x] \in C \cup {NULL}

Under(l, r, n) ==
    {x \in Key : \A C \in SUBSET Key : n \in C \cup {NULL} /\ Chained(l, r, C) => x \in C}

LEMMA UnderIs ==
    ASSUME NEW l \in [Key -> Pointer], NEW r \in [Key -> Pointer], NEW n \in Pointer
    PROVE  /\ Under(l, r, n) \in SUBSET Key
           /\ n \in Under(l, r, n) \cup {NULL}
           /\ Chained(l, r, Under(l, r, n))
           /\ \A C \in SUBSET Key :
                 n \in C \cup {NULL} /\ Chained(l, r, C) => Under(l, r, n) \subseteq C
           /\ n = NULL => Under(l, r, n) = {}
<1>1. Under(l, r, n) \in SUBSET Key /\ n \in Under(l, r, n) \cup {NULL}
  BY DEF Under, Pointer
<1>2. \A C \in SUBSET Key :
         n \in C \cup {NULL} /\ Chained(l, r, C) => Under(l, r, n) \subseteq C
  BY DEF Under
<1>3. ASSUME NEW x \in Under(l, r, n)
      PROVE  /\ l[x] \in Under(l, r, n) \cup {NULL}
             /\ r[x] \in Under(l, r, n) \cup {NULL}
  <2>1. x \in Key /\ l[x] \in Pointer /\ r[x] \in Pointer
    BY <1>1
  <2>2. ASSUME NEW C \in SUBSET Key, n \in C \cup {NULL}, Chained(l, r, C)
        PROVE  l[x] \in C \cup {NULL} /\ r[x] \in C \cup {NULL}
    <3>1. x \in C
      BY <1>2, <2>2
    <3> QED BY <2>2, <3>1 DEF Chained
  <2> QED BY <2>1, <2>2 DEF Under, Pointer
<1>4. n = NULL => Under(l, r, n) = {}
  <2>1. {} \in SUBSET Key /\ NULL \in {} \cup {NULL} /\ Chained(l, r, {})
    BY DEF Chained
  <2> QED BY <1>2, <2>1
<1> QED BY <1>1, <1>2, <1>3, <1>4 DEF Chained

LEMMA UnderSwap ==
    ASSUME NEW l, NEW r, NEW n PROVE Under(l, r, n) = Under(r, l, n)
  BY DEF Under, Chained

LEMMA UnderSplit ==
    ASSUME NEW l \in [Key -> Pointer], NEW r \in [Key -> Pointer], NEW n \in Key
    PROVE  /\ Under(l, r, n) = {n} \cup Under(l, r, l[n]) \cup Under(l, r, r[n])
           /\ \A x \in Under(l, r, n) : Under(l, r, x) \subseteq Under(l, r, n)
<1> DEFINE U == Under(l, r, n)
           B == {n} \cup Under(l, r, l[n]) \cup Under(l, r, r[n])
<1>1. n \in Pointer /\ l[n] \in Pointer /\ r[n] \in Pointer
  BY DEF Pointer
<1>2. n \in U /\ l[n] \in U \cup {NULL} /\ r[n] \in U \cup {NULL}
  BY <1>1, UnderIs, NullAssumption DEF Chained
<1>3. U \in SUBSET Key /\ Chained(l, r, U)
  BY <1>1, UnderIs
<1>4. B \subseteq U
  BY <1>1, <1>2, <1>3, UnderIs
<1>5. B \in SUBSET Key /\ n \in B \cup {NULL} /\ Chained(l, r, B)
  <2>1. B \in SUBSET Key
    BY <1>1, UnderIs
  <2>2. ASSUME NEW x \in B PROVE l[x] \in B \cup {NULL} /\ r[x] \in B \cup {NULL}
    <3>1. CASE x = n
      BY <1>1, <3>1, UnderIs
    <3>2. CASE x \in Under(l, r, l[n])
      BY <1>1, <3>2, UnderIs DEF Chained
    <3>3. CASE x \in Under(l, r, r[n])
      BY <1>1, <3>3, UnderIs DEF Chained
    <3> QED BY <3>1, <3>2, <3>3
  <2> QED BY <2>1, <2>2 DEF Chained
<1>6. U \subseteq B
  <2> HIDE DEF B
  <2> QED BY <1>1, <1>5, UnderIs
<1>7. ASSUME NEW x \in U PROVE Under(l, r, x) \subseteq U
  <2>1. x \in Pointer /\ x \in U \cup {NULL}
    BY <1>3 DEF Pointer
  <2> HIDE DEF U
  <2> QED BY <1>3, <2>1, UnderIs
<1> QED BY <1>4, <1>6, <1>7

-----------------------------------------------------------------------------
(* Search trees.  Every node of one has bounds: where the keys that the    *)
(* search would take past it begin and end, both excluded.                 *)

Below(t, n) == Under(t.left, t.right, n)

InTree(t) == Below(t, t.root)

Bound == [Key -> -1 .. TypeLimit]

\* Every child points back and has the bounds that its parent leaves it: a on
\* the side of l, b on the side of r.
Linked(l, r, p, root, a, b) ==
    \A x \in Under(l, r, root) :
        /\ l[x] # NULL => p[l[x]] = x /\ a[l[x]] = a[x] /\ b[l[x]] = x
        /\ r[x] # NULL => p[r[x]] = x /\ b[r[x]] = b[x] /\ a[r[x]] = x

Bounded(t, lo, hi) ==
    /\ t \in Tree /\ lo \in Bound /\ hi \in Bound
    /\ Linked(t.left, t.right, t.parent, t.root, lo, hi)
    /\ t.root # NULL => /\ t.parent[t.root] = NULL
                        /\ lo[t.root] = -1 /\ hi[t.root] = TypeLimit
    /\ \A x \in InTree(t) : lo[x] < x /\ x < hi[x]

\* The bounds are those of the links.
Good(t) == \E lo, hi : Bounded(t, lo, hi)

LEMMA KeysAreNumbers ==
    /\ TypeLimit \in Nat /\ TypeLimit > 0
    /\ \A k \in Key : k \in Nat /\ k < TypeLimit /\ -1 < k /\ k # NULL /\ k \in Pointer
    /\ NULL \in Pointer
  BY KeyAssumption, NullAssumption DEF Pointer

LEMMA BelowIs ==
    ASSUME NEW t \in Tree, NEW n \in Pointer
    PROVE  /\ Below(t, n) \in SUBSET Key
           /\ n \in Below(t, n) \cup {NULL}
           /\ \A x \in Below(t, n) : /\ t.left[x] \in Below(t, n) \cup {NULL}
                                     /\ t.right[x] \in Below(t, n) \cup {NULL}
                                     /\ Below(t, x) \subseteq Below(t, n)
           /\ \A C \in SUBSET Key :
                 n \in C \cup {NULL} /\ Chained(t.left, t.right, C) => Below(t, n) \subseteq C
           /\ n = NULL => Below(t, n) = {}
           /\ n # NULL => /\ t.left[n] \in Pointer /\ t.right[n] \in Pointer
                          /\ Below(t, n) = {n} \cup Below(t, t.left[n])
                                               \cup Below(t, t.right[n])
<1>1. t.left \in [Key -> Pointer] /\ t.right \in [Key -> Pointer]
  BY DEF Tree
<1>2. n # NULL => n \in Key
  BY DEF Pointer
<1>3. ASSUME NEW x \in Below(t, n) PROVE Below(t, x) \subseteq Below(t, n)
  BY <1>1, <1>2, <1>3, UnderIs, UnderSplit DEF Below
<1>4. n # NULL => /\ t.left[n] \in Pointer /\ t.right[n] \in Pointer
                  /\ Below(t, n) = {n} \cup Below(t, t.left[n]) \cup Below(t, t.right[n])
  BY <1>1, <1>2, UnderSplit DEF Below
<1>5. /\ Below(t, n) \in SUBSET Key /\ n \in Below(t, n) \cup {NULL}
      /\ \A x \in Below(t, n) : /\ t.left[x] \in Below(t, n) \cup {NULL}
                                /\ t.right[x] \in Below(t, n) \cup {NULL}
      /\ \A C \in SUBSET Key :
            n \in C \cup {NULL} /\ Chained(t.left, t.right, C) => Below(t, n) \subseteq C
      /\ n = NULL => Below(t, n) = {}
  BY <1>1, UnderIs DEF Below, Chained
<1> QED BY <1>3, <1>4, <1>5

LEMMA InTreeIs ==
    ASSUME NEW t \in Tree
    PROVE  /\ InTree(t) \in SUBSET Key
           /\ t.root \in Pointer
           /\ t.root # NULL => t.root \in InTree(t)
           /\ t.root = NULL => InTree(t) = {}
           /\ \A x \in InTree(t) :
                 /\ x \in Key /\ x # NULL /\ x \in Nat /\ x \in Pointer
                 /\ x \in Below(t, x) /\ Below(t, x) \subseteq InTree(t)
                 /\ t.left[x] \in Pointer /\ t.right[x] \in Pointer
                 /\ t.left[x] # NULL => t.left[x] \in InTree(t)
                 /\ t.right[x] # NULL => t.right[x] \in InTree(t)
<1>1. t.root \in Pointer
  BY DEF Tree
<1>2. ASSUME NEW x \in Key PROVE x \in Below(t, x) /\ x \in Pointer
                                 /\ t.left[x] \in Pointer /\ t.right[x] \in Pointer
  BY BelowIs, KeysAreNumbers
<1>3. InTree(t) \in SUBSET Key
  BY <1>1, BelowIs DEF InTree
<1>4. t.root # NULL => t.root \in InTree(t)
  BY <1>1, BelowIs DEF InTree
<1>5. t.root = NULL => InTree(t) = {}
  BY <1>1, BelowIs DEF InTree
<1>6. \A x \in InTree(t) : /\ t.left[x] # NULL => t.left[x] \in InTree(t)
                           /\ t.right[x] # NULL => t.right[x] \in InTree(t)
                           /\ Below(t, x) \subseteq InTree(t)
  BY <1>1, BelowIs DEF InTree
<1> QED BY <1>1, <1>2, <1>3, <1>4, <1>5, <1>6, KeysAreNumbers

\* The links and bounds of one node.
LEMMA NodeIs ==
    ASSUME NEW t, NEW lo, NEW hi, Bounded(t, lo, hi), NEW x \in InTree(t)
    PROVE  /\ x \in Key /\ x \in Nat /\ x # NULL
           /\ lo[x] \in Int /\ hi[x] \in Int /\ -1 <= lo[x] /\ hi[x] <= TypeLimit
           /\ lo[x] < x /\ x < hi[x]
           /\ t.left[x] \in Pointer /\ t.right[x] \in Pointer /\ t.parent[x] \in Pointer
           /\ t.left[x] # NULL =>
                 /\ t.left[x] \in InTree(t) /\ t.parent[t.left[x]] = x
                 /\ lo[t.left[x]] = lo[x] /\ hi[t.left[x]] = x /\ t.left[x] < x
           /\ t.right[x] # NULL =>
                 /\ t.right[x] \in InTree(t) /\ t.parent[t.right[x]] = x
                 /\ hi[t.right[x]] = hi[x] /\ lo[t.right[x]] = x /\ x < t.right[x]
<1>1. t \in Tree
  BY DEF Bounded
<1>2. x \in Key /\ x \in Nat /\ x # NULL /\ t.left[x] \in Pointer /\ t.right[x] \in Pointer
      /\ (t.left[x] # NULL => t.left[x] \in InTree(t))
      /\ (t.right[x] # NULL => t.right[x] \in InTree(t))
  BY <1>1, InTreeIs
<1>3. lo[x] \in -1 .. TypeLimit /\ hi[x] \in -1 .. TypeLimit /\ t.parent[x] \in Pointer
  BY <1>1, <1>2 DEF Bounded, Bound, Tree
<1>4. \A y \in InTree(t) : lo[y] < y /\ y < hi[y]
  BY DEF Bounded
<1>5. /\ t.left[x] # NULL => /\ t.parent[t.left[x]] = x
                             /\ lo[t.left[x]] = lo[x] /\ hi[t.left[x]] = x
      /\ t.right[x] # NULL => /\ t.parent[t.right[x]] = x
                              /\ hi[t.right[x]] = hi[x] /\ lo[t.right[x]] = x
  BY DEF Bounded, Linked, InTree, Below
<1>6. lo[x] \in Int /\ hi[x] \in Int /\ -1 <= lo[x] /\ hi[x] <= TypeLimit
  BY <1>3, KeysAreNumbers
<1>7. t.left[x] # NULL => t.left[x] < x
  BY <1>2, <1>4, <1>5
<1>8. t.right[x] # NULL => x < t.right[x]
  BY <1>2, <1>4, <1>5
<1> QED BY <1>2, <1>3, <1>4, <1>5, <1>6, <1>7, <1>8

\* The descendants of x are the nodes within its bounds.
LEMMA BelowWithin ==
    ASSUME NEW t, NEW lo, NEW hi, Bounded(t, lo, hi),
           NEW x \in InTree(t), NEW z \in Below(t, x)
    PROVE  z \in InTree(t) /\ lo[x] <= lo[z] /\ hi[z] <= hi[x] /\ lo[x] < z /\ z < hi[x]
<1> DEFINE C == {y \in Below(t, x) : lo[x] <= lo[y] /\ hi[y] <= hi[x]}
<1>1. t \in Tree /\ x \in Pointer /\ x \in Below(t, x) /\ Below(t, x) \subseteq InTree(t)
  BY InTreeIs DEF Bounded
<1>2. C \in SUBSET Key /\ x \in C \cup {NULL}
  <2>1. lo[x] \in Int /\ hi[x] \in Int
    BY NodeIs
  <2> QED BY <1>1, <2>1, BelowIs
<1>3. ASSUME NEW y \in C PROVE t.left[y] \in C \cup {NULL} /\ t.right[y] \in C \cup {NULL}
  <2>1. y \in InTree(t) /\ y \in Below(t, x) /\ lo[x] <= lo[y] /\ hi[y] <= hi[x]
    BY <1>1
  <2>2. /\ t.left[y] \in Below(t, x) \cup {NULL}
        /\ t.right[y] \in Below(t, x) \cup {NULL}
    BY <1>1, <2>1, BelowIs
  <2>3. /\ lo[x] \in Int /\ hi[x] \in Int /\ lo[y] \in Int /\ hi[y] \in Int
        /\ lo[y] < y /\ y < hi[y] /\ y \in Nat
    BY <2>1, NodeIs
  <2>4. /\ t.left[y] # NULL => lo[t.left[y]] = lo[y] /\ hi[t.left[y]] = y
        /\ t.right[y] # NULL => hi[t.right[y]] = hi[y] /\ lo[t.right[y]] = y
    BY <2>1, NodeIs
  <2>5. t.left[y] # NULL => lo[x] <= lo[t.left[y]] /\ hi[t.left[y]] <= hi[x]
    BY <2>1, <2>3, <2>4
  <2>6. t.right[y] # NULL => lo[x] <= lo[t.right[y]] /\ hi[t.right[y]] <= hi[x]
    BY <2>1, <2>3, <2>4
  <2> QED BY <2>2, <2>5, <2>6
<1>4. Below(t, x) \subseteq C
  <2> HIDE DEF C
  <2>1. Chained(t.left, t.right, C)
    BY <1>3 DEF Chained
  <2> QED BY <1>1, <1>2, <2>1, BelowIs
<1>5. z \in InTree(t) /\ lo[x] <= lo[z] /\ hi[z] <= hi[x]
  BY <1>1, <1>4
<1>6. lo[z] \in Int /\ hi[z] \in Int /\ lo[x] \in Int /\ hi[x] \in Int
      /\ lo[z] < z /\ z < hi[z] /\ z \in Nat
  BY <1>5, NodeIs
<1> QED BY <1>5, <1>6

LEMMA WithinBelow ==
    ASSUME NEW t, NEW lo, NEW hi, Bounded(t, lo, hi),
           NEW x \in InTree(t), NEW k \in InTree(t), lo[x] < k, k < hi[x]
    PROVE  k \in Below(t, x)
<1> DEFINE C == {y \in InTree(t) : lo[y] < k /\ k < hi[y] => k \in Below(t, y)}
<1>1. t \in Tree /\ t.root \in Pointer /\ InTree(t) = Below(t, t.root) /\ k \in Nat
  BY InTreeIs DEF Bounded, InTree
<1>2. C \in SUBSET Key /\ t.root \in C \cup {NULL}
  BY <1>1, InTreeIs
<1>3. ASSUME NEW y \in C, NEW w \in {t.left[y], t.right[y]}, w # NULL PROVE w \in C
  <2>1. y \in InTree(t) /\ w \in InTree(t)
    BY <1>1, <1>3, InTreeIs
  <2>2. SUFFICES ASSUME lo[w] < k, k < hi[w] PROVE k \in Below(t, w)
    BY <2>1
  <2>3. /\ y \in Nat /\ lo[y] \in Int /\ hi[y] \in Int /\ lo[y] < y /\ y < hi[y]
        /\ w = t.left[y] => lo[w] = lo[y] /\ hi[w] = y
        /\ w = t.right[y] => hi[w] = hi[y] /\ lo[w] = y
        /\ lo[w] \in Int /\ hi[w] \in Int
    BY <1>3, <2>1, NodeIs
  <2>4. lo[y] < k /\ k < hi[y] /\ k # y
    BY <1>1, <1>3, <2>2, <2>3
  <2>5. k \in Below(t, y)
    BY <2>4
  <2>6. k \in Below(t, t.left[y]) \/ k \in Below(t, t.right[y])
    BY <1>1, <2>1, <2>4, <2>5, BelowIs, InTreeIs
  <2>7. k \in Below(t, t.left[y]) => t.left[y] # NULL /\ k < y
    <3>1. k \in Below(t, t.left[y]) => t.left[y] # NULL
      BY <1>1, BelowIs, KeysAreNumbers
    <3>2. ASSUME k \in Below(t, t.left[y]) PROVE k < y
      <4>1. t.left[y] \in InTree(t) /\ hi[t.left[y]] = y
        BY <2>1, <3>1, <3>2, NodeIs
      <4> QED BY <3>2, <4>1, BelowWithin
    <3> QED BY <3>1, <3>2
  <2>8. k \in Below(t, t.right[y]) => t.right[y] # NULL /\ y < k
    <3>1. k \in Below(t, t.right[y]) => t.right[y] # NULL
      BY <1>1, BelowIs, KeysAreNumbers
    <3>2. ASSUME k \in Below(t, t.right[y]) PROVE y < k
      <4>1. t.right[y] \in InTree(t) /\ lo[t.right[y]] = y
        BY <2>1, <3>1, <3>2, NodeIs
      <4> QED BY <3>2, <4>1, BelowWithin
    <3> QED BY <3>1, <3>2
  <2>9. CASE w = t.left[y]
    <3>1. k < y
      BY <2>2, <2>3, <2>9
    <3> QED BY <1>1, <2>3, <2>6, <2>8, <2>9, <3>1
  <2>10. CASE w = t.right[y]
    <3>1. y < k
      BY <2>2, <2>3, <2>10
    <3> QED BY <1>1, <2>3, <2>6, <2>7, <2>10, <3>1
  <2> QED BY <1>3, <2>9, <2>10
<1>4. InTree(t) \subseteq C
  <2>1. Chained(t.left, t.right, C)
    <3> SUFFICES ASSUME NEW y \in C
                 PROVE  t.left[y] \in C \cup {NULL} /\ t.right[y] \in C \cup {NULL}
      BY DEF Chained
    <3> HIDE DEF C
    <3> QED BY <1>3
  <2> HIDE DEF C
  <2> QED BY <1>1, <1>2, <2>1, BelowIs
<1> QED BY <1>4

\* Every node but the root is a child of its parent.
LEMMA ParentIs ==
    ASSUME NEW t, NEW lo, NEW hi, Bounded(t, lo, hi), NEW x \in InTree(t), x # t.root
    PROVE  /\ t.parent[x] \in InTree(t) /\ t.parent[x] # NULL
           /\ x \in {t.left[t.parent[x]], t.right[t.parent[x]]}
<1> DEFINE C == {y \in InTree(t) :
                    y = t.root \/ /\ t.parent[y] \in InTree(t)
                                  /\ y \in {t.left[t.parent[y]], t.right[t.parent[y]]}}
<1>1. t \in Tree /\ t.root \in Pointer /\ InTree(t) = Below(t, t.root)
  BY InTreeIs DEF Bounded, InTree
<1>2. C \in SUBSET Key /\ t.root \in C \cup {NULL}
  BY <1>1, InTreeIs
<1>3. ASSUME NEW y \in C PROVE t.left[y] \in C \cup {NULL} /\ t.right[y] \in C \cup {NULL}
  <2>1. y \in InTree(t)
    OBVIOUS
  <2> HIDE DEF C
  <2>2. /\ t.left[y] # NULL => t.left[y] \in InTree(t) /\ t.parent[t.left[y]] = y
        /\ t.right[y] # NULL => t.right[y] \in InTree(t) /\ t.parent[t.right[y]] = y
    BY <2>1, NodeIs
  <2> QED BY <2>1, <2>2 DEF C
<1>4. InTree(t) \subseteq C
  <2> HIDE DEF C
  <2>1. Chained(t.left, t.right, C)
    BY <1>3 DEF Chained
  <2> QED BY <1>1, <1>2, <2>1, BelowIs
<1>5. t.parent[x] \in InTree(t) /\ x \in {t.left[t.parent[x]], t.right[t.parent[x]]}
  BY <1>4
<1> QED BY <1>1, <1>5, InTreeIs

-----------------------------------------------------------------------------
(* What the walks down the tree find.                                      *)

Width(lo, hi) == [x \in Key |-> hi[x] - lo[x]]

LEMMA Narrower ==
    ASSUME NEW t, NEW lo, NEW hi, Bounded(t, lo, hi), NEW x \in InTree(t),
           NEW w \in {t.left[x], t.right[x]}, w # NULL
    PROVE  /\ w \in InTree(t) /\ w \in Key /\ x \in Key
           /\ Width(lo, hi)[w] \in Nat /\ Width(lo, hi)[x] \in Nat
           /\ Width(lo, hi)[w] < Width(lo, hi)[x]
<1>1. w \in InTree(t)
  BY NodeIs
<1>2. /\ x \in Key /\ x \in Nat /\ lo[x] \in Int /\ hi[x] \in Int /\ lo[x] < x /\ x < hi[x]
      /\ w = t.left[x] => lo[w] = lo[x] /\ hi[w] = x
      /\ w = t.right[x] => hi[w] = hi[x] /\ lo[w] = x
  BY NodeIs
<1>3. /\ w \in Key /\ w \in Nat /\ lo[w] \in Int /\ hi[w] \in Int /\ lo[w] < w /\ w < hi[w]
  BY <1>1, NodeIs
<1>4. Width(lo, hi)[w] = hi[w] - lo[w] /\ Width(lo, hi)[x] = hi[x] - lo[x]
  BY <1>2, <1>3 DEF Width
<1>5. hi[w] - lo[w] \in Nat /\ hi[x] - lo[x] \in Nat
  BY <1>2, <1>3
<1>6. hi[w] - lo[w] < hi[x] - lo[x]
  BY <1>2, <1>3
<1> QED BY <1>1, <1>2, <1>3, <1>4, <1>5, <1>6

LEMMA NodesBelowIs ==
    ASSUME NEW t, NEW lo, NEW hi, Bounded(t, lo, hi),
           NEW n \in Pointer, n # NULL => n \in InTree(t)
    PROVE  NodesBelow(t, n) = Below(t, n)
<1> DEFINE Body(f) == [m \in Pointer |-> IF m = NULL THEN {}
                          ELSE {m} \cup f[t.left[m]] \cup f[t.right[m]]]
           f == CHOOSE g : g = Body(g)
           W == [m \in Pointer |-> Below(t, m)]
<1>1. t \in Tree /\ \A x \in InTree(t) : x \in Pointer
  BY InTreeIs DEF Bounded
<1>2. f = Body(f)
  <2>1. \A m \in Pointer : m # NULL =>
           /\ t.left[m] \in Pointer /\ t.right[m] \in Pointer
           /\ W[m] = {m} \cup W[t.left[m]] \cup W[t.right[m]]
    BY <1>1, BelowIs
  <2>2. \A m \in Pointer : m = NULL => W[m] = {}
    BY <1>1, BelowIs
  <2>3. W = [m \in Pointer |-> W[m]]
    OBVIOUS
  <2> HIDE DEF W
  <2>4. W = Body(W)
    BY <2>1, <2>2, <2>3
  <2> HIDE DEF Body
  <2> QED BY <2>4
<1>3. NodesBelow(t, n) = f[n]
  BY DEF NodesBelow
<1> HIDE DEF f
<1>4. f[NULL] = {}
  BY <1>2, KeysAreNumbers
<1>5. \A m \in Pointer : m # NULL => f[m] = {m} \cup f[t.left[m]] \cup f[t.right[m]]
  BY <1>2
<1> HIDE DEF Body, W
<1>6. \A m \in InTree(t) : f[m] = Below(t, m)
  <2> DEFINE B == {m \in InTree(t) : f[m] # Below(t, m)}
             M == {Width(lo, hi)[m] : m \in B}
  <2>1. SUFFICES ASSUME B # {} PROVE FALSE
    OBVIOUS
  <2>2. M \in SUBSET Nat /\ M # {}
    <3>1. ASSUME NEW m \in InTree(t) PROVE Width(lo, hi)[m] \in Nat
      <4>1. /\ m \in Key /\ m \in Nat /\ lo[m] \in Int /\ hi[m] \in Int
            /\ lo[m] < m /\ m < hi[m]
        BY NodeIs
      <4> QED BY <4>1 DEF Width
    <3> QED BY <2>1, <3>1
  <2>3. PICK k \in M : \A j \in M : k <= j
    <3> HIDE DEF M
    <3> QED BY <2>2, LeastExists
  <2>4. PICK m \in B : k = Width(lo, hi)[m]
    OBVIOUS
  <2>5. m \in InTree(t) /\ m \in Pointer /\ m # NULL
    BY <1>1, NodeIs
  <2>6. ASSUME NEW w \in {t.left[m], t.right[m]} PROVE f[w] = Below(t, w)
    <3>1. CASE w = NULL
      BY <1>1, <1>4, <3>1, BelowIs, KeysAreNumbers
    <3>2. CASE w # NULL
      <4>1. /\ w \in InTree(t) /\ Width(lo, hi)[w] < Width(lo, hi)[m]
            /\ Width(lo, hi)[w] \in Nat /\ Width(lo, hi)[m] \in Nat
        BY <2>5, <3>2, Narrower
      <4>2. ~ (Width(lo, hi)[w] \in M)
        BY <2>3, <2>4, <4>1
      <4> QED BY <4>1, <4>2
    <3> QED BY <3>1, <3>2
  <2>7. f[t.left[m]] = Below(t, t.left[m]) /\ f[t.right[m]] = Below(t, t.right[m])
    BY <2>6
  <2>8. f[m] = {m} \cup Below(t, t.left[m]) \cup Below(t, t.right[m])
    BY <1>5, <2>5, <2>7
  <2>9. Below(t, m) = {m} \cup Below(t, t.left[m]) \cup Below(t, t.right[m])
    BY <1>1, <2>5, BelowIs
  <2>10. f[m] = Below(t, m)
    BY <2>8, <2>9
  <2> QED BY <2>4, <2>10
<1> QED BY <1>1, <1>3, <1>4, <1>6, BelowIs

\* What SearchTree says, of any tree.
IsSearchTree(t) ==
    /\ t.root # NULL => t.parent[t.root] = NULL
    /\ \A n \in Nodes(t) :
         /\ \A s \in {"left", "right"} : t[s][n] # NULL => t.parent[t[s][n]] = n
         /\ \A m \in NodesBelow(t, t.left[n]) : m < n
         /\ \A m \in NodesBelow(t, t.right[n]) : m > n

LEMMA GoodNodes ==
    ASSUME NEW t, Good(t) PROVE Nodes(t) = InTree(t)
<1>1. PICK lo, hi : Bounded(t, lo, hi)
  BY DEF Good
<1>2. t \in Tree
  BY <1>1 DEF Bounded
<1>3. t.root \in Pointer /\ (t.root # NULL => t.root \in InTree(t))
  BY <1>2, InTreeIs
<1> QED BY <1>1, <1>3, NodesBelowIs DEF Nodes, InTree

LEMMA GoodIsSearchTree ==
    ASSUME NEW t, Good(t) PROVE IsSearchTree(t)
<1>1. PICK lo, hi : Bounded(t, lo, hi)
  BY DEF Good
<1>2. t \in Tree /\ (t.root # NULL => t.parent[t.root] = NULL)
  BY <1>1 DEF Bounded
<1>3. ASSUME NEW n \in Nodes(t)
      PROVE  /\ \A s \in {"left", "right"} : t[s][n] # NULL => t.parent[t[s][n]] = n
             /\ \A m \in NodesBelow(t, t.left[n]) : m < n
             /\ \A m \in NodesBelow(t, t.right[n]) : m > n
  <2>1. n \in InTree(t)
    BY GoodNodes
  <2>2. /\ t.left[n] \in Pointer /\ t.right[n] \in Pointer /\ n \in Nat
        /\ t.left[n] # NULL => t.left[n] \in InTree(t) /\ t.parent[t.left[n]] = n
                               /\ hi[t.left[n]] = n
        /\ t.right[n] # NULL => t.right[n] \in InTree(t) /\ t.parent[t.right[n]] = n
                                /\ lo[t.right[n]] = n
    BY <1>1, <2>1, NodeIs
  <2>3. /\ NodesBelow(t, t.left[n]) = Below(t, t.left[n])
        /\ NodesBelow(t, t.right[n]) = Below(t, t.right[n])
    BY <1>1, <2>2, NodesBelowIs
  <2>4. ASSUME NEW m \in Below(t, t.left[n]) PROVE m < n
    <3>1. t.left[n] # NULL
      BY <1>2, BelowIs, KeysAreNumbers
    <3> QED BY <1>1, <2>2, <3>1, BelowWithin
  <2>5. ASSUME NEW m \in Below(t, t.right[n]) PROVE m > n
    <3>1. t.right[n] # NULL
      BY <1>2, BelowIs, KeysAreNumbers
    <3>2. n < m /\ m \in InTree(t)
      BY <1>1, <2>2, <3>1, BelowWithin
    <3>3. m \in Nat
      BY <1>2, <3>2, InTreeIs
    <3> QED BY <2>2, <3>2, <3>3
  <2> QED BY <2>2, <2>3, <2>4, <2>5
<1> QED BY <1>2, <1>3 DEF IsSearchTree

\* The side is one of the two.
LEMMA TowardIs ==
    ASSUME NEW t \in Tree, NEW k \in Int, NEW m \in Key
    PROVE  /\ k < m => t[Toward(k, m)][m] = t.left[m]
           /\ ~ (k < m) => t[Toward(k, m)][m] = t.right[m]
           /\ t[Toward(k, m)][m] \in {t.left[m], t.right[m]}
           /\ t[Toward(k, m)][m] \in Pointer
<1>1. t.left[m] \in Pointer /\ t.right[m] \in Pointer
  BY DEF Tree
<1>2. k < m => t[Toward(k, m)][m] = t.left[m]
  BY DEF Toward
<1>3. ~ (k < m) => t[Toward(k, m)][m] = t.right[m]
  BY DEF Toward
<1> QED BY <1>1, <1>2, <1>3

\* The search stops at k, or at a node of the tree that has room for k.
LEMMA StopIs ==
    ASSUME NEW t, NEW lo, NEW hi, Bounded(t, lo, hi), t.root # NULL, NEW k \in Key
    PROVE  LET n == Stop(t, t.root, k) IN
           /\ n \in InTree(t) /\ n \in Key
           /\ lo[n] < k /\ k < hi[n]
           /\ n = k \/ t[Toward(k, n)][n] = NULL
<1> DEFINE E == {m \in Key : m = k \/ t[Toward(k, m)][m] = NULL}
           g == [m \in Key |-> IF m \in E THEN m ELSE t[Toward(k, m)][m]]
           out == [m \in Key |-> m]
           Body(f) == [m \in Key |-> IF m = k \/ t[Toward(k, m)][m] = NULL THEN m
                                     ELSE f[t[Toward(k, m)][m]]]
           f == CHOOSE h : h = Body(h)
           P == {m \in InTree(t) : lo[m] < k /\ k < hi[m]}
<1>1. t \in Tree /\ InTree(t) \in SUBSET Key /\ t.root \in InTree(t)
  BY InTreeIs DEF Bounded
<1>2. k \in Nat /\ k < TypeLimit /\ -1 < k /\ k \in Int
  BY KeysAreNumbers
<1>3. \A m \in Key : m \notin E => g[m] = t[Toward(k, m)][m] /\ g[m] \in Key
  BY <1>1, <1>2, TowardIs DEF Pointer
<1>4. E \in SUBSET Key /\ g \in [Key -> Key] /\ \A x \in E : g[x] = x
  <2>1. \A m \in Key : g[m] \in Key
    BY <1>3
  <2> QED BY <2>1
<1>5. ASSUME NEW h PROVE IsLoop(h, Key, E, g, out) <=> h = Body(h)
  <2>1. [m \in Key |-> IF m \in E THEN out[m] ELSE h[g[m]]] = Body(h)
    <3>1. \A m \in Key : m \in E <=> m = k \/ t[Toward(k, m)][m] = NULL
      OBVIOUS
    <3>2. \A m \in Key : (IF m \in E THEN out[m] ELSE h[g[m]]) =
              (IF m = k \/ t[Toward(k, m)][m] = NULL THEN m ELSE h[t[Toward(k, m)][m]])
      <4> HIDE DEF g
      <4> QED BY <1>3, <3>1
    <3> QED BY <3>2
  <2> HIDE DEF g, out, E, Body
  <2> QED BY <2>1 DEF IsLoop
<1>6. IsLoop(f, Key, E, g, out)
  <2> HIDE DEF g, out, E
  <2>1. PICK h : IsLoop(h, Key, E, g, out)
    BY <1>4, LoopExists
  <2> HIDE DEF Body
  <2> QED BY <1>5, <2>1
<1>7. Closing(P, Key, E, g, Width(lo, hi))
  <2>1. P \in SUBSET Key
    BY <1>1
  <2>2. ASSUME NEW m \in P PROVE Width(lo, hi)[m] \in Nat
    <3>1. m \in Key /\ m \in Nat /\ lo[m] \in Int /\ hi[m] \in Int /\ lo[m] < m /\ m < hi[m]
      BY NodeIs
    <3> QED BY <3>1 DEF Width
  <2>3. ASSUME NEW m \in P \ E
        PROVE  g[m] \in P /\ Width(lo, hi)[g[m]] < Width(lo, hi)[m]
    <3>1. m \in InTree(t) /\ m \in Key /\ m # k /\ g[m] = t[Toward(k, m)][m] /\ g[m] # NULL
      BY <1>1, <1>3
    <3>2. g[m] \in {t.left[m], t.right[m]}
      BY <1>1, <1>2, <3>1, TowardIs
    <3>3. g[m] \in InTree(t) /\ Width(lo, hi)[g[m]] < Width(lo, hi)[m]
      BY <3>1, <3>2, Narrower
    <3>4. lo[m] < k /\ k < hi[m] /\ m \in Nat
      BY <3>1, NodeIs
    <3>5. CASE k < m
      <4>1. g[m] = t.left[m]
        BY <1>1, <1>2, <3>1, <3>5, TowardIs
      <4>2. lo[g[m]] = lo[m] /\ hi[g[m]] = m
        BY <3>1, <4>1, NodeIs
      <4> QED BY <3>3, <3>4, <3>5, <4>2
    <3>6. CASE ~ (k < m)
      <4>1. g[m] = t.right[m]
        BY <1>1, <1>2, <3>1, <3>6, TowardIs
      <4>2. hi[g[m]] = hi[m] /\ lo[g[m]] = m
        BY <3>1, <4>1, NodeIs
      <4>3. m < k
        BY <1>2, <3>1, <3>4, <3>6
      <4> QED BY <3>3, <3>4, <4>2, <4>3
    <3> QED BY <3>5, <3>6
  <2> HIDE DEF P, E, g
  <2> QED BY <2>1, <2>2, <2>3 DEF Closing
<1>8. t.root \in P
  BY <1>1, <1>2 DEF Bounded
<1>9. Stop(t, t.root, k) = f[t.root]
  BY DEF Stop
<1>10. PICK y \in P \cap E : f[t.root] = out[y]
  <2> HIDE DEF P, E, g, out, f
  <2> QED BY <1>6, <1>7, <1>8, LoopEnds
<1>11. Stop(t, t.root, k) = y /\ y \in InTree(t) /\ y \in Key
       /\ lo[y] < k /\ k < hi[y] /\ (y = k \/ t[Toward(k, y)][y] = NULL)
  <2> HIDE DEF f
  <2> QED BY <1>1, <1>9, <1>10
<1> QED BY <1>11

\* The search finds what the tree has.
LEMMA FoundIs ==
    ASSUME NEW t, Good(t), NEW k \in Key
    PROVE  Found(t, k) <=> k \in InTree(t)
<1>1. PICK lo, hi : Bounded(t, lo, hi)
  BY DEF Good
<1>2. t \in Tree
  BY <1>1 DEF Bounded
<1>3. CASE t.root = NULL
  BY <1>2, <1>3, InTreeIs DEF Found
<1>4. CASE t.root # NULL
  <2> DEFINE n == Stop(t, t.root, k)
  <2>1. /\ n \in InTree(t) /\ n \in Key /\ lo[n] < k /\ k < hi[n]
        /\ n = k \/ t[Toward(k, n)][n] = NULL
    BY <1>1, <1>4, StopIs
  <2>2. Found(t, k) <=> n = k
    BY <1>4 DEF Found
  <2> HIDE DEF n
  <2>3. ASSUME k \in InTree(t), n # k PROVE FALSE
    <3>1. k \in Below(t, n)
      BY <1>1, <2>1, <2>3, WithinBelow
    <3>2. k \in Below(t, t.left[n]) \/ k \in Below(t, t.right[n])
      BY <1>2, <2>1, <2>3, <3>1, BelowIs, KeysAreNumbers
    <3>3. k \in Int /\ n \in Int
      BY <2>1, KeysAreNumbers
    <3>4. ASSUME k \in Below(t, t.left[n]) PROVE k < n /\ t.left[n] # NULL
      <4>1. t.left[n] # NULL
        BY <1>2, <3>4, BelowIs, KeysAreNumbers
      <4>2. t.left[n] \in InTree(t) /\ hi[t.left[n]] = n
        BY <1>1, <2>1, <4>1, NodeIs
      <4> QED BY <1>1, <3>4, <4>1, <4>2, BelowWithin
    <3>5. ASSUME k \in Below(t, t.right[n]) PROVE n < k /\ t.right[n] # NULL
      <4>1. t.right[n] # NULL
        BY <1>2, <3>5, BelowIs, KeysAreNumbers
      <4>2. t.right[n] \in InTree(t) /\ lo[t.right[n]] = n
        BY <1>1, <2>1, <4>1, NodeIs
      <4> QED BY <1>1, <3>5, <4>1, <4>2, BelowWithin
    <3>6. t[Toward(k, n)][n] # NULL
      BY <1>2, <2>1, <3>2, <3>3, <3>4, <3>5, TowardIs
    <3> QED BY <2>1, <2>3, <3>6
  <2> QED BY <2>1, <2>2, <2>3
<1> QED BY <1>3, <1>4

\* The walk along one side.
SideEnds(t, s) == {m \in Pointer : m = NULL \/ t[s][m] = NULL}

OneOn(t, s) == [m \in Pointer |-> IF m \in SideEnds(t, s) THEN m ELSE t[s][m]]

Itself == [m \in Pointer |-> m]

LEMMA SideIs ==
    ASSUME NEW t \in Tree, NEW s \in {"left", "right"}
    PROVE  /\ \A m \in Key : t[s][m] \in Pointer /\ t[s][m] \in {t.left[m], t.right[m]}
           /\ t[s] \in [Key -> Pointer]
<1>1. CASE s = "left"
  BY <1>1 DEF Tree
<1>2. CASE s = "right"
  BY <1>2 DEF Tree
<1> QED BY <1>1, <1>2

LEMMA UtmostLoop ==
    ASSUME NEW t \in Tree, NEW s \in {"left", "right"}
    PROVE  \E f : /\ IsLoop(f, Pointer, SideEnds(t, s), OneOn(t, s), Itself)
                 /\ \A x : Utmost(t, x, s) = f[x]
<1> DEFINE E == SideEnds(t, s)
           g == OneOn(t, s)
           Body(f) == [m \in Pointer |-> IF m = NULL \/ t[s][m] = NULL THEN m
                                         ELSE f[t[s][m]]]
           f == CHOOSE h : h = Body(h)
<1>2. \A m \in Key : t[s][m] \in Pointer
  BY SideIs
<1>3. \A m \in Pointer : m \notin E => g[m] = t[s][m] /\ g[m] \in Pointer
  BY <1>2 DEF Pointer, SideEnds, OneOn
<1>4. E \in SUBSET Pointer /\ g \in [Pointer -> Pointer] /\ \A z \in E : g[z] = z
  <2>1. \A m \in Pointer : g[m] \in Pointer /\ (m \in E => g[m] = m)
    BY <1>3 DEF OneOn
  <2>2. g = [m \in Pointer |-> g[m]] /\ E \in SUBSET Pointer
    BY DEF OneOn, SideEnds
  <2> HIDE DEF g, E
  <2>3. g \in [Pointer -> Pointer]
    BY <2>1, <2>2
  <2> QED BY <2>1, <2>2, <2>3
<1>5. ASSUME NEW h PROVE IsLoop(h, Pointer, E, g, Itself) <=> h = Body(h)
  <2>1. [m \in Pointer |-> IF m \in E THEN Itself[m] ELSE h[g[m]]] = Body(h)
    <3>1. \A m \in Pointer : m \in E <=> m = NULL \/ t[s][m] = NULL
      BY DEF SideEnds
    <3>2. \A m \in Pointer : (IF m \in E THEN Itself[m] ELSE h[g[m]]) =
              (IF m = NULL \/ t[s][m] = NULL THEN m ELSE h[t[s][m]])
      <4> HIDE DEF g, E
      <4> QED BY <1>3, <3>1 DEF Itself
    <3> QED BY <3>2
  <2> HIDE DEF g, E, Body
  <2> QED BY <2>1 DEF IsLoop
<1>6. IsLoop(f, Pointer, E, g, Itself)
  <2> HIDE DEF g, E
  <2>1. PICK h : IsLoop(h, Pointer, E, g, Itself)
    BY <1>4, LoopExists
  <2> HIDE DEF Body
  <2> QED BY <1>5, <2>1
<1>7. \A x : Utmost(t, x, s) = f[x]
  BY DEF Utmost
<1> HIDE DEF f
<1> QED BY <1>6, <1>7

LEMMA UtmostEnds ==
    ASSUME NEW t, NEW lo, NEW hi, Bounded(t, lo, hi), NEW s \in {"left", "right"},
           NEW P \in SUBSET InTree(t), \A m \in P : t[s][m] # NULL => t[s][m] \in P,
           NEW x \in P
    PROVE  Utmost(t, x, s) \in P /\ t[s][Utmost(t, x, s)] = NULL
<1> DEFINE E == SideEnds(t, s)
           g == OneOn(t, s)
<1>1. t \in Tree /\ \A m \in InTree(t) : m \in Key /\ m \in Pointer
  BY InTreeIs DEF Bounded
<1>2. \A m \in Key : t[s][m] \in Pointer /\ t[s][m] \in {t.left[m], t.right[m]}
  BY <1>1, SideIs
<1>3. Closing(P, Pointer, E, g, Width(lo, hi))
  <2>1. P \in SUBSET Pointer
    BY <1>1
  <2>2. ASSUME NEW m \in P PROVE Width(lo, hi)[m] \in Nat
    <3>1. m \in Key /\ m \in Nat /\ lo[m] \in Int /\ hi[m] \in Int /\ lo[m] < m /\ m < hi[m]
      BY NodeIs
    <3> QED BY <3>1 DEF Width
  <2>3. ASSUME NEW m \in P \ E
        PROVE  g[m] \in P /\ Width(lo, hi)[g[m]] < Width(lo, hi)[m]
    <3>1. m \in InTree(t) /\ m \in Key /\ g[m] = t[s][m] /\ g[m] # NULL
      BY <1>1 DEF OneOn, SideEnds
    <3>2. g[m] \in {t.left[m], t.right[m]}
      BY <1>2, <3>1
    <3>3. Width(lo, hi)[g[m]] < Width(lo, hi)[m]
      BY <3>1, <3>2, Narrower
    <3> QED BY <3>1, <3>3
  <2> HIDE DEF E, g
  <2> QED BY <2>1, <2>2, <2>3 DEF Closing
<1>4. PICK f : /\ IsLoop(f, Pointer, E, g, Itself)
               /\ \A z : Utmost(t, z, s) = f[z]
  BY <1>1, UtmostLoop
<1>5. PICK y \in P \cap E : f[x] = Itself[y]
  <2> HIDE DEF E, g
  <2> QED BY <1>3, <1>4, LoopEnds
<1>6. y \in Key /\ y # NULL /\ f[x] = y
  BY <1>1, <1>5, KeysAreNumbers DEF Itself
<1>7. y \in P /\ t[s][y] = NULL
  BY <1>5, <1>6 DEF SideEnds
<1> QED BY <1>4, <1>6, <1>7

LEMMA UtmostNull ==
    ASSUME NEW t \in Tree, NEW s \in {"left", "right"} PROVE Utmost(t, NULL, s) = NULL
<1>1. PICK f : /\ IsLoop(f, Pointer, SideEnds(t, s), OneOn(t, s), Itself)
               /\ \A z : Utmost(t, z, s) = f[z]
  BY UtmostLoop
<1>2. NULL \in Pointer /\ NULL \in SideEnds(t, s)
  BY DEF Pointer, SideEnds
<1>3. f[NULL] = NULL
  BY <1>1, <1>2 DEF IsLoop, Itself
<1> QED BY <1>1, <1>3

\* The first node of the tree.
LEMMA FirstIs ==
    ASSUME NEW t, Good(t), t.root # NULL
    PROVE  LET n == Utmost(t, t.root, "left") IN
           n \in InTree(t) /\ n \in Key /\ \A k \in InTree(t) : n <= k
<1>1. PICK lo, hi : Bounded(t, lo, hi)
  BY DEF Good
<1>2. t \in Tree /\ t.root \in InTree(t) /\ lo[t.root] = -1
  BY <1>1, InTreeIs DEF Bounded
<1> DEFINE P == {m \in InTree(t) : lo[m] = -1}
           n == Utmost(t, t.root, "left")
<1>3. \A m \in P : t["left"][m] # NULL => t["left"][m] \in P
  BY <1>1, NodeIs
<1>4. n \in P /\ t.left[n] = NULL
  <2> HIDE DEF n
  <2>1. P \in SUBSET InTree(t) /\ t.root \in P /\ "left" \in {"left", "right"}
    BY <1>2
  <2> HIDE DEF P
  <2> QED BY <1>1, <1>3, <2>1, UtmostEnds DEF n
<1> HIDE DEF n
<1>5. n \in InTree(t) /\ n \in Key /\ lo[n] = -1 /\ n \in Nat /\ n < hi[n] /\ hi[n] \in Int
  BY <1>1, <1>4, NodeIs
<1>6. ASSUME NEW k \in InTree(t), ~ (n <= k) PROVE FALSE
  <2>1. k \in Nat /\ k < n /\ lo[n] < k /\ k < hi[n]
    BY <1>2, <1>5, <1>6, InTreeIs
  <2>2. k \in Below(t, n)
    BY <1>1, <1>5, <2>1, WithinBelow
  <2>3. k \in Below(t, t.right[n])
    BY <1>2, <1>4, <1>5, <2>1, <2>2, BelowIs, KeysAreNumbers
  <2>4. t.right[n] # NULL
    BY <1>2, <2>3, BelowIs, KeysAreNumbers
  <2>5. t.right[n] \in InTree(t) /\ lo[t.right[n]] = n
    BY <1>1, <1>5, <2>4, NodeIs
  <2>6. n < k
    BY <1>1, <2>3, <2>5, BelowWithin
  <2> QED BY <1>5, <2>1, <2>6
<1>7. n \in InTree(t) /\ n \in Key /\ \A k \in InTree(t) : n <= k
  BY <1>5, <1>6
<1> QED BY <1>7 DEF n

\* The last node below x: it has nothing on its right, and unless it is x
\* itself it is the right child of its parent, which is also below x.
LEMMA LastIs ==
    ASSUME NEW t, NEW lo, NEW hi, Bounded(t, lo, hi), NEW x \in InTree(t)
    PROVE  LET n == Utmost(t, x, "right") IN
           /\ n \in Below(t, x) /\ n \in InTree(t) /\ t.right[n] = NULL
           /\ hi[n] = hi[x]
           /\ \A k \in Below(t, x) : k <= n
           /\ n # x => t.parent[n] \in Below(t, x) /\ t.right[t.parent[n]] = n
<1> DEFINE P == {m \in Below(t, x) :
                    /\ hi[m] = hi[x]
                    /\ m # x => t.parent[m] \in Below(t, x) /\ t.right[t.parent[m]] = m}
           n == Utmost(t, x, "right")
<1>1. t \in Tree /\ x \in Below(t, x) /\ Below(t, x) \subseteq InTree(t) /\ x \in Pointer
  BY InTreeIs DEF Bounded
<1>2. ASSUME NEW m \in P, t["right"][m] # NULL PROVE t["right"][m] \in P
  <2>1. m \in InTree(t) /\ m \in Below(t, x) /\ hi[m] = hi[x] /\ t.right[m] # NULL
    BY <1>1, <1>2
  <2>2. t.right[m] \in Below(t, x)
    BY <1>1, <2>1, BelowIs
  <2>3. hi[t.right[m]] = hi[m] /\ t.parent[t.right[m]] = m
    BY <2>1, NodeIs
  <2> QED BY <2>1, <2>2, <2>3
<1>3. n \in P /\ t.right[n] = NULL
  <2> HIDE DEF n
  <2>1. P \in SUBSET InTree(t) /\ x \in P /\ "right" \in {"left", "right"}
    BY <1>1
  <2> HIDE DEF P
  <2> QED BY <1>2, <2>1, UtmostEnds DEF n
<1> HIDE DEF n
<1>4. n \in InTree(t) /\ n \in Below(t, x) /\ hi[n] = hi[x]
  BY <1>1, <1>3
<1>5. ASSUME NEW k \in Below(t, x), ~ (k <= n) PROVE FALSE
  <2>1. k \in InTree(t) /\ k < hi[x] /\ k \in Nat /\ n \in Nat /\ lo[n] < n /\ lo[n] \in Int
        /\ hi[n] \in Int
    BY <1>1, <1>4, BelowWithin, NodeIs
  <2>2. n < k /\ lo[n] < k /\ k < hi[n]
    BY <1>4, <1>5, <2>1
  <2>3. k \in Below(t, n)
    BY <1>4, <2>1, <2>2, WithinBelow
  <2>4. k \in Below(t, t.left[n])
    BY <1>1, <1>3, <1>4, <2>1, <2>2, <2>3, BelowIs, InTreeIs
  <2>5. t.left[n] # NULL
    BY <1>1, <2>4, BelowIs, KeysAreNumbers
  <2>6. t.left[n] \in InTree(t) /\ hi[t.left[n]] = n
    BY <1>4, <2>5, NodeIs
  <2>7. k < n
    BY <2>4, <2>6, BelowWithin
  <2> QED BY <2>1, <2>2, <2>7
<1>6. n # x => t.parent[n] \in Below(t, x) /\ t.right[t.parent[n]] = n
  BY <1>3
<1>7. \A k \in Below(t, x) : k <= n
  BY <1>5
<1> HIDE DEF P
<1> QED BY <1>3, <1>4, <1>6, <1>7 DEF n

\* The search for the first node at or behind k.
GeState == [node : Pointer, best : Pointer]

GeEnds(k) == {x \in GeState : x.node = NULL \/ x.node = k}

GeTurn(t, k, x) ==
    [node |-> t[Toward(k, x.node)][x.node], best |-> IF k < x.node THEN x.node ELSE x.best]

\* Behind node and best the tree has nothing that the search still wants.
GeInv(t, hi, k, x) ==
    /\ x.node # NULL => x.node \in InTree(t)
    /\ x.best # NULL => x.best \in InTree(t) /\ k < x.best
    /\ x.best # NULL /\ x.node # NULL => hi[x.node] <= x.best
    /\ \A z \in InTree(t) : k <= z =>
          \/ x.best # NULL /\ x.best <= z
          \/ x.node # NULL /\ z \in Below(t, x.node)

LEMMA GeTurnIs ==
    ASSUME NEW t, NEW lo, NEW hi, Bounded(t, lo, hi), NEW k \in Int, NEW x \in GeState,
           GeInv(t, hi, k, x), x.node # NULL, x.node # k
    PROVE  LET y == GeTurn(t, k, x) IN
           /\ y \in GeState /\ GeInv(t, hi, k, y)
           /\ y.node \in {t.left[x.node], t.right[x.node]}
<1> DEFINE m == x.node
           y == GeTurn(t, k, x)
<1>1. t \in Tree /\ m \in InTree(t) /\ m \in Key /\ m \in Nat /\ m \in Pointer
      /\ x.best \in Pointer
  <2>1. t \in Tree /\ m \in InTree(t) /\ x.best \in Pointer
    BY DEF Bounded, GeInv, GeState
  <2> QED BY <2>1, InTreeIs
<1>2. /\ y.node = t[Toward(k, m)][m]
      /\ k < m => y.best = m
      /\ ~ (k < m) => y.best = x.best
      /\ y = [node |-> y.node, best |-> y.best]
  BY DEF GeTurn
<1>3. /\ y.node \in {t.left[m], t.right[m]} /\ y.node \in Pointer
      /\ k < m => y.node = t.left[m]
      /\ ~ (k < m) => y.node = t.right[m]
  BY <1>1, <1>2, TowardIs
<1>4. y \in GeState
  BY <1>1, <1>2, <1>3 DEF GeState
<1>5. /\ y.node # NULL => y.node \in InTree(t)
      /\ t.left[m] # NULL => hi[t.left[m]] = m
      /\ t.right[m] # NULL => hi[t.right[m]] = hi[m] /\ lo[t.right[m]] = m
      /\ m < hi[m] /\ hi[m] \in Int
  BY <1>1, <1>3, NodeIs
<1>6. ASSUME NEW z \in InTree(t), z \in Below(t, m)
      PROVE  \/ z = m
             \/ t.left[m] # NULL /\ z \in Below(t, t.left[m]) /\ z < m
             \/ t.right[m] # NULL /\ z \in Below(t, t.right[m]) /\ m < z
  <2>1. z = m \/ z \in Below(t, t.left[m]) \/ z \in Below(t, t.right[m])
    BY <1>1, <1>6, BelowIs, KeysAreNumbers
  <2>2. ASSUME z \in Below(t, t.left[m]) PROVE t.left[m] # NULL /\ z < m
    <3>1. t.left[m] # NULL
      BY <1>1, <2>2, BelowIs, KeysAreNumbers
    <3>2. t.left[m] \in InTree(t) /\ hi[t.left[m]] = m
      BY <1>1, <3>1, NodeIs
    <3> QED BY <2>2, <3>1, <3>2, BelowWithin
  <2>3. ASSUME z \in Below(t, t.right[m]) PROVE t.right[m] # NULL /\ m < z
    <3>1. t.right[m] # NULL
      BY <1>1, <2>3, BelowIs, KeysAreNumbers
    <3>2. t.right[m] \in InTree(t) /\ lo[t.right[m]] = m
      BY <1>1, <3>1, NodeIs
    <3> QED BY <2>3, <3>1, <3>2, BelowWithin
  <2> QED BY <2>1, <2>2, <2>3
<1>7. \A z \in InTree(t) : z \in Nat /\ z # NULL
  BY <1>1, InTreeIs
<1>8. /\ x.best # NULL => x.best \in InTree(t) /\ k < x.best /\ hi[m] <= x.best
      /\ \A z \in InTree(t) : k <= z =>
            (x.best # NULL /\ x.best <= z) \/ z \in Below(t, m)
  BY DEF GeInv
<1>9. CASE k < m
  <2>1. y.best = m /\ y.node = t.left[m] /\ m # NULL
    BY <1>1, <1>2, <1>3, <1>7, <1>9
  <2>2. ASSUME NEW z \in InTree(t), k <= z
        PROVE  m <= z \/ (y.node # NULL /\ z \in Below(t, y.node))
    <3>1. CASE x.best # NULL /\ x.best <= z
      <4>1. x.best \in Nat /\ z \in Nat /\ m < hi[m] /\ hi[m] <= x.best
        BY <1>5, <1>7, <1>8, <3>1
      <4> QED BY <1>1, <1>5, <3>1, <4>1
    <3>2. CASE z \in Below(t, m)
      BY <1>1, <1>6, <1>7, <2>1, <3>2
    <3> QED BY <1>8, <2>2, <3>1, <3>2
  <2>3. GeInv(t, hi, k, y)
    <3> HIDE DEF y, m
    <3>1. y.node # NULL => hi[y.node] <= y.best
      BY <1>1, <1>5, <2>1
    <3> QED BY <1>1, <1>5, <1>9, <2>1, <2>2, <3>1 DEF GeInv
  <2> QED BY <1>3, <1>4, <2>3
<1>10. CASE ~ (k < m)
  <2>1. y.best = x.best /\ y.node = t.right[m] /\ m < k
    BY <1>1, <1>2, <1>3, <1>10
  <2>2. ASSUME NEW z \in InTree(t), k <= z
        PROVE  (x.best # NULL /\ x.best <= z) \/ (y.node # NULL /\ z \in Below(t, y.node))
    <3>1. CASE z \in Below(t, m)
      <4>1. z \in Nat
        BY <1>7
      <4> QED BY <1>1, <1>6, <2>1, <2>2, <3>1, <4>1
    <3> QED BY <1>8, <2>2, <3>1
  <2>3. GeInv(t, hi, k, y)
    <3> HIDE DEF y, m
    <3>1. y.node # NULL => hi[y.node] = hi[m]
      BY <1>5, <2>1
    <3> QED BY <1>5, <1>8, <2>1, <2>2, <3>1 DEF GeInv
  <2> QED BY <1>3, <1>4, <2>3
<1> QED BY <1>9, <1>10

LEMMA SearchGEIs ==
    ASSUME NEW t, Good(t), NEW k \in Int
    PROVE  LET n == SearchGE(t, k) IN
           /\ n = NULL => \A z \in InTree(t) : z < k
           /\ n # NULL => /\ n \in InTree(t) /\ n \in Key /\ k <= n
                          /\ \A z \in InTree(t) : k <= z => n <= z
<1>1. PICK lo, hi : Bounded(t, lo, hi)
  BY DEF Good
<1>2. t \in Tree /\ t.root \in Pointer
  BY <1>1, InTreeIs DEF Bounded
<1> DEFINE D == GeState
           E == GeEnds(k)
           g == [x \in D |-> IF x \in E \/ GeTurn(t, k, x) \notin D THEN x
                             ELSE GeTurn(t, k, x)]
           out == [x \in D |-> IF x.node = NULL THEN x.best ELSE k]
           Body(f) ==
               [x \in [node : Pointer, best : Pointer] |->
                    IF x.node = NULL THEN x.best
                    ELSE IF x.node = k THEN k
                    ELSE f[[node |-> t[Toward(k, x.node)][x.node],
                            best |-> IF k < x.node THEN x.node ELSE x.best]]]
           f == CHOOSE h : h = Body(h)
           P == {x \in D : GeInv(t, hi, k, x)}
           start == [node |-> t.root, best |-> NULL]
           m == [x \in D |-> IF x.node = NULL THEN 0 ELSE Width(lo, hi)[x.node]]
<1>3. ASSUME NEW x \in D, x \notin E
      PROVE  GeTurn(t, k, x) \in D /\ g[x] = GeTurn(t, k, x)
  <2>1. x.node \in Key /\ x.best \in Pointer /\ x.node \in Pointer
    BY <1>3 DEF GeState, GeEnds, Pointer
  <2>2. t[Toward(k, x.node)][x.node] \in Pointer
    BY <1>2, <2>1, TowardIs
  <2>3. GeTurn(t, k, x) \in D
    BY <2>1, <2>2 DEF GeTurn, GeState
  <2> QED BY <1>3, <2>3
<1>4. E \in SUBSET D /\ g \in [D -> D] /\ \A x \in E : g[x] = x
  <2>1. E \in SUBSET D
    BY DEF GeEnds
  <2>2. \A x \in D : g[x] \in D
    <3> HIDE DEF D, E
    <3> QED BY <1>3
  <2>3. \A x \in E : g[x] = x
    BY <2>1
  <2>4. g = [x \in D |-> g[x]]
    OBVIOUS
  <2> HIDE DEF g, D, E
  <2> QED BY <2>1, <2>2, <2>3, <2>4
<1>5. ASSUME NEW h PROVE IsLoop(h, D, E, g, out) <=> h = Body(h)
  <2>1. ASSUME NEW x \in D
        PROVE  (IF x \in E THEN out[x] ELSE h[g[x]]) =
                 (IF x.node = NULL THEN x.best
                  ELSE IF x.node = k THEN k
                  ELSE h[[node |-> t[Toward(k, x.node)][x.node],
                          best |-> IF k < x.node THEN x.node ELSE x.best]])
    <3>1. CASE x \in E
      <4>1. x.node = NULL \/ x.node = k
        BY <3>1 DEF GeEnds
      <4>2. out[x] = IF x.node = NULL THEN x.best ELSE k
        OBVIOUS
      <4> HIDE DEF out, E, g
      <4> QED BY <3>1, <4>1, <4>2
    <3>2. CASE x \notin E
      <4>1. x.node # NULL /\ x.node # k
        BY <3>2 DEF GeEnds
      <4>2. g[x] = [node |-> t[Toward(k, x.node)][x.node],
                    best |-> IF k < x.node THEN x.node ELSE x.best]
        BY <1>3, <3>2 DEF GeTurn
      <4> HIDE DEF out, E, g
      <4> QED BY <3>2, <4>1, <4>2
    <3> QED BY <3>1, <3>2
  <2>2. [x \in D |-> IF x \in E THEN out[x] ELSE h[g[x]]] = Body(h)
    <3>1. D = [node : Pointer, best : Pointer]
      BY DEF GeState
    <3> HIDE DEF D, E, g, out
    <3> QED BY <2>1, <3>1
  <2> HIDE DEF D, E, g, out, Body
  <2> QED BY <2>2 DEF IsLoop
<1>6. IsLoop(f, D, E, g, out)
  <2> HIDE DEF D, E, g, out
  <2>1. PICK h : IsLoop(h, D, E, g, out)
    BY <1>4, LoopExists
  <2> HIDE DEF Body
  <2> QED BY <1>5, <2>1
<1>7. SearchGE(t, k) = f[start]
  BY DEF SearchGE
<1> HIDE DEF f, Body
<1>8. Closing(P, D, E, g, m)
  <2>1. P \in SUBSET D
    OBVIOUS
  <2>2. ASSUME NEW x \in P PROVE x \in D /\ GeInv(t, hi, k, x)
    OBVIOUS
  <2>3. ASSUME NEW w \in InTree(t) PROVE Width(lo, hi)[w] \in Nat /\ 0 < Width(lo, hi)[w]
    <3>1. w \in Key /\ w \in Nat /\ lo[w] \in Int /\ hi[w] \in Int /\ lo[w] < w /\ w < hi[w]
      BY <1>1, NodeIs
    <3> QED BY <3>1 DEF Width
  <2>4. \A x \in D : m[x] = IF x.node = NULL THEN 0 ELSE Width(lo, hi)[x.node]
    OBVIOUS
  <2>5. \A x \in D : GeInv(t, hi, k, x) => x \in P
    OBVIOUS
  <2> HIDE DEF P, m
  <2>6. ASSUME NEW x \in P PROVE m[x] \in Nat
    <3>1. x \in D /\ (x.node # NULL => x.node \in InTree(t))
      BY <2>2 DEF GeInv
    <3> QED BY <2>3, <2>4, <3>1
  <2>7. ASSUME NEW x \in P \ E PROVE g[x] \in P /\ m[g[x]] < m[x]
    <3> DEFINE y == GeTurn(t, k, x)
    <3>1. x \in D /\ GeInv(t, hi, k, x) /\ g[x] = y
      BY <1>3, <2>2
    <3>2. x.node # NULL /\ x.node # k
      BY <2>7, <3>1 DEF GeEnds
    <3>3. x.node \in InTree(t)
      BY <3>1, <3>2 DEF GeInv
    <3>4. /\ y \in D /\ GeInv(t, hi, k, y)
          /\ y.node \in {t.left[x.node], t.right[x.node]}
      BY <1>1, <3>1, <3>2, GeTurnIs
    <3> HIDE DEF y, D, E, g
    <3>5. y \in P
      BY <2>5, <3>4
    <3>6. m[x] = Width(lo, hi)[x.node] /\ 0 < m[x]
      BY <2>3, <2>4, <3>1, <3>2, <3>3
    <3>7. CASE y.node = NULL
      BY <2>4, <3>1, <3>4, <3>5, <3>6, <3>7
    <3>8. CASE y.node # NULL
      <4>1. Width(lo, hi)[y.node] < Width(lo, hi)[x.node]
        BY <1>1, <3>3, <3>4, <3>8, Narrower
      <4>2. m[y] = Width(lo, hi)[y.node]
        BY <2>4, <3>4, <3>8
      <4> QED BY <3>1, <3>5, <3>6, <4>1, <4>2
    <3> QED BY <3>7, <3>8
  <2> HIDE DEF D, E, g
  <2> QED BY <2>1, <2>6, <2>7 DEF Closing
<1>9. start \in P
  <2>1. start \in D /\ start.node = t.root /\ start.best = NULL
    BY <1>2, KeysAreNumbers DEF GeState
  <2>2. t.root # NULL => t.root \in InTree(t)
    BY <1>2, InTreeIs
  <2>3. t.root = NULL => InTree(t) = {}
    BY <1>2, InTreeIs
  <2>4. \A z \in InTree(t) : t.root # NULL /\ z \in Below(t, t.root)
    BY <2>3 DEF InTree
  <2> HIDE DEF start
  <2>5. GeInv(t, hi, k, start)
    BY <2>1, <2>2, <2>4 DEF GeInv
  <2> QED BY <2>1, <2>5
<1>10. PICK y \in P \cap E : f[start] = out[y]
  <2> HIDE DEF P, D, E, g, out, start, m
  <2> QED BY <1>6, <1>8, <1>9, LoopEnds
<1>11. y \in D /\ GeInv(t, hi, k, y) /\ (y.node = NULL \/ y.node = k)
       /\ out[y] = IF y.node = NULL THEN y.best ELSE k
  BY <1>10 DEF GeEnds
<1> DEFINE n == SearchGE(t, k)
<1>12. n = IF y.node = NULL THEN y.best ELSE k
  BY <1>7, <1>10, <1>11
<1> HIDE DEF n, P, D, E, g, out, start, m
<1>13. \A z \in InTree(t) : z \in Nat /\ z \in Key /\ z # NULL
  BY <1>2, InTreeIs
<1>14. CASE y.node = NULL
  <2>1. /\ y.best # NULL => y.best \in InTree(t) /\ k < y.best
        /\ \A z \in InTree(t) : k <= z => y.best # NULL /\ y.best <= z
    BY <1>11, <1>14 DEF GeInv
  <2>2. n = y.best
    BY <1>12, <1>14
  <2> QED BY <1>13, <2>1, <2>2 DEF n
<1>15. CASE y.node # NULL
  <2>1. n = k /\ k \in InTree(t) /\ k # NULL
    BY <1>11, <1>12, <1>15 DEF GeInv
  <2> QED BY <1>13, <2>1 DEF n
<1> QED BY <1>14, <1>15

-----------------------------------------------------------------------------
(* Rotations.  n, the child of x on the side of l, takes its place.        *)

Rotated(l, r, p, root, l2, r2, p2, root2, x, n) ==
    /\ \A y \in Key :
         /\ l2[y] = IF y = x THEN r[n] ELSE IF y = p[x] /\ l[y] = x THEN n ELSE l[y]
         /\ r2[y] = IF y = n THEN x ELSE IF y = p[x] /\ r[y] = x THEN n ELSE r[y]
         /\ p2[y] = IF y = n THEN p[x] ELSE IF y = x THEN n
                    ELSE IF y = r[n] THEN x ELSE p[y]
    /\ root2 = IF root = x THEN n ELSE root

\* What a place to rotate at is like.
Place(l, r, p, root, a, b, x, n) ==
    /\ l \in [Key -> Pointer] /\ r \in [Key -> Pointer] /\ p \in [Key -> Pointer]
    /\ root \in Key /\ root # n
    /\ a \in Bound /\ b \in Bound
    /\ Linked(l, r, p, root, a, b)
    /\ \A y \in Under(l, r, root) : a[y] # y /\ b[y] # y
    /\ x \in Under(l, r, root) /\ n = l[x] /\ n # NULL
    /\ x # root => /\ p[x] \in Under(l, r, root) /\ x \in {l[p[x]], r[p[x]]}
                   /\ p[x] # n /\ p[x] # r[n]
    /\ x = root => p[x] = NULL

LEMMA PlaceIs ==
    ASSUME NEW l, NEW r, NEW p, NEW root, NEW a, NEW b, NEW x, NEW n,
           Place(l, r, p, root, a, b, x, n)
    PROVE  LET N == Under(l, r, root) IN
           /\ N \in SUBSET Key /\ root \in N /\ x \in N /\ n \in N /\ x \in Key /\ n \in Key
           /\ x # n /\ p[x] # x /\ p[x] # n /\ (p[x] # r[n] \/ p[x] = NULL)
           /\ r[n] # n /\ r[n] # x
           /\ n # root /\ x # NULL /\ n # NULL /\ root # NULL
           /\ p[n] = x /\ a[n] = a[x] /\ b[n] = x
           /\ \A y \in N : /\ l[y] # NULL =>
                               /\ l[y] \in N /\ p[l[y]] = y /\ a[l[y]] = a[y] /\ b[l[y]] = y
                           /\ r[y] # NULL =>
                               /\ r[y] \in N /\ p[r[y]] = y /\ b[r[y]] = b[y] /\ a[r[y]] = y
                           /\ a[y] # y /\ b[y] # y /\ y # NULL /\ y \in Key
<1> DEFINE N == Under(l, r, root)
<1>1. /\ l \in [Key -> Pointer] /\ r \in [Key -> Pointer] /\ root \in Key
      /\ x \in N /\ n = l[x] /\ n # NULL /\ root # n
      /\ \A y \in N : a[y] # y /\ b[y] # y
      /\ x = root => p[x] = NULL
      /\ x # root => /\ p[x] \in N /\ p[x] # n /\ p[x] # r[n]
                     /\ x \in {l[p[x]], r[p[x]]}
  BY DEF Place
<1>2. N \in SUBSET Key /\ root \in N /\ Chained(l, r, N) /\ NULL \notin Key
  BY <1>1, UnderIs, KeysAreNumbers
<1>3. \A y \in N : /\ l[y] # NULL =>
                        /\ l[y] \in N /\ p[l[y]] = y /\ a[l[y]] = a[y] /\ b[l[y]] = y
                   /\ r[y] # NULL =>
                        /\ r[y] \in N /\ p[r[y]] = y /\ b[r[y]] = b[y] /\ a[r[y]] = y
                   /\ a[y] # y /\ b[y] # y /\ y # NULL /\ y \in Key
  <2>1. Linked(l, r, p, root, a, b)
    BY DEF Place
  <2> QED BY <1>1, <1>2, <2>1 DEF Linked, Chained
<1> HIDE DEF N
<1>4. n \in N /\ p[n] = x /\ a[n] = a[x] /\ b[n] = x /\ x # n
  BY <1>1, <1>3
<1>5. r[n] # n
  BY <1>3, <1>4
<1>6. r[n] # x
  BY <1>1, <1>3, <1>4
<1>7. p[x] # x
  BY <1>1, <1>2, <1>3, <1>4
<1>8. p[x] # n /\ (p[x] # r[n] \/ p[x] = NULL)
  BY <1>1, <1>4
<1> QED BY <1>1, <1>2, <1>3, <1>4, <1>5, <1>6, <1>7, <1>8 DEF N

\* The bounds after it.
Outward(a, x, n) == [a EXCEPT ![x] = n]
Inward(b, x, n) == [b EXCEPT ![n] = b[x]]

LEMMA RotatedLinks ==
    ASSUME NEW l, NEW r, NEW p, NEW root, NEW a, NEW b, NEW x, NEW n,
           Place(l, r, p, root, a, b, x, n),
           NEW l2 \in [Key -> Pointer], NEW r2 \in [Key -> Pointer], NEW p2, NEW root2,
           Rotated(l, r, p, root, l2, r2, p2, root2, x, n)
    PROVE  /\ root2 \in Under(l, r, root)
           /\ \A y \in Under(l, r, root) :
                 LET a2 == Outward(a, x, n)
                     b2 == Inward(b, x, n)
                 IN  /\ l2[y] # NULL => /\ l2[y] \in Under(l, r, root) /\ p2[l2[y]] = y
                                        /\ a2[l2[y]] = a2[y] /\ b2[l2[y]] = y
                     /\ r2[y] # NULL => /\ r2[y] \in Under(l, r, root) /\ p2[r2[y]] = y
                                        /\ b2[r2[y]] = b2[y] /\ a2[r2[y]] = y
<1> DEFINE N == Under(l, r, root)
           a2 == Outward(a, x, n)
           b2 == Inward(b, x, n)
<1>1. /\ N \in SUBSET Key /\ root \in N /\ x \in N /\ n \in N /\ x \in Key /\ n \in Key
      /\ x # n /\ p[x] # x /\ p[x] # n /\ (p[x] # r[n] \/ p[x] = NULL)
      /\ r[n] # n /\ r[n] # x
      /\ n # root /\ x # NULL /\ n # NULL /\ root # NULL
      /\ p[n] = x /\ a[n] = a[x] /\ b[n] = x
  BY PlaceIs
<1>2. \A y \in N : /\ l[y] # NULL =>
                        /\ l[y] \in N /\ p[l[y]] = y /\ a[l[y]] = a[y] /\ b[l[y]] = y
                   /\ r[y] # NULL =>
                        /\ r[y] \in N /\ p[r[y]] = y /\ b[r[y]] = b[y] /\ a[r[y]] = y
                   /\ a[y] # y /\ b[y] # y /\ y # NULL /\ y \in Key
  BY PlaceIs
<1>3. \A y \in N : /\ a2[y] = IF y = x THEN n ELSE a[y]
                   /\ b2[y] = IF y = n THEN b[x] ELSE b[y]
  <2>1. a \in Bound /\ b \in Bound
    BY DEF Place
  <2> QED BY <1>1, <2>1 DEF Outward, Inward, Bound
<1>4. \A y \in N :
         /\ l2[y] = IF y = x THEN r[n] ELSE IF y = p[x] /\ l[y] = x THEN n ELSE l[y]
         /\ r2[y] = IF y = n THEN x ELSE IF y = p[x] /\ r[y] = x THEN n ELSE r[y]
         /\ p2[y] = IF y = n THEN p[x] ELSE IF y = x THEN n
                    ELSE IF y = r[n] THEN x ELSE p[y]
  BY <1>1 DEF Rotated
<1>5. root2 \in N
  BY <1>1 DEF Rotated
<1>6. l[x] = n
  BY DEF Place
<1> DEFINE LeftOk(y) == l2[y] # NULL => /\ l2[y] \in N /\ p2[l2[y]] = y
                                        /\ a2[l2[y]] = a2[y] /\ b2[l2[y]] = y
           RightOk(y) == r2[y] # NULL => /\ r2[y] \in N /\ p2[r2[y]] = y
                                         /\ b2[r2[y]] = b2[y] /\ a2[r2[y]] = y
<1> HIDE DEF N, a2, b2
<1>7. LeftOk(x)
  <2>1. l2[x] = r[n]
    BY <1>1, <1>4
  <2>2. SUFFICES ASSUME r[n] # NULL PROVE LeftOk(x)
    BY <2>1
  <2>3. r[n] \in N /\ b[r[n]] = b[n] /\ a[r[n]] = n
    BY <1>1, <1>2, <2>2
  <2> QED BY <1>1, <1>3, <1>4, <2>1, <2>3
<1>8. RightOk(x)
  <2>1. r2[x] = r[x]
    BY <1>1, <1>4
  <2>2. SUFFICES ASSUME r[x] # NULL PROVE RightOk(x)
    BY <2>1
  <2>3. r[x] \in N /\ p[r[x]] = x /\ b[r[x]] = b[x] /\ a[r[x]] = x
    BY <1>1, <1>2, <2>2
  <2>4. r[x] # x /\ r[x] # n
    BY <1>1, <1>2, <2>3
  <2>5. r[x] # r[n]
    BY <1>1, <1>2, <2>2, <2>3
  <2> QED BY <1>1, <1>3, <1>4, <2>1, <2>3, <2>4, <2>5
<1>9. LeftOk(n)
  <2>1. l2[n] = l[n]
    BY <1>1, <1>4
  <2>2. SUFFICES ASSUME l[n] # NULL PROVE LeftOk(n)
    BY <2>1
  <2>3. l[n] \in N /\ p[l[n]] = n /\ a[l[n]] = a[n] /\ b[l[n]] = n
    BY <1>1, <1>2, <2>2
  <2>4. l[n] # x /\ l[n] # n
    BY <1>1, <1>2, <2>3
  <2>5. l[n] # r[n]
    <3>1. r[n] # NULL => b[r[n]] = b[n]
      BY <1>1, <1>2
    <3> QED BY <1>1, <2>2, <2>3, <3>1
  <2> QED BY <1>1, <1>3, <1>4, <2>1, <2>3, <2>4, <2>5
<1>10. RightOk(n)
  <2>1. r2[n] = x
    BY <1>1, <1>4
  <2> QED BY <1>1, <1>3, <1>4, <2>1
<1>11. ASSUME NEW y \in N, y # x, y # n PROVE LeftOk(y)
  <2>1. SUFFICES ASSUME l2[y] # NULL PROVE LeftOk(y)
    OBVIOUS
  <2>2. CASE y = p[x] /\ l[y] = x
    <3>1. l2[y] = n /\ a[x] = a[y] /\ b[x] = y
      BY <1>1, <1>2, <1>4, <1>11, <2>2
    <3> QED BY <1>1, <1>3, <1>4, <1>11, <2>2, <3>1
  <2>3. CASE ~ (y = p[x] /\ l[y] = x)
    <3>1. l2[y] = l[y]
      BY <1>4, <1>11, <2>3
    <3>2. l[y] \in N /\ p[l[y]] = y /\ a[l[y]] = a[y] /\ b[l[y]] = y
      BY <1>2, <2>1, <3>1
    <3>3. l[y] # n
      BY <1>1, <1>11, <3>2
    <3>4. l[y] # x
      BY <2>3, <3>2
    <3>5. l[y] # r[n]
      BY <1>1, <1>2, <1>11, <3>1, <3>2, <2>1
    <3> QED BY <1>3, <1>4, <1>11, <3>1, <3>2, <3>3, <3>4, <3>5
  <2> QED BY <2>2, <2>3
<1>12. ASSUME NEW y \in N, y # x, y # n PROVE RightOk(y)
  <2>1. SUFFICES ASSUME r2[y] # NULL PROVE RightOk(y)
    OBVIOUS
  <2>2. CASE y = p[x] /\ r[y] = x
    <3>1. r2[y] = n /\ b[x] = b[y] /\ a[x] = y
      BY <1>1, <1>2, <1>4, <1>12, <2>2
    <3> QED BY <1>1, <1>3, <1>4, <1>12, <2>2, <3>1
  <2>3. CASE ~ (y = p[x] /\ r[y] = x)
    <3>1. r2[y] = r[y]
      BY <1>4, <1>12, <2>3
    <3>2. r[y] \in N /\ p[r[y]] = y /\ b[r[y]] = b[y] /\ a[r[y]] = y
      BY <1>2, <2>1, <3>1
    <3>3. r[y] # n
      BY <1>1, <1>12, <3>2
    <3>4. r[y] # x
      BY <2>3, <3>2
    <3>5. r[y] # r[n]
      BY <1>1, <1>2, <1>12, <3>1, <3>2, <2>1
    <3> QED BY <1>3, <1>4, <1>12, <3>1, <3>2, <3>3, <3>4, <3>5
  <2> QED BY <2>2, <2>3
<1> HIDE DEF LeftOk, RightOk
<1>13. \A y \in N : LeftOk(y) /\ RightOk(y)
  BY <1>7, <1>8, <1>9, <1>10, <1>11, <1>12
<1> QED BY <1>5, <1>13 DEF LeftOk, RightOk, N, a2, b2

LEMMA RotatedNodes ==
    ASSUME NEW l, NEW r, NEW p, NEW root, NEW a, NEW b, NEW x, NEW n,
           Place(l, r, p, root, a, b, x, n),
           NEW l2 \in [Key -> Pointer], NEW r2 \in [Key -> Pointer], NEW p2, NEW root2,
           Rotated(l, r, p, root, l2, r2, p2, root2, x, n)
    PROVE  /\ Under(l2, r2, root2) = Under(l, r, root)
           /\ Linked(l2, r2, p2, root2, Outward(a, x, n), Inward(b, x, n))
<1> DEFINE N == Under(l, r, root)
           U == Under(l2, r2, root2)
           S == {y \in N : y \in U}
           C == U \ {x}
<1>0. /\ l \in [Key -> Pointer] /\ r \in [Key -> Pointer] /\ l[x] = n /\ root \in Key
  BY DEF Place
<1>1. /\ N \in SUBSET Key /\ root \in N /\ x \in N /\ n \in N /\ x \in Key /\ n \in Key
      /\ x # n /\ p[x] # x /\ p[x] # n
      /\ n # root /\ x # NULL /\ n # NULL /\ root # NULL /\ root \in Pointer
      /\ l \in [Key -> Pointer] /\ r \in [Key -> Pointer] /\ l[x] = n
  BY <1>0, PlaceIs, KeysAreNumbers
<1>2. /\ root2 \in N
      /\ \A y \in N :
            /\ l2[y] # NULL => l2[y] \in N /\ p2[l2[y]] = y
            /\ r2[y] # NULL => r2[y] \in N /\ p2[r2[y]] = y
  BY RotatedLinks
<1>3. /\ \A y \in N :
            /\ l2[y] = IF y = x THEN r[n] ELSE IF y = p[x] /\ l[y] = x THEN n ELSE l[y]
            /\ r2[y] = IF y = n THEN x ELSE IF y = p[x] /\ r[y] = x THEN n ELSE r[y]
      /\ p2[x] = n
      /\ root2 = IF root = x THEN n ELSE root
  BY <1>1 DEF Rotated
<1>4. root2 \in Pointer /\ root2 # x /\ root2 # NULL
  BY <1>1, <1>2, <1>3, KeysAreNumbers
<1>5. /\ U \in SUBSET Key /\ root2 \in U /\ Chained(l2, r2, U)
      /\ \A D \in SUBSET Key : root2 \in D \cup {NULL} /\ Chained(l2, r2, D) => U \subseteq D
  BY <1>4, UnderIs
<1>6. U \subseteq N
  <2>1. Chained(l2, r2, N)
    BY <1>2 DEF Chained
  <2> QED BY <1>1, <1>2, <1>5, <2>1
<1> HIDE DEF N, U
<1>7. x \in U => n \in U
  <2> SUFFICES ASSUME x \in U, n \notin U PROVE FALSE
    OBVIOUS
  <2>1. Chained(l2, r2, C)
    <3> SUFFICES ASSUME NEW y \in C
                 PROVE  l2[y] \in C \cup {NULL} /\ r2[y] \in C \cup {NULL}
      BY DEF Chained
    <3>1. y \in N /\ y # n /\ l2[y] \in U \cup {NULL} /\ r2[y] \in U \cup {NULL}
      BY <1>5, <1>6 DEF Chained
    <3>2. l2[y] # x /\ r2[y] # x
      BY <1>1, <1>2, <1>3, <3>1
    <3> QED BY <3>1, <3>2
  <2>2. C \in SUBSET Key /\ root2 \in C
    BY <1>4, <1>5
  <2>3. U \subseteq C
    <3> HIDE DEF C
    <3> QED BY <1>5, <2>1, <2>2
  <2> QED BY <2>3
<1>8. n \in U => x \in U
  BY <1>1, <1>3, <1>5 DEF Chained
<1>9. root \in S
  BY <1>1, <1>3, <1>5, <1>8
<1>10. ASSUME NEW y \in S PROVE l[y] \in S \cup {NULL} /\ r[y] \in S \cup {NULL}
  <2>1. y \in N /\ y \in U /\ l2[y] \in U \cup {NULL} /\ r2[y] \in U \cup {NULL}
    BY <1>5 DEF Chained
  <2>2. l[y] \in N \cup {NULL} /\ r[y] \in N \cup {NULL}
    BY <1>1, <2>1, UnderIs DEF N, Chained
  <2>3. l[y] \in U \cup {NULL}
    <3>1. CASE y = x
      BY <1>1, <1>7, <2>1, <3>1
    <3>2. CASE y # x /\ l[y] = x
      BY <1>1, <1>3, <1>8, <2>1, <3>2
    <3>3. CASE y # x /\ l[y] # x
      BY <1>3, <2>1, <3>3
    <3> QED BY <3>1, <3>2, <3>3
  <2>4. r[y] \in U \cup {NULL}
    <3>1. CASE y = n
      <4>1. x \in U /\ l2[x] = r[n]
        BY <1>1, <1>3, <1>8, <2>1, <3>1
      <4> QED BY <1>5, <3>1, <4>1 DEF Chained
    <3>2. CASE y # n /\ r[y] = x
      BY <1>1, <1>3, <1>8, <2>1, <3>2
    <3>3. CASE y # n /\ r[y] # x
      BY <1>3, <2>1, <3>3
    <3> QED BY <3>1, <3>2, <3>3
  <2> QED BY <2>2, <2>3, <2>4
<1>11. N \subseteq S
  <2>1. S \in SUBSET Key /\ Chained(l, r, S)
    BY <1>1, <1>10 DEF Chained
  <2> HIDE DEF S
  <2> QED BY <1>1, <1>9, <2>1, UnderIs DEF N
<1>12. U = N
  BY <1>6, <1>11
<1>13. Linked(l2, r2, p2, root2, Outward(a, x, n), Inward(b, x, n))
  <2>1. \A y \in N :
           LET a2 == Outward(a, x, n)
               b2 == Inward(b, x, n)
           IN  /\ l2[y] # NULL => p2[l2[y]] = y /\ a2[l2[y]] = a2[y] /\ b2[l2[y]] = y
               /\ r2[y] # NULL => p2[r2[y]] = y /\ b2[r2[y]] = b2[y] /\ a2[r2[y]] = y
    BY RotatedLinks DEF N
  <2> QED BY <1>12, <2>1 DEF Linked, U
<1> QED BY <1>12, <1>13 DEF N, U

LEMMA LinkedSwap ==
    ASSUME NEW l, NEW r, NEW p, NEW root, NEW a, NEW b, Linked(l, r, p, root, a, b)
    PROVE  Linked(r, l, p, root, b, a)
  BY UnderSwap DEF Linked

\* The tree t after a rotation at x that lifts its child on side s.
Turned(t, s, x, u) ==
    Rotated(t[s], t[Other[s]], t.parent, t.root,
            u[s], u[Other[s]], u.parent, u.root, x, t[s][x])

LEMMA PlaceOf ==
    ASSUME NEW t, NEW lo, NEW hi, Bounded(t, lo, hi), NEW x \in InTree(t)
    PROVE  /\ t.left[x] # NULL =>
                 Place(t.left, t.right, t.parent, t.root, lo, hi, x, t.left[x])
           /\ t.right[x] # NULL =>
                 Place(t.right, t.left, t.parent, t.root, hi, lo, x, t.right[x])
<1>1. /\ t \in Tree /\ lo \in Bound /\ hi \in Bound
      /\ Linked(t.left, t.right, t.parent, t.root, lo, hi)
      /\ Linked(t.right, t.left, t.parent, t.root, hi, lo)
      /\ Under(t.left, t.right, t.root) = InTree(t)
      /\ Under(t.right, t.left, t.root) = InTree(t)
  <2>1. /\ t \in Tree /\ lo \in Bound /\ hi \in Bound
        /\ Linked(t.left, t.right, t.parent, t.root, lo, hi)
    BY DEF Bounded
  <2>2. Under(t.right, t.left, t.root) = Under(t.left, t.right, t.root)
    BY UnderSwap
  <2> QED BY <2>1, <2>2, LinkedSwap DEF InTree, Below
<1>2. /\ t.left \in [Key -> Pointer] /\ t.right \in [Key -> Pointer]
      /\ t.parent \in [Key -> Pointer] /\ t.root \in Key /\ t.root \in InTree(t)
      /\ t.parent[t.root] = NULL
  <2>1. t.root # NULL
    BY <1>1, InTreeIs
  <2> QED BY <1>1, <2>1, InTreeIs DEF Tree, Bounded
<1>3. \A y \in InTree(t) : lo[y] # y /\ hi[y] # y
  BY NodeIs
<1>4. \A y \in InTree(t) : /\ t.left[y] # NULL => t.left[y] # t.root
                           /\ t.right[y] # NULL => t.right[y] # t.root
  BY <1>2, NodeIs
<1>5. ASSUME x # t.root
      PROVE  /\ t.parent[x] \in InTree(t) /\ x \in {t.left[t.parent[x]], t.right[t.parent[x]]}
             /\ \A z \in Below(t, x) : t.parent[x] # z
             /\ t.parent[x] # NULL
  <2>1. /\ t.parent[x] \in InTree(t) /\ t.parent[x] # NULL
        /\ x \in {t.left[t.parent[x]], t.right[t.parent[x]]}
    BY <1>5, ParentIs
  <2>2. hi[x] = t.parent[x] \/ lo[x] = t.parent[x]
    <3>1. x # NULL
      BY NodeIs
    <3> QED BY <2>1, <3>1, NodeIs
  <2>3. ASSUME NEW z \in Below(t, x), t.parent[x] = z PROVE FALSE
    <3>1. lo[x] < z /\ z < hi[x] /\ lo[x] \in Int /\ hi[x] \in Int
      BY BelowWithin, NodeIs
    <3> QED BY <2>2, <2>3, <3>1
  <2> QED BY <2>1, <2>3
<1>6. ASSUME NEW n \in {t.left[x], t.right[x]}, n # NULL
      PROVE  /\ n \in Below(t, x)
             /\ t.left[n] # NULL => t.left[n] \in Below(t, x)
             /\ t.right[n] # NULL => t.right[n] \in Below(t, x)
  <2>1. x \in Pointer /\ x \in Below(t, x)
    BY <1>1, InTreeIs
  <2>2. n \in Below(t, x)
    BY <1>1, <1>6, <2>1, BelowIs
  <2> QED BY <1>1, <2>1, <2>2, BelowIs
<1>7. t.left[x] # NULL => Place(t.left, t.right, t.parent, t.root, lo, hi, x, t.left[x])
  BY <1>1, <1>2, <1>3, <1>4, <1>5, <1>6 DEF Place
<1>8. t.right[x] # NULL => Place(t.right, t.left, t.parent, t.root, hi, lo, x, t.right[x])
  BY <1>1, <1>2, <1>3, <1>4, <1>5, <1>6 DEF Place
<1> QED BY <1>7, <1>8

\* A rotation keeps a search tree and its nodes; n gets the bounds of x.
LEMMA TurnedLeft ==
    ASSUME NEW t, NEW lo, NEW hi, Bounded(t, lo, hi), NEW x \in InTree(t),
           NEW n, n = t.left[x], n # NULL,
           NEW u \in Tree, Turned(t, "left", x, u)
    PROVE  /\ Bounded(u, Outward(lo, x, n), Inward(hi, x, n))
           /\ InTree(u) = InTree(t)
<1> DEFINE lo2 == Outward(lo, x, n)
           hi2 == Inward(hi, x, n)
<1>1. Place(t.left, t.right, t.parent, t.root, lo, hi, x, n)
  BY PlaceOf
<1>2. Rotated(t.left, t.right, t.parent, t.root, u.left, u.right, u.parent, u.root, x, n)
  BY DEF Turned, Other
<1>3. u.left \in [Key -> Pointer] /\ u.right \in [Key -> Pointer]
  BY DEF Tree
<1>4. /\ Linked(u.left, u.right, u.parent, u.root, lo2, hi2)
      /\ InTree(u) = InTree(t)
  BY <1>1, <1>2, <1>3, RotatedNodes DEF InTree, Below
<1>5. /\ x \in Key /\ x \in Nat /\ lo[x] \in Int /\ hi[x] \in Int /\ lo[x] < x /\ x < hi[x]
      /\ n \in InTree(t) /\ lo[n] = lo[x] /\ hi[n] = x /\ n < x
  BY NodeIs
<1>6. n \in Key /\ n \in Nat /\ lo[n] < n /\ n \in -1 .. TypeLimit
  <2>1. n \in Key /\ n \in Nat /\ lo[n] < n
    BY <1>5, NodeIs
  <2> QED BY <2>1, KeysAreNumbers
<1>7. /\ lo \in Bound /\ hi \in Bound /\ t \in Tree
      /\ t.root # NULL => t.parent[t.root] = NULL /\ lo[t.root] = -1 /\ hi[t.root] = TypeLimit
      /\ \A y \in InTree(t) : lo[y] < y /\ y < hi[y] /\ y \in Key
  BY InTreeIs DEF Bounded
<1>8. lo2 \in Bound /\ hi2 \in Bound
  BY <1>5, <1>6, <1>7 DEF Outward, Inward, Bound
<1>9. /\ \A y \in Key : lo2[y] = IF y = x THEN n ELSE lo[y]
      /\ \A y \in Key : hi2[y] = IF y = n THEN hi[x] ELSE hi[y]
  BY <1>7 DEF Outward, Inward, Bound
<1> HIDE DEF lo2, hi2
<1>10. \A y \in InTree(u) : lo2[y] < y /\ y < hi2[y]
  BY <1>4, <1>5, <1>6, <1>7, <1>9
<1>11. u.root # NULL /\ u.parent[u.root] = NULL /\ lo2[u.root] = -1 /\ hi2[u.root] = TypeLimit
  <2>1. /\ t.root \in Key /\ t.root # NULL /\ t.root # n
        /\ u.root = IF t.root = x THEN n ELSE t.root
        /\ \A y \in Key : u.parent[y] = IF y = n THEN t.parent[x] ELSE IF y = x THEN n
                                        ELSE IF y = t.right[n] THEN x ELSE t.parent[y]
    <3>1. t.root \in Key /\ t.root # NULL /\ t.root # n
      BY <1>1, KeysAreNumbers DEF Place
    <3> QED BY <1>2, <3>1 DEF Rotated
  <2>2. t.right[n] # NULL => t.parent[t.right[n]] = n
    BY <1>5, NodeIs
  <2>3. t.right[n] # t.root
    BY <1>7, <2>1, <2>2
  <2>4. CASE t.root = x
    BY <1>5, <1>6, <1>7, <1>9, <2>1, <2>4
  <2>5. CASE t.root # x
    BY <1>7, <1>9, <2>1, <2>3, <2>5
  <2> QED BY <2>4, <2>5
<1> QED BY <1>4, <1>8, <1>10, <1>11 DEF Bounded, lo2, hi2

LEMMA TurnedRight ==
    ASSUME NEW t, NEW lo, NEW hi, Bounded(t, lo, hi), NEW x \in InTree(t),
           NEW n, n = t.right[x], n # NULL,
           NEW u \in Tree, Turned(t, "right", x, u)
    PROVE  /\ Bounded(u, Inward(lo, x, n), Outward(hi, x, n))
           /\ InTree(u) = InTree(t)
<1> DEFINE lo2 == Inward(lo, x, n)
           hi2 == Outward(hi, x, n)
<1>1. Place(t.right, t.left, t.parent, t.root, hi, lo, x, n)
  BY PlaceOf
<1>2. Rotated(t.right, t.left, t.parent, t.root, u.right, u.left, u.parent, u.root, x, n)
  BY DEF Turned, Other
<1>3. u.right \in [Key -> Pointer] /\ u.left \in [Key -> Pointer]
  BY DEF Tree
<1>4. /\ Linked(u.left, u.right, u.parent, u.root, lo2, hi2)
      /\ InTree(u) = InTree(t)
  <2>1. /\ Linked(u.right, u.left, u.parent, u.root, hi2, lo2)
        /\ Under(u.right, u.left, u.root) = Under(t.right, t.left, t.root)
    BY <1>1, <1>2, <1>3, RotatedNodes
  <2>2. /\ Under(u.right, u.left, u.root) = Under(u.left, u.right, u.root)
        /\ Under(t.right, t.left, t.root) = Under(t.left, t.right, t.root)
    BY UnderSwap
  <2> QED BY <2>1, <2>2, LinkedSwap DEF InTree, Below
<1>5. /\ x \in Key /\ x \in Nat /\ lo[x] \in Int /\ hi[x] \in Int /\ lo[x] < x /\ x < hi[x]
      /\ n \in InTree(t) /\ hi[n] = hi[x] /\ lo[n] = x /\ x < n
  BY NodeIs
<1>6. n \in Key /\ n \in Nat /\ n < hi[n] /\ n \in -1 .. TypeLimit
  <2>1. n \in Key /\ n \in Nat /\ n < hi[n]
    BY <1>5, NodeIs
  <2> QED BY <2>1, KeysAreNumbers
<1>7. /\ lo \in Bound /\ hi \in Bound /\ t \in Tree
      /\ t.root # NULL => t.parent[t.root] = NULL /\ lo[t.root] = -1 /\ hi[t.root] = TypeLimit
      /\ \A y \in InTree(t) : lo[y] < y /\ y < hi[y] /\ y \in Key
  BY InTreeIs DEF Bounded
<1>8. lo2 \in Bound /\ hi2 \in Bound
  BY <1>5, <1>6, <1>7 DEF Outward, Inward, Bound
<1>9. /\ \A y \in Key : hi2[y] = IF y = x THEN n ELSE hi[y]
      /\ \A y \in Key : lo2[y] = IF y = n THEN lo[x] ELSE lo[y]
  BY <1>7 DEF Outward, Inward, Bound
<1> HIDE DEF lo2, hi2
<1>10. \A y \in InTree(u) : lo2[y] < y /\ y < hi2[y]
  BY <1>4, <1>5, <1>6, <1>7, <1>9
<1>11. u.root # NULL /\ u.parent[u.root] = NULL /\ lo2[u.root] = -1 /\ hi2[u.root] = TypeLimit
  <2>1. /\ t.root \in Key /\ t.root # NULL /\ t.root # n
        /\ u.root = IF t.root = x THEN n ELSE t.root
        /\ \A y \in Key : u.parent[y] = IF y = n THEN t.parent[x] ELSE IF y = x THEN n
                                        ELSE IF y = t.left[n] THEN x ELSE t.parent[y]
    <3>1. t.root \in Key /\ t.root # NULL /\ t.root # n
      BY <1>1, KeysAreNumbers DEF Place
    <3> QED BY <1>2, <3>1 DEF Rotated
  <2>2. t.left[n] # NULL => t.parent[t.left[n]] = n
    BY <1>5, NodeIs
  <2>3. t.left[n] # t.root
    BY <1>7, <2>1, <2>2
  <2>4. CASE t.root = x
    BY <1>5, <1>6, <1>7, <1>9, <2>1, <2>4
  <2>5. CASE t.root # x
    BY <1>7, <1>9, <2>1, <2>3, <2>5
  <2> QED BY <2>4, <2>5
<1> QED BY <1>4, <1>8, <1>10, <1>11 DEF Bounded, lo2, hi2

-----------------------------------------------------------------------------
(* What the operations on links and heights return, field by field.        *)

Sides == {"left", "right"}

LEMMA SidesAre ==
    /\ \A s \in Sides : Other[s] \in Sides /\ Other[s] # s /\ Other[Other[s]] = s
    /\ \A s \in Sides, r \in Sides : r = s \/ r = Other[s]
  BY DEF Sides, Other

\* The height a node should store.
Tall(l, r) == (IF l > r THEN l ELSE r) + 1

Accurate(t, n) == t.height[n] = Tall(Height(t, t.left[n]), Height(t, t.right[n]))

LEMMA HeightIs ==
    ASSUME NEW t \in Tree, NEW n \in Pointer
    PROVE  Height(t, n) \in Nat
  BY DEF Height, Pointer, Tree

LEMMA TallIs ==
    ASSUME NEW t \in Tree, NEW s \in Sides, NEW n \in Key
    PROVE  /\ t[s][n] \in Pointer /\ t[Other[s]][n] \in Pointer
           /\ Accurate(t, n) <=>
                 t.height[n] = Tall(Height(t, t[s][n]), Height(t, t[Other[s]][n]))
<1>1. t.left[n] \in Pointer /\ t.right[n] \in Pointer
  BY DEF Tree
<1>2. Height(t, t.left[n]) \in Nat /\ Height(t, t.right[n]) \in Nat
  BY <1>1, HeightIs
<1> DEFINE l == Height(t, t.left[n])
           r == Height(t, t.right[n])
<1>3. Tall(l, r) = Tall(r, l)
  <2> HIDE DEF l, r
  <2> QED BY <1>2 DEF Tall, l, r
<1>4. CASE s = "left"
  BY <1>1, <1>4 DEF Accurate, Other
<1>5. CASE s = "right"
  BY <1>1, <1>3, <1>5 DEF Accurate, Other
<1> QED BY <1>4, <1>5 DEF Sides

LEMMA SetHeightIs ==
    ASSUME NEW t \in Tree, NEW n \in Key
    PROVE  LET u == SetHeight(t, n) IN
           /\ u \in Tree /\ u.left = t.left /\ u.right = t.right
           /\ u.parent = t.parent /\ u.root = t.root
           /\ \A y \in Key : y # n => u.height[y] = t.height[y]
           /\ t.left[n] # n /\ t.right[n] # n => Accurate(u, n)
<1> DEFINE h == Tall(Height(t, t.left[n]), Height(t, t.right[n]))
           u == SetHeight(t, n)
<1>1. t.left[n] \in Pointer /\ t.right[n] \in Pointer
  BY DEF Tree
<1>2. h \in Nat
  <2>1. Height(t, t.left[n]) \in Nat /\ Height(t, t.right[n]) \in Nat
    BY <1>1, HeightIs
  <2> QED BY <2>1 DEF Tall
<1>3. u = [t EXCEPT !.height[n] = h]
  BY DEF SetHeight, Tall
<1> HIDE DEF h, u
<1>4. /\ u \in Tree /\ u.left = t.left /\ u.right = t.right
      /\ u.parent = t.parent /\ u.root = t.root
      /\ u.height = [t.height EXCEPT ![n] = h]
  BY <1>2, <1>3 DEF Tree
<1>5. /\ u.height[n] = h
      /\ \A y \in Key : y # n => u.height[y] = t.height[y]
  BY <1>4 DEF Tree
<1>6. ASSUME t.left[n] # n, t.right[n] # n PROVE Accurate(u, n)
  <2>1. Height(u, t.left[n]) = Height(t, t.left[n])
        /\ Height(u, t.right[n]) = Height(t, t.right[n])
    BY <1>1, <1>5, <1>6 DEF Height, Pointer
  <2> QED BY <1>4, <1>5, <2>1 DEF Accurate, h
<1> QED BY <1>4, <1>5, <1>6 DEF u

LEMMA SetParentIs ==
    ASSUME NEW t \in Tree, NEW n \in Pointer, NEW p \in Pointer
    PROVE  LET u == SetParent(t, n, p) IN
           /\ u \in Tree /\ u.left = t.left /\ u.right = t.right
           /\ u.height = t.height /\ u.root = t.root
           /\ \A y \in Key : u.parent[y] = IF y = n THEN p ELSE t.parent[y]
<1>1. CASE n = NULL
  BY <1>1, KeysAreNumbers DEF SetParent
<1>2. CASE n # NULL
  <2>1. n \in Key /\ SetParent(t, n, p) = [t EXCEPT !.parent[n] = p]
    BY <1>2 DEF SetParent, Pointer
  <2> QED BY <2>1 DEF Tree
<1> QED BY <1>1, <1>2

LEMMA SetLinkIs ==
    ASSUME NEW t \in Tree, NEW p \in Pointer, NEW n \in Key, NEW m \in Pointer
    PROVE  LET u == SetLink(t, p, n, m) IN
           /\ u \in Tree /\ u.height = t.height /\ u.parent = t.parent
           /\ p = NULL => u.left = t.left /\ u.right = t.right /\ u.root = m
           /\ p # NULL =>
                 /\ u.root = t.root
                 /\ \A y \in Key :
                      /\ u.left[y] = IF y = p /\ t.left[p] = n THEN m ELSE t.left[y]
                      /\ u.right[y] = IF y = p /\ t.left[p] # n THEN m ELSE t.right[y]
<1>1. CASE p = NULL
  BY <1>1 DEF SetLink, Tree
<1>2. CASE p # NULL /\ t.left[p] = n
  <2>1. p \in Key /\ SetLink(t, p, n, m) = [t EXCEPT !.left[p] = m]
    BY <1>2 DEF SetLink, Pointer
  <2> QED BY <1>2, <2>1 DEF Tree
<1>3. CASE p # NULL /\ t.left[p] # n
  <2>1. p \in Key /\ SetLink(t, p, n, m) = [t EXCEPT !.right[p] = m]
    BY <1>3 DEF SetLink, Pointer
  <2> QED BY <1>3, <2>1 DEF Tree
<1> QED BY <1>1, <1>2, <1>3

\* The nodes a rotation at x with the child n on side s moves are different.
Apart(t, s, x, n) ==
    /\ x \in Key /\ n \in Key /\ t[s][x] = n /\ n # x
    /\ t[s][n] \notin {x, n} /\ t[Other[s]][n] \notin {x, n}
    /\ t[Other[s]][x] \notin {x, n}

\* The links a rotation sets itself: all but the one from the parent of x.
Swung(t, s, x, n, v) ==
    /\ v.root = t.root
    /\ \A y \in Key :
         /\ v[s][y] = IF y = x THEN t[Other[s]][n] ELSE t[s][y]
         /\ v[Other[s]][y] = IF y = n THEN x ELSE t[Other[s]][y]
         /\ v.parent[y] = IF y = n THEN t.parent[x] ELSE IF y = x THEN n
                          ELSE IF y = t[Other[s]][n] THEN x ELSE t.parent[y]

Swing(t, x, s) ==
    LET o == Other[s]
        n == t[s][x]
        u == SetParent([t EXCEPT !.parent[n] = t.parent[x]], t[o][n], x)
    IN  [u EXCEPT ![s][x] = t[o][n], !.parent[x] = n, ![o][n] = x]

LEMMA SwingIs ==
    ASSUME NEW t \in Tree, NEW s \in Sides, NEW x, NEW n, Apart(t, s, x, n)
    PROVE  /\ Swing(t, x, s) \in Tree
           /\ Swung(t, s, x, n, Swing(t, x, s))
           /\ Swing(t, x, s).height = t.height
<1> DEFINE o == Other[s]
           d == t[o][n]
           q == [t EXCEPT !.parent[n] = t.parent[x]]
           u == SetParent(q, d, x)
           v == [u EXCEPT ![s][x] = d, !.parent[x] = n, ![o][n] = x]
<1>1. /\ x \in Key /\ n \in Key /\ t[s][x] = n /\ n # x /\ d \notin {x, n}
      /\ x \in Pointer /\ n \in Pointer
  BY KeysAreNumbers DEF Apart
<1>2. d \in Pointer
  BY <1>1, TallIs
<1>3. v = Swing(t, x, s)
  BY <1>1 DEF Swing
<1>4. t.parent[x] \in Pointer
  BY <1>1 DEF Tree
<1>5. /\ q \in Tree /\ q.left = t.left /\ q.right = t.right /\ q.root = t.root
      /\ q.height = t.height
      /\ \A y \in Key : q.parent[y] = IF y = n THEN t.parent[x] ELSE t.parent[y]
  BY <1>1, <1>4 DEF Tree
<1> HIDE DEF q, d
<1>6. /\ u \in Tree /\ u.left = t.left /\ u.right = t.right /\ u.root = t.root
      /\ u.height = t.height
      /\ \A y \in Key : u.parent[y] = IF y = d THEN x ELSE q.parent[y]
  <2>1. q \in Tree /\ d \in Pointer /\ x \in Pointer
    BY <1>1, <1>2, <1>5
  <2>2. /\ u \in Tree /\ u.left = q.left /\ u.right = q.right
        /\ u.height = q.height /\ u.root = q.root
        /\ \A y \in Key : u.parent[y] = IF y = d THEN x ELSE q.parent[y]
    BY <2>1, SetParentIs
  <2> HIDE DEF u
  <2> QED BY <1>5, <2>2
<1> HIDE DEF u
<1>7. CASE s = "left"
  <2>1. v = [u EXCEPT !.left[x] = d, !.parent[x] = n, !.right[n] = x]
    BY <1>7 DEF Other
  <2> HIDE DEF v
  <2>2. /\ v \in Tree /\ v.root = t.root /\ v.height = t.height
        /\ v.left = [t.left EXCEPT ![x] = d] /\ v.right = [t.right EXCEPT ![n] = x]
        /\ v.parent = [u.parent EXCEPT ![x] = n]
    BY <1>1, <1>2, <1>6, <2>1 DEF Tree
  <2>3. Swung(t, "left", x, n, v)
    <3>1. \A y \in Key : /\ v.left[y] = IF y = x THEN d ELSE t.left[y]
                         /\ v.right[y] = IF y = n THEN x ELSE t.right[y]
                         /\ v.parent[y] = IF y = x THEN n ELSE u.parent[y]
      BY <1>6, <2>2 DEF Tree
    <3>2. d = t.right[n]
      BY <1>7 DEF Other, d
    <3>3. \A y \in Key :
             v.parent[y] = IF y = n THEN t.parent[x] ELSE IF y = x THEN n
                           ELSE IF y = d THEN x ELSE t.parent[y]
      BY <1>1, <1>5, <1>6, <3>1
    <3>4. Other["left"] = "right"
      BY DEF Other
    <3> HIDE DEF d
    <3> QED BY <2>2, <3>1, <3>2, <3>3, <3>4 DEF Swung
  <2> QED BY <1>3, <1>7, <2>2, <2>3
<1>8. CASE s = "right"
  <2>1. v = [u EXCEPT !.right[x] = d, !.parent[x] = n, !.left[n] = x]
    BY <1>8 DEF Other
  <2> HIDE DEF v
  <2>2. /\ v \in Tree /\ v.root = t.root /\ v.height = t.height
        /\ v.right = [t.right EXCEPT ![x] = d] /\ v.left = [t.left EXCEPT ![n] = x]
        /\ v.parent = [u.parent EXCEPT ![x] = n]
    BY <1>1, <1>2, <1>6, <2>1 DEF Tree
  <2>3. Swung(t, "right", x, n, v)
    <3>1. \A y \in Key : /\ v.right[y] = IF y = x THEN d ELSE t.right[y]
                         /\ v.left[y] = IF y = n THEN x ELSE t.left[y]
                         /\ v.parent[y] = IF y = x THEN n ELSE u.parent[y]
      BY <1>6, <2>2 DEF Tree
    <3>2. d = t.left[n]
      BY <1>8 DEF Other, d
    <3>3. \A y \in Key :
             v.parent[y] = IF y = n THEN t.parent[x] ELSE IF y = x THEN n
                           ELSE IF y = d THEN x ELSE t.parent[y]
      BY <1>1, <1>5, <1>6, <3>1
    <3>4. Other["right"] = "left"
      BY DEF Other
    <3> HIDE DEF d
    <3> QED BY <2>2, <3>1, <3>2, <3>3, <3>4 DEF Swung
  <2> QED BY <1>3, <1>8, <2>2, <2>3
<1> QED BY <1>7, <1>8 DEF Sides

LEMMA RotateIs ==
    ASSUME NEW t \in Tree, NEW s \in Sides, NEW x, NEW n, Apart(t, s, x, n)
    PROVE  LET v == Rotate(t, x, s) IN
           /\ v \in Tree /\ Swung(t, s, x, n, v)
           /\ \A y \in Key : y \notin {x, n} => v.height[y] = t.height[y]
           /\ Accurate(v, x) /\ Accurate(v, n)
<1> DEFINE o == Other[s]
           u == Swing(t, x, s)
           w == SetHeight(u, x)
           v == SetHeight(w, n)
<1>1. /\ x \in Key /\ n \in Key /\ t[s][x] = n /\ n # x
      /\ t[s][n] \notin {x, n} /\ t[o][n] \notin {x, n}
      /\ t[o][x] \notin {x, n} /\ o \in Sides /\ o # s
  BY SidesAre DEF Apart
<1>2. u \in Tree /\ Swung(t, s, x, n, u) /\ u.height = t.height
  BY SwingIs
<1>3. Rotate(t, x, s) = v
  BY <1>1 DEF Rotate, Swing
<1> HIDE DEF u, o
<1>4. /\ u[s][x] = t[o][n] /\ u[o][x] = t[o][x] /\ u[s][n] = t[s][n] /\ u[o][n] = x
  BY <1>1, <1>2 DEF Swung, o
<1>5. /\ u[s][x] \notin {x, n} /\ u[o][x] \notin {x, n}
      /\ u[s][n] # n /\ u[o][n] # n
  BY <1>1, <1>4
<1>6. /\ u.left[x] \notin {x, n} /\ u.right[x] \notin {x, n}
      /\ u.left[n] # n /\ u.right[n] # n
  <2>1. <<s, o>> = <<"left", "right">> \/ <<s, o>> = <<"right", "left">>
    BY DEF Sides, Other, o
  <2> QED BY <1>5, <2>1
<1>7. /\ w \in Tree /\ w.left = u.left /\ w.right = u.right
      /\ w.parent = u.parent /\ w.root = u.root
      /\ \A y \in Key : y # x => w.height[y] = u.height[y]
      /\ Accurate(w, x)
  BY <1>1, <1>2, <1>6, SetHeightIs
<1> HIDE DEF w
<1>8. /\ v \in Tree /\ v.left = w.left /\ v.right = w.right
      /\ v.parent = w.parent /\ v.root = w.root
      /\ \A y \in Key : y # n => v.height[y] = w.height[y]
      /\ Accurate(v, n)
  BY <1>1, <1>6, <1>7, SetHeightIs
<1> HIDE DEF v
<1>9. Accurate(v, x)
  <2>1. u.left[x] \in Pointer /\ u.right[x] \in Pointer
    BY <1>1, <1>2 DEF Tree
  <2>2. Height(v, u.left[x]) = Height(w, u.left[x])
        /\ Height(v, u.right[x]) = Height(w, u.right[x]) /\ v.height[x] = w.height[x]
    BY <1>1, <1>6, <1>8, <2>1 DEF Height, Pointer
  <2> QED BY <1>7, <1>8, <2>2 DEF Accurate
<1>10. Swung(t, s, x, n, v)
  <2>1. v[s] = u[s] /\ v[Other[s]] = u[Other[s]]
    BY <1>7, <1>8 DEF Sides, Other
  <2> QED BY <1>2, <1>7, <1>8, <2>1 DEF Swung
<1> QED BY <1>2, <1>3, <1>7, <1>8, <1>9, <1>10

LEMMA TurnedIs ==
    ASSUME NEW t, NEW lo, NEW hi, Bounded(t, lo, hi), NEW x \in InTree(t),
           NEW s \in Sides, NEW n, n = t[s][x], n # NULL,
           NEW u \in Tree, Turned(t, s, x, u)
    PROVE  \E lo2, hi2 : /\ Bounded(u, lo2, hi2)
                         /\ InTree(u) = InTree(t)
                         /\ n \in InTree(t) /\ lo2[n] = lo[x] /\ hi2[n] = hi[x]
                         /\ \A y \in Key : y \notin {x, n} => lo2[y] = lo[y] /\ hi2[y] = hi[y]
<1>1. x \in Key /\ lo \in Bound /\ hi \in Bound
  BY NodeIs DEF Bounded
<1>2. CASE s = "left"
  <2>1. n = t.left[x]
    BY <1>2
  <2>2. /\ Bounded(u, Outward(lo, x, n), Inward(hi, x, n))
        /\ InTree(u) = InTree(t)
    BY <1>2, <2>1, TurnedLeft
  <2>3. n \in Key /\ n \in InTree(t) /\ lo[n] = lo[x] /\ n # x
    <3>1. n \in InTree(t) /\ lo[n] = lo[x] /\ n < x /\ x \in Nat
      BY <2>1, NodeIs
    <3>2. n \in Key /\ n \in Nat
      BY <3>1, NodeIs
    <3> QED BY <3>1, <3>2
  <2>4. /\ \A y \in Key : Outward(lo, x, n)[y] = IF y = x THEN n ELSE lo[y]
        /\ \A y \in Key : Inward(hi, x, n)[y] = IF y = n THEN hi[x] ELSE hi[y]
    BY <1>1 DEF Outward, Inward, Bound
  <2>5. /\ Outward(lo, x, n)[n] = lo[x] /\ Inward(hi, x, n)[n] = hi[x]
        /\ \A y \in Key : y \notin {x, n} =>
              Outward(lo, x, n)[y] = lo[y] /\ Inward(hi, x, n)[y] = hi[y]
    BY <2>3, <2>4
  <2> QED BY <2>2, <2>3, <2>5
<1>3. CASE s = "right"
  <2>1. n = t.right[x]
    BY <1>3
  <2>2. /\ Bounded(u, Inward(lo, x, n), Outward(hi, x, n))
        /\ InTree(u) = InTree(t)
    BY <1>3, <2>1, TurnedRight
  <2>3. n \in Key /\ n \in InTree(t) /\ hi[n] = hi[x] /\ n # x
    <3>1. n \in InTree(t) /\ hi[n] = hi[x] /\ x < n /\ x \in Nat
      BY <2>1, NodeIs
    <3>2. n \in Key /\ n \in Nat
      BY <3>1, NodeIs
    <3> QED BY <3>1, <3>2
  <2>4. /\ \A y \in Key : Outward(hi, x, n)[y] = IF y = x THEN n ELSE hi[y]
        /\ \A y \in Key : Inward(lo, x, n)[y] = IF y = n THEN lo[x] ELSE lo[y]
    BY <1>1 DEF Outward, Inward, Bound
  <2>5. /\ Inward(lo, x, n)[n] = lo[x] /\ Outward(hi, x, n)[n] = hi[x]
        /\ \A y \in Key : y \notin {x, n} =>
              Inward(lo, x, n)[y] = lo[y] /\ Outward(hi, x, n)[y] = hi[y]
    BY <2>3, <2>4
  <2> QED BY <2>2, <2>3, <2>5
<1> QED BY <1>2, <1>3 DEF Sides

\* What a child of x is to it.
LEMMA ChildIs ==
    ASSUME NEW t, NEW lo, NEW hi, Bounded(t, lo, hi), NEW x \in InTree(t),
           NEW s \in Sides, NEW n, n = t[s][x], n # NULL
    PROVE  /\ Apart(t, s, x, n) /\ n \in InTree(t) /\ t.parent[n] = x
           /\ t.parent[x] \notin {x, n, t[s][n], t[Other[s]][n]} \/ t.parent[x] = NULL
           /\ t.parent[x] # NULL =>
                 /\ t.parent[x] \in Key /\ x # t.root
                 /\ \/ t.left[t.parent[x]] = x /\ t.right[t.parent[x]] # x
                    \/ t.right[t.parent[x]] = x /\ t.left[t.parent[x]] # x
           /\ t.parent[x] = NULL => x = t.root
           /\ n # t.root
<1>1. /\ t \in Tree /\ x \in Key /\ x \in Nat /\ x # NULL
      /\ t.root # NULL => t.parent[t.root] = NULL
  <2>1. t \in Tree /\ (t.root # NULL => t.parent[t.root] = NULL)
    BY DEF Bounded
  <2> QED BY <2>1, NodeIs
<1>2. \A y \in InTree(t) :
        /\ y \in Key /\ y \in Nat /\ y # NULL
        /\ t.left[y] # NULL => t.left[y] \in InTree(t) /\ t.parent[t.left[y]] = y
                               /\ t.left[y] < y
        /\ t.right[y] # NULL => t.right[y] \in InTree(t) /\ t.parent[t.right[y]] = y
                                /\ y < t.right[y]
  BY NodeIs
<1>3. <<s, Other[s]>> = <<"left", "right">> \/ <<s, Other[s]>> = <<"right", "left">>
  BY DEF Sides, Other
<1>4. n \in InTree(t) /\ t.parent[n] = x /\ n # x
  BY <1>2, <1>3
<1>5. n # t.root
  BY <1>1, <1>2, <1>4
<1>6. /\ t[s][n] \notin {x, n}
      /\ t[Other[s]][n] \notin {x, n}
      /\ t[Other[s]][x] \notin {x, n}
  <2>1. \A y \in InTree(t) : /\ t.left[y] # y /\ t.right[y] # y
                             /\ t.left[y] # NULL => t.left[y] # t.right[y]
    BY <1>2
  <2>2. t[s][n] # x
    <3>1. x \in InTree(t) /\ x # NULL /\ x \in Nat /\ n \in Nat
      BY <1>1, <1>2, <1>4
    <3>2. s = "left" => n < x /\ (t.left[n] # NULL => t.left[n] < n)
      BY <1>2, <1>3, <1>4, <3>1
    <3>3. s = "right" => x < n /\ (t.right[n] # NULL => n < t.right[n])
      BY <1>2, <1>3, <1>4, <3>1
    <3> QED BY <1>3, <3>1, <3>2, <3>3
  <2>3. t[Other[s]][n] # x
    <3>1. \/ Place(t.left, t.right, t.parent, t.root, lo, hi, x, n) /\ s = "left"
          \/ Place(t.right, t.left, t.parent, t.root, hi, lo, x, n) /\ s = "right"
      BY PlaceOf, <1>3
    <3>2. s = "left" => t.right[n] # x
      BY <1>3, <3>1, PlaceIs
    <3>3. s = "right" => t.left[n] # x
      BY <1>3, <3>1, PlaceIs
    <3> QED BY <1>3, <3>2, <3>3
  <2> QED BY <1>3, <1>4, <2>1, <2>2, <2>3
<1>7. Apart(t, s, x, n)
  BY <1>1, <1>2, <1>4, <1>6 DEF Apart
<1>8. ASSUME t.parent[x] # NULL PROVE x # t.root
  BY <1>1, <1>8
<1>9. ASSUME x # t.root
      PROVE  /\ t.parent[x] \in Key /\ t.parent[x] # NULL
             /\ \/ t.left[t.parent[x]] = x /\ t.right[t.parent[x]] # x
                \/ t.right[t.parent[x]] = x /\ t.left[t.parent[x]] # x
             /\ t.parent[x] \notin {x, n, t[s][n], t[Other[s]][n]}
  <2>1. /\ t.parent[x] \in InTree(t) /\ t.parent[x] # NULL
        /\ x \in {t.left[t.parent[x]], t.right[t.parent[x]]}
    BY <1>9, ParentIs
  <2>2. \/ t.left[t.parent[x]] = x /\ t.right[t.parent[x]] # x
        \/ t.right[t.parent[x]] = x /\ t.left[t.parent[x]] # x
    BY <1>1, <1>2, <2>1
  <2>3. \/ Place(t.left, t.right, t.parent, t.root, lo, hi, x, n) /\ s = "left"
        \/ Place(t.right, t.left, t.parent, t.root, hi, lo, x, n) /\ s = "right"
    BY PlaceOf, <1>3
  <2>4. t.parent[x] # n /\ t.parent[x] # t[Other[s]][n]
    BY <1>3, <1>9, <2>3 DEF Place
  <2>5. t.parent[x] # x
    BY <1>2, <2>1
  <2>6. t.parent[x] # t[s][n]
    <3>1. SUFFICES ASSUME t[s][n] # NULL PROVE t.parent[x] # t[s][n]
      BY <2>1
    <3>2. t[s][n] \in Below(t, x)
      <4>1. x \in Pointer /\ n \in Pointer /\ n \in Below(t, x) \cup {NULL}
        <5>1. x \in Below(t, x) /\ x \in Pointer
          BY <1>1, InTreeIs
        <5>2. t.left[x] \in Below(t, x) \cup {NULL} /\ t.right[x] \in Below(t, x) \cup {NULL}
          BY <1>1, <5>1, BelowIs
        <5> QED BY <1>3, <5>1, <5>2, <1>2, <1>4, KeysAreNumbers
      <4>2. t.left[n] \in Below(t, x) \cup {NULL} /\ t.right[n] \in Below(t, x) \cup {NULL}
        BY <1>1, <4>1, BelowIs
      <4> QED BY <1>3, <3>1, <4>2
    <3>3. t.parent[x] = lo[x] \/ t.parent[x] = hi[x]
      <4>1. \A y \in InTree(t) : /\ t.left[y] # NULL => hi[t.left[y]] = y
                                 /\ t.right[y] # NULL => lo[t.right[y]] = y
        BY NodeIs
      <4> QED BY <1>1, <2>1, <4>1
    <3>4. lo[x] < t[s][n] /\ t[s][n] < hi[x] /\ lo[x] \in Int /\ hi[x] \in Int
      BY <3>2, BelowWithin, NodeIs
    <3> QED BY <3>3, <3>4
  <2> QED BY <1>2, <2>1, <2>2, <2>4, <2>5, <2>6
<1> QED BY <1>4, <1>5, <1>7, <1>8, <1>9

-----------------------------------------------------------------------------
(* One turn of the loop of Rebalance.                                      *)

\* While a node without a parent is being put right, the root of the tree may be
\* out of date: it is that node.
Rooted(t, n) == IF t.parent[n] = NULL THEN [t EXCEPT !.root = n] ELSE t

\* Rebalancing has come to n, in a tree of the nodes S, and n has the bounds a, b.
At(t, n, S, a, b) ==
    /\ t \in Tree /\ n \in S /\ InTree(Rooted(t, n)) = S
    /\ \E lo, hi : Bounded(Rooted(t, n), lo, hi) /\ lo[n] = a /\ hi[n] = b

LEMMA RootedIs ==
    ASSUME NEW t \in Tree, NEW n \in Key
    PROVE  LET u == Rooted(t, n) IN
           /\ u \in Tree /\ u.left = t.left /\ u.right = t.right
           /\ u.parent = t.parent /\ u.height = t.height
           /\ u.root = IF t.parent[n] = NULL THEN n ELSE t.root
           /\ t.parent[n] # NULL => u = t
<1>1. n \in Pointer
  BY KeysAreNumbers
<1> QED BY <1>1 DEF Rooted, Tree

\* The node and its child m on side s, both in the tree.
LEMMA AtIs ==
    ASSUME NEW t, NEW n, NEW S, NEW a, NEW b, At(t, n, S, a, b)
    PROVE  /\ t \in Tree /\ n \in Key /\ n \in S /\ S \in SUBSET Key
           /\ InTree(Rooted(t, n)) = S
           /\ a \in Int /\ b \in Int /\ -1 <= a /\ a < n /\ n < b /\ b <= TypeLimit
           /\ t.parent[n] # NULL =>
                 /\ t.parent[n] \in {a, b} /\ t.parent[n] \in S /\ n # t.root
                 /\ \/ t.left[t.parent[n]] = n /\ t.right[t.parent[n]] # n
                    \/ t.right[t.parent[n]] = n /\ t.left[t.parent[n]] # n
           /\ \A s \in Sides : t[s][n] # NULL =>
                 /\ Apart(t, s, n, t[s][n]) /\ t[s][n] \in S /\ t.parent[t[s][n]] = n
                 /\ t[s][n] # Rooted(t, n).root
                 /\ a < t[s][n] /\ t[s][n] < b
<1> DEFINE u == Rooted(t, n)
<1>1. t \in Tree /\ n \in S /\ InTree(u) = S
  BY DEF At
<1>2. PICK lo, hi : Bounded(u, lo, hi) /\ lo[n] = a /\ hi[n] = b
  BY DEF At
<1> HIDE DEF u
<1>3. S \in SUBSET Key /\ n \in Key /\ n \in Pointer /\ u \in Tree
  <2>1. u \in Tree
    BY <1>2 DEF Bounded
  <2> QED BY <1>1, <2>1, InTreeIs
<1>4. a \in Int /\ b \in Int /\ -1 <= a /\ a < n /\ n < b /\ b <= TypeLimit
  BY <1>1, <1>2, NodeIs
<1>5. u.left = t.left /\ u.right = t.right /\ u.parent = t.parent
      /\ u.root = (IF t.parent[n] = NULL THEN n ELSE t.root)
  BY <1>1, <1>3, RootedIs DEF u
<1>6. ASSUME t.parent[n] # NULL
      PROVE  /\ t.parent[n] \in {a, b} /\ t.parent[n] \in S /\ n # t.root
             /\ \/ t.left[t.parent[n]] = n /\ t.right[t.parent[n]] # n
                \/ t.right[t.parent[n]] = n /\ t.left[t.parent[n]] # n
  <2>1. n # u.root
    <3>1. u.root # NULL => u.parent[u.root] = NULL
      BY <1>2 DEF Bounded
    <3> QED BY <1>3, <1>5, <1>6, <3>1, KeysAreNumbers
  <2>2. u.parent[n] \in S /\ n \in {u.left[u.parent[n]], u.right[u.parent[n]]}
    BY <1>1, <1>2, <2>1, ParentIs
  <2>3. \A y \in S : /\ u.left[y] # NULL => hi[u.left[y]] = y /\ u.left[y] < y
                     /\ u.right[y] # NULL => lo[u.right[y]] = y /\ y < u.right[y]
                     /\ y \in Nat
    BY <1>1, <1>2, NodeIs
  <2>4. n # NULL /\ n \in Nat
    BY <1>3, KeysAreNumbers
  <2> QED BY <1>2, <1>5, <1>6, <2>1, <2>2, <2>3, <2>4
<1>7. ASSUME NEW s \in Sides, t[s][n] # NULL
      PROVE  /\ Apart(t, s, n, t[s][n]) /\ t[s][n] \in S /\ t.parent[t[s][n]] = n
             /\ t[s][n] # u.root
             /\ a < t[s][n] /\ t[s][n] < b
  <2>1. t[s] = u[s] /\ t[Other[s]] = u[Other[s]]
    BY <1>5 DEF Sides, Other
  <2>2. /\ Apart(u, s, n, u[s][n]) /\ u[s][n] \in S /\ u.parent[u[s][n]] = n
        /\ u[s][n] # u.root
    BY <1>1, <1>2, <1>7, <2>1, ChildIs
  <2>3. Apart(t, s, n, t[s][n])
    BY <2>1, <2>2 DEF Apart
  <2>4. t[s][n] \in Below(u, n)
    <3>1. n \in Below(u, n)
      BY <1>1, <1>3, InTreeIs
    <3>2. u.left[n] \in Below(u, n) \cup {NULL} /\ u.right[n] \in Below(u, n) \cup {NULL}
      BY <1>3, <3>1, BelowIs
    <3> QED BY <1>7, <2>1, <3>2 DEF Sides
  <2>5. a < t[s][n] /\ t[s][n] < b
    BY <1>1, <1>2, <2>4, BelowWithin
  <2> QED BY <1>5, <2>1, <2>2, <2>3, <2>5
<1> QED BY <1>1, <1>3, <1>4, <1>6, <1>7 DEF u

\* What a rotation at n does within the bounds a and b of n.
Lifted(t, s, n, m, a, b, w) ==
    /\ \A y \in Key : a < y /\ y < b =>
         /\ w[s][y] = IF y = n THEN t[Other[s]][m] ELSE t[s][y]
         /\ w[Other[s]][y] = IF y = m THEN n ELSE t[Other[s]][y]
    /\ \A y \in Key : y \notin {n, m} => w.height[y] = t.height[y]
    /\ Accurate(w, n) /\ Accurate(w, m)

\* The rotation and the link from above.
Lift(t, n, s) ==
    LET v == Rotate(t, n, s)
    IN  IF t.parent[n] = NULL THEN v ELSE SetLink(v, t.parent[n], n, t[s][n])

LEMMA LiftLinks ==
    ASSUME NEW t, NEW n, NEW S, NEW a, NEW b, At(t, n, S, a, b),
           NEW s \in Sides, NEW m, m = t[s][n], m # NULL
    PROVE  LET w == Lift(t, n, s) IN
           /\ w \in Tree
           /\ Turned(Rooted(t, n), s, n, Rooted(w, m))
           /\ w.parent[m] = t.parent[n]
           /\ \A y \in Key : /\ y # t.parent[n] =>
                                /\ w[s][y] = IF y = n THEN t[Other[s]][m] ELSE t[s][y]
                                /\ w[Other[s]][y] = IF y = m THEN n ELSE t[Other[s]][y]
                             /\ y \notin {n, m} => w.height[y] = t.height[y]
           /\ Accurate(w, n) /\ Accurate(w, m)
<1> DEFINE o == Other[s]
           p == t.parent[n]
           v == Rotate(t, n, s)
           w == Lift(t, n, s)
           T == Rooted(t, n)
           W == Rooted(w, m)
<1>1. /\ t \in Tree /\ n \in Key /\ m \in Key /\ Apart(t, s, n, m) /\ p \in Pointer
      /\ a < n /\ n < b /\ a < m /\ m < b /\ a \in Int /\ b \in Int /\ n \in Nat /\ m \in Nat
  <2>1. t \in Tree /\ n \in Key /\ Apart(t, s, n, m) /\ a \in Int /\ b \in Int
        /\ a < n /\ n < b /\ a < m /\ m < b
    BY AtIs
  <2>2. m \in Key
    BY <2>1 DEF Apart
  <2> QED BY <2>1, <2>2, KeysAreNumbers DEF Tree
<1>2. p # NULL => /\ p \in {a, b} /\ p \in Key
                  /\ \/ t.left[p] = n /\ t.right[p] # n
                     \/ t.right[p] = n /\ t.left[p] # n
  BY <1>1, AtIs DEF Pointer
<1>3. p # n /\ p # m
  BY <1>1, <1>2, KeysAreNumbers
<1>4. /\ v \in Tree /\ Swung(t, s, n, m, v)
      /\ \A y \in Key : y \notin {n, m} => v.height[y] = t.height[y]
      /\ Accurate(v, n) /\ Accurate(v, m)
  BY <1>1, RotateIs
<1>5. <<s, o>> = <<"left", "right">> \/ <<s, o>> = <<"right", "left">>
  BY DEF Sides, Other
<1>6. w = IF p = NULL THEN v ELSE SetLink(v, p, n, m)
  BY DEF Lift
<1> HIDE DEF v, w, p
<1>7. /\ w \in Tree /\ w.height = v.height /\ w.parent = v.parent
      /\ p = NULL => w = v
      /\ p # NULL =>
           /\ w.root = v.root
           /\ \A y \in Key :
                /\ w.left[y] = IF y = p /\ v.left[p] = n THEN m ELSE v.left[y]
                /\ w.right[y] = IF y = p /\ v.left[p] # n THEN m ELSE v.right[y]
  <2> DEFINE z == SetLink(v, p, n, m)
  <2>1. m \in Pointer /\ n \in Key /\ p \in Pointer /\ v \in Tree
    BY <1>1, <1>4, KeysAreNumbers
  <2>2. /\ z \in Tree /\ z.height = v.height /\ z.parent = v.parent
        /\ p # NULL =>
             /\ z.root = v.root
             /\ \A y \in Key :
                  /\ z.left[y] = IF y = p /\ v.left[p] = n THEN m ELSE v.left[y]
                  /\ z.right[y] = IF y = p /\ v.left[p] # n THEN m ELSE v.right[y]
    BY <2>1, SetLinkIs
  <2>3. CASE p = NULL
    BY <1>4, <1>6, <2>3
  <2>4. CASE p # NULL
    <3>1. w = z
      BY <1>6, <2>4
    <3> HIDE DEF z
    <3> QED BY <2>2, <2>4, <3>1
  <2> QED BY <2>3, <2>4
<1>8. /\ v.root = t.root
      /\ \A y \in Key :
           /\ v[s][y] = IF y = n THEN t[o][m] ELSE t[s][y]
           /\ v[o][y] = IF y = m THEN n ELSE t[o][y]
           /\ v.parent[y] = IF y = m THEN p ELSE IF y = n THEN m
                            ELSE IF y = t[o][m] THEN n ELSE t.parent[y]
  BY <1>4 DEF Swung, p
<1> HIDE DEF o
<1>9. \A y \in Key :
         /\ w[s][y] = IF y = n THEN t[o][m]
                      ELSE IF y = p /\ t[s][y] = n THEN m ELSE t[s][y]
         /\ w[o][y] = IF y = m THEN n
                      ELSE IF y = p /\ t[o][y] = n THEN m ELSE t[o][y]
  <2>1. CASE p = NULL
    BY <1>7, <1>8, <2>1, KeysAreNumbers
  <2>2. CASE p # NULL
    <3>1. v.left[p] = t.left[p] /\ v.right[p] = t.right[p]
      BY <1>2, <1>3, <1>5, <1>8, <2>2
    <3>2. v.left[p] = n \/ t.right[p] = n
      BY <1>2, <2>2, <3>1
    <3>3. \A y \in Key :
             /\ w.left[y] = IF y = p /\ t.left[y] = n THEN m ELSE v.left[y]
             /\ w.right[y] = IF y = p /\ t.right[y] = n THEN m ELSE v.right[y]
      BY <1>2, <1>7, <2>2, <3>1
    <3> QED BY <1>3, <1>5, <1>8, <3>3
  <2> QED BY <2>1, <2>2
<1>10. /\ w.parent[m] = p
       /\ p # NULL => w.root = t.root
  BY <1>1, <1>7, <1>8
<1>11. /\ T.left = t.left /\ T.right = t.right /\ T.parent = t.parent
       /\ T.root = IF p = NULL THEN n ELSE t.root
       /\ W \in Tree /\ W.left = w.left /\ W.right = w.right /\ W.parent = w.parent
       /\ W.root = IF p = NULL THEN m ELSE w.root
  <2>1. /\ T.left = t.left /\ T.right = t.right /\ T.parent = t.parent
        /\ T.root = IF p = NULL THEN n ELSE t.root
    BY <1>1, RootedIs DEF p
  <2>2. /\ W \in Tree /\ W.left = w.left /\ W.right = w.right /\ W.parent = w.parent
        /\ W.root = IF w.parent[m] = NULL THEN m ELSE w.root
    BY <1>1, <1>7, RootedIs
  <2> HIDE DEF T, W
  <2> QED BY <1>10, <2>1, <2>2
<1> HIDE DEF T, W
<1>12. Turned(T, s, n, W)
  <2>1. T[s] = t[s] /\ T[o] = t[o] /\ W[s] = w[s] /\ W[o] = w[o]
    BY <1>5, <1>11
  <2>2. p # NULL => t.root # n
    BY AtIs DEF p
  <2>3. W.root = IF T.root = n THEN m ELSE T.root
    BY <1>10, <1>11, <2>2
  <2>4. \A y \in Key : w.parent[y] = IF y = m THEN t.parent[n] ELSE IF y = n THEN m
                                     ELSE IF y = t[o][m] THEN n ELSE t.parent[y]
    BY <1>7, <1>8 DEF p
  <2> QED BY <1>9, <1>11, <2>1, <2>3, <2>4 DEF Turned, Rotated, o, p
<1>13. Accurate(w, n) /\ Accurate(w, m)
  <2>1. \A y \in Key : y # p => w.left[y] = v.left[y] /\ w.right[y] = v.right[y]
    BY <1>7
  <2> QED BY <1>1, <1>3, <1>4, <1>7, <2>1 DEF Accurate, Height
<1>14. \A y \in Key : y \notin {n, m} => w.height[y] = t.height[y]
  BY <1>4, <1>7
<1> QED BY <1>7, <1>9, <1>10, <1>12, <1>13, <1>14 DEF T, W, o, p, w

LEMMA LiftIs ==
    ASSUME NEW t, NEW n, NEW S, NEW a, NEW b, At(t, n, S, a, b),
           NEW s \in Sides, NEW m, m = t[s][n], m # NULL
    PROVE  At(Lift(t, n, s), m, S, a, b) /\ Lifted(t, s, n, m, a, b, Lift(t, n, s))
<1> DEFINE w == Lift(t, n, s)
           T == Rooted(t, n)
           W == Rooted(w, m)
<1>1. /\ w \in Tree /\ Turned(T, s, n, W)
      /\ \A y \in Key : /\ y # t.parent[n] =>
                           /\ w[s][y] = IF y = n THEN t[Other[s]][m] ELSE t[s][y]
                           /\ w[Other[s]][y] = IF y = m THEN n ELSE t[Other[s]][y]
                        /\ y \notin {n, m} => w.height[y] = t.height[y]
      /\ Accurate(w, n) /\ Accurate(w, m)
  BY LiftLinks
<1> HIDE DEF w
<1>2. t \in Tree /\ n \in S /\ InTree(T) = S /\ n \in Key
  BY AtIs
<1>3. PICK lo, hi : Bounded(T, lo, hi) /\ lo[n] = a /\ hi[n] = b
  BY DEF At
<1>4. T[s] = t[s] /\ m \in Key /\ W \in Tree
  <2>1. m \in Key
    BY AtIs DEF Apart
  <2> QED BY <1>1, <1>2, <2>1, RootedIs DEF Sides
<1> HIDE DEF T, W
<1>5. \E lo2, hi2 : /\ Bounded(W, lo2, hi2) /\ InTree(W) = S /\ m \in S
                    /\ lo2[m] = a /\ hi2[m] = b
  <2>1. m = T[s][n] /\ n \in InTree(T)
    BY <1>2, <1>4
  <2> QED BY <1>1, <1>2, <1>3, <1>4, <2>1, TurnedIs
<1>6. At(w, m, S, a, b)
  BY <1>1, <1>5 DEF At, W
<1>7. Lifted(t, s, n, m, a, b, w)
  <2>1. a \in Int /\ b \in Int
        /\ (t.parent[n] # NULL => t.parent[n] \in {a, b})
    BY AtIs
  <2>2. ASSUME NEW y \in Key, a < y, y < b PROVE y # t.parent[n]
    BY <2>1, <2>2, KeysAreNumbers
  <2> QED BY <1>1, <2>2 DEF Lifted
<1> QED BY <1>6, <1>7 DEF w

\* The inner rotation of a double one: d, below the child c of n, becomes the
\* child of n.
Tuck(t, n, s) ==
    LET c == t[s][n]
    IN  [Rotate(t, c, Other[s]) EXCEPT ![s][n] = t[Other[s]][c]]

Tucked(t, s, n, c, d, u) ==
    /\ \A y \in Key :
         /\ u[Other[s]][y] = IF y = c THEN t[s][d] ELSE t[Other[s]][y]
         /\ u[s][y] = IF y = d THEN c ELSE IF y = n THEN d ELSE t[s][y]
         /\ y \notin {c, d} => u.height[y] = t.height[y]
    /\ Accurate(u, c) /\ Accurate(u, d)

LEMMA TuckLinks ==
    ASSUME NEW t, NEW n, NEW S, NEW a, NEW b, At(t, n, S, a, b),
           NEW s \in Sides, NEW c, c = t[s][n], c # NULL,
           NEW d, d = t[Other[s]][c], d # NULL
    PROVE  LET u == Tuck(t, n, s) IN
           /\ u \in Tree /\ Tucked(t, s, n, c, d, u) /\ d \notin {n, c}
           /\ c \in S /\ Turned(Rooted(t, n), Other[s], c, Rooted(u, n))
           /\ u.parent[n] = t.parent[n]
<1> DEFINE o == Other[s]
           u == Tuck(t, n, s)
           v == Rotate(t, c, o)
           T == Rooted(t, n)
           U == Rooted(u, n)
<1>1. /\ t \in Tree /\ n \in S /\ InTree(T) = S /\ n \in Key /\ S \in SUBSET Key
      /\ Apart(t, s, n, c) /\ c \in S /\ t.parent[c] = n /\ c # T.root
  BY AtIs
<1>2. PICK lo, hi : Bounded(T, lo, hi)
  BY DEF At
<1>3. /\ T.left = t.left /\ T.right = t.right /\ T.parent = t.parent
      /\ T.root = (IF t.parent[n] = NULL THEN n ELSE t.root)
  BY <1>1, RootedIs
<1>4. /\ <<s, o>> = <<"left", "right">> \/ <<s, o>> = <<"right", "left">>
      /\ o \in Sides /\ Other[o] = s
  BY DEF Sides, Other
<1>5. T[s] = t[s] /\ T[o] = t[o]
  BY <1>3, <1>4
<1> HIDE DEF T, v, u, o
<1>6. /\ Apart(T, o, c, d) /\ d \in S
      /\ n \notin {c, d, t[o][d], t[s][d]}
  <2>1. n # NULL /\ d = T[o][c] /\ T.parent[c] = n /\ c \in InTree(T)
    BY <1>1, <1>3, <1>5, KeysAreNumbers DEF o
  <2>2. /\ Apart(T, o, c, d) /\ d \in InTree(T)
        /\ T.parent[c] \notin {c, d, T[o][d], T[Other[o]][d]} \/ T.parent[c] = NULL
    BY <1>2, <1>4, <2>1, ChildIs
  <2> QED BY <1>1, <1>4, <1>5, <2>1, <2>2
<1>7. Apart(t, o, c, d) /\ c \in Key /\ d \in Key
  BY <1>4, <1>5, <1>6 DEF Apart
<1>8. /\ v \in Tree /\ Swung(t, o, c, d, v)
      /\ \A y \in Key : y \notin {c, d} => v.height[y] = t.height[y]
      /\ Accurate(v, c) /\ Accurate(v, d)
  BY <1>1, <1>4, <1>7, RotateIs DEF v
<1>9. /\ v.root = t.root
      /\ \A y \in Key :
           /\ v[o][y] = IF y = c THEN t[s][d] ELSE t[o][y]
           /\ v[s][y] = IF y = d THEN c ELSE t[s][y]
           /\ v.parent[y] = IF y = d THEN n ELSE IF y = c THEN d
                            ELSE IF y = t[s][d] THEN c ELSE t.parent[y]
  BY <1>1, <1>4, <1>8 DEF Swung
<1>10. u = [v EXCEPT ![s][n] = d]
  BY DEF Tuck, u, v, o
<1>11. /\ u \in Tree /\ u.root = v.root /\ u.parent = v.parent /\ u.height = v.height
       /\ u[o] = v[o]
       /\ \A y \in Key : u[s][y] = IF y = n THEN d ELSE v[s][y]
  <2>1. d \in Pointer
    BY <1>7, KeysAreNumbers
  <2>2. CASE s = "left"
    BY <1>1, <1>4, <1>8, <1>10, <2>1, <2>2 DEF Tree
  <2>3. CASE s = "right"
    BY <1>1, <1>4, <1>8, <1>10, <2>1, <2>3 DEF Tree
  <2> QED BY <2>2, <2>3 DEF Sides
<1>12. Tucked(t, s, n, c, d, u)
  <2>1. \A y \in Key :
           /\ u[o][y] = IF y = c THEN t[s][d] ELSE t[o][y]
           /\ u[s][y] = IF y = d THEN c ELSE IF y = n THEN d ELSE t[s][y]
           /\ y \notin {c, d} => u.height[y] = t.height[y]
    <3>1. n # d
      BY <1>6
    <3> QED BY <1>8, <1>9, <1>11, <3>1
  <2>2. \A y \in Key : y # n => u.left[y] = v.left[y] /\ u.right[y] = v.right[y]
    BY <1>4, <1>11
  <2>3. Accurate(u, c) /\ Accurate(u, d)
    BY <1>6, <1>7, <1>8, <1>11, <2>2 DEF Accurate, Height
  <2> QED BY <2>1, <2>3 DEF Tucked, o
<1>13. /\ U.left = u.left /\ U.right = u.right /\ U.parent = u.parent
       /\ U.root = (IF u.parent[n] = NULL THEN n ELSE u.root)
  BY <1>1, <1>11, RootedIs
<1> HIDE DEF U
<1>16. u.parent[n] = t.parent[n]
  <2>1. n \in Key /\ n # c /\ n # d /\ n # t[s][d]
    BY <1>1, <1>6
  <2>2. v.parent[n] = t.parent[n]
    BY <1>9, <2>1
  <2> QED BY <1>11, <2>2
<1>14. Turned(T, o, c, U)
  <2>1. U[s] = u[s] /\ U[o] = u[o]
    BY <1>4, <1>13
  <2>3. U.root = IF T.root = c THEN d ELSE T.root
    BY <1>1, <1>3, <1>9, <1>11, <1>13, <1>16
  <2>4. t[o][n] # c /\ t[s][n] = c /\ t.parent[c] = n
    BY <1>1 DEF Apart, o
  <2>5. \A y \in Key :
           /\ U[o][y] = IF y = c THEN T[s][d]
                        ELSE IF y = T.parent[c] /\ T[o][y] = c THEN d ELSE T[o][y]
           /\ U[s][y] = IF y = d THEN c
                        ELSE IF y = T.parent[c] /\ T[s][y] = c THEN d ELSE T[s][y]
           /\ U.parent[y] = IF y = d THEN T.parent[c] ELSE IF y = c THEN d
                            ELSE IF y = T[s][d] THEN c ELSE T.parent[y]
    <3>1. T.parent[c] = n /\ T[o] = t[o] /\ T[s] = t[s] /\ T.parent = t.parent
      BY <1>3, <1>5, <2>4
    <3>2. n # d
      BY <1>6
    <3>3. \A y \in Key : U[o][y] = IF y = c THEN t[s][d] ELSE t[o][y]
      BY <1>9, <1>11, <2>1
    <3>4. \A y \in Key : U[s][y] = IF y = n THEN d ELSE IF y = d THEN c ELSE t[s][y]
      BY <1>9, <1>11, <2>1
    <3>5. \A y \in Key : U.parent[y] = IF y = d THEN n ELSE IF y = c THEN d
                                      ELSE IF y = t[s][d] THEN c ELSE t.parent[y]
      BY <1>9, <1>11, <1>13
    <3>6. \A y \in Key : U[o][y] = IF y = c THEN T[s][d]
                                  ELSE IF y = T.parent[c] /\ T[o][y] = c THEN d ELSE T[o][y]
      BY <2>4, <3>1, <3>3
    <3>7. \A y \in Key : U[s][y] = IF y = d THEN c
                                  ELSE IF y = T.parent[c] /\ T[s][y] = c THEN d ELSE T[s][y]
      BY <2>4, <3>1, <3>2, <3>4
    <3>8. \A y \in Key : U.parent[y] = IF y = d THEN T.parent[c] ELSE IF y = c THEN d
                                      ELSE IF y = T[s][d] THEN c ELSE T.parent[y]
      BY <3>1, <3>5
    <3> QED BY <3>6, <3>7, <3>8
  <2>6. T[o][c] = d
    BY <1>5 DEF o
  <2>7. Rotated(T[o], T[s], T.parent, T.root, U[o], U[s], U.parent, U.root, c, d)
    BY <2>3, <2>5 DEF Rotated
  <2>8. Other[o] = s
    BY <1>4
  <2> QED BY <2>6, <2>7, <2>8 DEF Turned
<1>15. d # n /\ d # c
  <2>1. d # n
    BY <1>6
  <2> QED BY <1>7, <2>1 DEF Apart
<1> QED BY <1>1, <1>11, <1>12, <1>14, <1>15, <1>16 DEF u, o, T, U

LEMMA TuckIs ==
    ASSUME NEW t, NEW n, NEW S, NEW a, NEW b, At(t, n, S, a, b),
           NEW s \in Sides, NEW c, c = t[s][n], c # NULL,
           NEW d, d = t[Other[s]][c], d # NULL
    PROVE  /\ At(Tuck(t, n, s), n, S, a, b)
           /\ Tucked(t, s, n, c, d, Tuck(t, n, s)) /\ d \notin {n, c} /\ n # c
           /\ Tuck(t, n, s).parent[n] = t.parent[n]
<1> DEFINE u == Tuck(t, n, s)
           T == Rooted(t, n)
           U == Rooted(u, n)
           o == Other[s]
<1>1. /\ u \in Tree /\ Tucked(t, s, n, c, d, u) /\ c \in S /\ Turned(T, o, c, U)
      /\ d \notin {n, c} /\ u.parent[n] = t.parent[n]
  BY TuckLinks
<1> HIDE DEF u
<1>2. /\ t \in Tree /\ n \in S /\ InTree(T) = S /\ n \in Key /\ Apart(t, s, n, c)
  BY AtIs
<1>3. PICK lo, hi : Bounded(T, lo, hi) /\ lo[n] = a /\ hi[n] = b
  BY DEF At
<1>4. T[o] = t[o] /\ U \in Tree /\ o \in Sides
  BY <1>1, <1>2, RootedIs DEF Sides, Other
<1>5. c # n
  BY <1>2 DEF Apart
<1> HIDE DEF T, U, o
<1>6. PICK lo2, hi2 : /\ Bounded(U, lo2, hi2) /\ InTree(U) = S
                      /\ \A y \in Key : y \notin {c, d} => lo2[y] = lo[y] /\ hi2[y] = hi[y]
  <2>1. d = T[o][c] /\ c \in InTree(T)
    BY <1>1, <1>2, <1>4 DEF o
  <2> QED BY <1>1, <1>2, <1>3, <1>4, <2>1, TurnedIs
<1>7. lo2[n] = a /\ hi2[n] = b
  BY <1>1, <1>2, <1>3, <1>5, <1>6
<1> QED BY <1>1, <1>2, <1>5, <1>6, <1>7 DEF At, U, u

\* The height of the inner child of n's child on side s exceeds the outer one's.
Bent(t, n, s) ==
    Height(t, t[Other[s]][t[s][n]]) > Height(t, t[s][t[s][n]])

LEMMA StraightenIs ==
    ASSUME NEW t, NEW n, NEW S, NEW a, NEW b, At(t, n, S, a, b),
           NEW s \in Sides, NEW c, c = t[s][n], c # NULL
    PROVE  LET r == Straighten(t, n, s) IN
           /\ At(r.tree, r.node, S, a, b)
           /\ ~ Bent(t, n, s) => /\ r.node = c
                                 /\ Lifted(t, s, n, c, a, b, r.tree)
           /\ Bent(t, n, s) =>
                LET u == Tuck(t, n, s)
                    d == t[Other[s]][c]
                IN  /\ r.node = d /\ d # NULL /\ d \notin {n, c}
                    /\ At(u, n, S, a, b) /\ u[s][n] = d
                    /\ Tucked(t, s, n, c, d, u)
                    /\ Lifted(u, s, n, d, a, b, r.tree)
<1> DEFINE r == Straighten(t, n, s)
           u == Tuck(t, n, s)
           d == t[Other[s]][c]
<1>1. t \in Tree /\ n \in Key /\ c \in Key
  BY AtIs DEF Apart
<1>2. CASE ~ Bent(t, n, s)
  <2>1. r.tree = Lift(t, n, s) /\ r.node = c
    BY <1>2 DEF Straighten, Lift, Bent
  <2> HIDE DEF r
  <2> QED BY <1>2, <2>1, LiftIs DEF r
<1>3. CASE Bent(t, n, s)
  <2>1. d # NULL
    <3>1. Height(t, t[s][c]) \in Nat
      BY <1>1, TallIs, HeightIs
    <3> QED BY <1>3, <3>1 DEF Bent, Height
  <2> HIDE DEF d
  <2>2. /\ At(u, n, S, a, b) /\ Tucked(t, s, n, c, d, u) /\ d \notin {n, c}
        /\ u.parent[n] = t.parent[n]
    BY <2>1, TuckIs DEF d
  <2>3. u[s][n] = d
    <3>1. d # n
      BY <2>2
    <3> QED BY <1>1, <2>2, <3>1 DEF Tucked
  <2>4. r.tree = Lift(u, n, s) /\ r.node = d
    <3>1. r = [tree |-> IF t.parent[n] = NULL THEN Rotate(u, n, s)
                        ELSE SetLink(Rotate(u, n, s), t.parent[n], n, u[s][n]),
               node |-> u[s][n]]
      BY <1>3 DEF Straighten, Bent, Tuck, d
    <3> HIDE DEF r, u
    <3> QED BY <2>2, <2>3, <3>1 DEF Lift
  <2>5. /\ At(Lift(u, n, s), d, S, a, b)
        /\ Lifted(u, s, n, d, a, b, Lift(u, n, s))
    <3> HIDE DEF u
    <3> QED BY <2>1, <2>2, <2>3, LiftIs
  <2> HIDE DEF r, u
  <2> QED BY <1>3, <2>1, <2>2, <2>3, <2>4, <2>5 DEF r, u, d
<1> QED BY <1>2, <1>3

\* The nodes that a turn at n may meet with another height than they should have.
Stale(t, n, S, a, b) ==
    {y \in S : a < y /\ y < b /\ y # n /\ ~ Accurate(t, y)}

LEMMA AtLinks ==
    ASSUME NEW t, NEW n, NEW S, NEW a, NEW b, At(t, n, S, a, b), NEW y \in S,
           NEW s \in Sides, t[s][y] # NULL
    PROVE  /\ t[s][y] \in S /\ t[s][y] \in Key /\ t.parent[t[s][y]] = y
           /\ a < y /\ y < b => t[s][y] # n
           /\ t[s][y] # t[Other[s]][y]
<1> DEFINE T == Rooted(t, n)
<1>1. /\ t \in Tree /\ n \in Key /\ InTree(T) = S /\ S \in SUBSET Key
      /\ a \in Int /\ b \in Int
      /\ t.parent[n] # NULL => t.parent[n] \in {a, b}
  BY AtIs
<1>2. PICK lo, hi : Bounded(T, lo, hi)
  BY DEF At
<1>3. T.left = t.left /\ T.right = t.right /\ T.parent = t.parent
  BY <1>1, RootedIs
<1> HIDE DEF T
<1>4. /\ T.left[y] # NULL => T.left[y] \in S /\ T.parent[T.left[y]] = y
      /\ T.right[y] # NULL => T.right[y] \in S /\ T.parent[T.right[y]] = y
      /\ y \in Nat /\ y # NULL
      /\ T.left[y] # NULL => T.left[y] < y
      /\ T.right[y] # NULL => y < T.right[y]
      /\ \A z \in S : z \in Nat
  BY <1>1, <1>2, NodeIs
<1>5. t[s][y] \in S /\ t.parent[t[s][y]] = y
  BY <1>3, <1>4 DEF Sides
<1>6. a < y /\ y < b => t[s][y] # n
  BY <1>1, <1>4, <1>5
<1>7. t[s][y] # t[Other[s]][y]
  <2>1. t.left[y] # NULL \/ t.right[y] # NULL
    BY DEF Sides
  <2>2. t.left[y] # t.right[y]
    <3> SUFFICES ASSUME t.left[y] # NULL, t.right[y] # NULL
                 PROVE  t.left[y] # t.right[y]
      BY <2>1
    <3>1. /\ t.left[y] \in Nat /\ t.right[y] \in Nat /\ y \in Nat
          /\ t.left[y] < y /\ y < t.right[y]
      BY <1>3, <1>4
    <3> QED BY <3>1
  <2> QED BY <2>2 DEF Sides, Other
<1> QED BY <1>1, <1>5, <1>6, <1>7

LEMMA LiftStale ==
    ASSUME NEW t, NEW n, NEW S, NEW a, NEW b, At(t, n, S, a, b),
           NEW s \in Sides, NEW m, m = t[s][n], m # NULL,
           NEW w \in Tree, Lifted(t, s, n, m, a, b, w)
    PROVE  Stale(w, m, S, a, b) \subseteq Stale(t, n, S, a, b) \ {m}
<1> DEFINE o == Other[s]
<1>1. /\ t \in Tree /\ n \in Key /\ n \in S /\ S \in SUBSET Key /\ m \in Key
      /\ t.parent[m] = n
  BY AtIs DEF Apart
<1>2. <<s, o>> = <<"left", "right">> \/ <<s, o>> = <<"right", "left">>
  BY DEF Sides, Other
<1> SUFFICES ASSUME NEW y \in Stale(w, m, S, a, b)
             PROVE  y \in Stale(t, n, S, a, b) \ {m}
  OBVIOUS
<1>3. y \in S /\ y \in Key /\ a < y /\ y < b /\ y # m /\ ~ Accurate(w, y) /\ y # n
  BY <1>1 DEF Stale, Lifted
<1>4. \A q \in Sides : t[q][y] # NULL => t[q][y] \notin {n, m} /\ t[q][y] \in Key
  <2> TAKE q \in Sides
  <2> SUFFICES ASSUME t[q][y] # NULL PROVE t[q][y] \notin {n, m} /\ t[q][y] \in Key
    OBVIOUS
  <2>1. t[q][y] \in Key /\ t.parent[t[q][y]] = y /\ t[q][y] # n
    BY <1>3, AtLinks
  <2> QED BY <1>1, <1>3, <2>1
<1>5. w.left[y] = t.left[y] /\ w.right[y] = t.right[y] /\ w.height[y] = t.height[y]
  BY <1>2, <1>3 DEF Lifted
<1>6. \A z \in Key : z \notin {n, m} => w.height[z] = t.height[z]
  BY DEF Lifted
<1>7. /\ t.left[y] # NULL => t.left[y] \notin {n, m} /\ t.left[y] \in Key
      /\ t.right[y] # NULL => t.right[y] \notin {n, m} /\ t.right[y] \in Key
  BY <1>4 DEF Sides
<1>8. /\ Height(w, t.left[y]) = Height(t, t.left[y])
      /\ Height(w, t.right[y]) = Height(t, t.right[y])
  BY <1>6, <1>7 DEF Height
<1>9. ~ Accurate(t, y)
  BY <1>3, <1>5, <1>8 DEF Accurate
<1> QED BY <1>3, <1>9 DEF Stale

LEMMA TuckStale ==
    ASSUME NEW t, NEW n, NEW S, NEW a, NEW b, At(t, n, S, a, b),
           NEW s \in Sides, NEW c, c = t[s][n], c # NULL,
           NEW d, d = t[Other[s]][c], d # NULL,
           NEW u \in Tree, Tucked(t, s, n, c, d, u)
    PROVE  Stale(u, n, S, a, b) \subseteq Stale(t, n, S, a, b) \ {c, d}
<1> DEFINE o == Other[s]
<1>1. /\ t \in Tree /\ n \in Key /\ n \in S /\ S \in SUBSET Key /\ c \in Key /\ c \in S
      /\ t.parent[c] = n
  BY AtIs DEF Apart
<1>2. /\ <<s, o>> = <<"left", "right">> \/ <<s, o>> = <<"right", "left">>
      /\ o \in Sides
  BY DEF Sides, Other
<1>3. t.parent[d] = c
  BY <1>1, <1>2, AtLinks
<1> SUFFICES ASSUME NEW y \in Stale(u, n, S, a, b)
             PROVE  y \in Stale(t, n, S, a, b) \ {c, d}
  OBVIOUS
<1>4. y \in S /\ y \in Key /\ a < y /\ y < b /\ y # n /\ ~ Accurate(u, y) /\ y \notin {c, d}
  BY <1>1 DEF Stale, Tucked
<1>5. \A q \in Sides : t[q][y] # NULL => t[q][y] \notin {c, d} /\ t[q][y] \in Key
  <2> TAKE q \in Sides
  <2> SUFFICES ASSUME t[q][y] # NULL PROVE t[q][y] \notin {c, d} /\ t[q][y] \in Key
    OBVIOUS
  <2>1. t[q][y] \in Key /\ t.parent[t[q][y]] = y
    BY <1>4, AtLinks
  <2> QED BY <1>1, <1>3, <1>4, <2>1
<1>6. u.left[y] = t.left[y] /\ u.right[y] = t.right[y] /\ u.height[y] = t.height[y]
  BY <1>2, <1>4 DEF Tucked
<1>7. \A z \in Key : z \notin {c, d} => u.height[z] = t.height[z]
  BY DEF Tucked
<1>8. /\ t.left[y] # NULL => t.left[y] \notin {c, d} /\ t.left[y] \in Key
      /\ t.right[y] # NULL => t.right[y] \notin {c, d} /\ t.right[y] \in Key
  BY <1>5 DEF Sides
<1>9. /\ Height(u, t.left[y]) = Height(t, t.left[y])
      /\ Height(u, t.right[y]) = Height(t, t.right[y])
  BY <1>7, <1>8 DEF Height
<1>10. ~ Accurate(t, y)
  BY <1>4, <1>6, <1>9 DEF Accurate
<1> QED BY <1>4, <1>10 DEF Stale

Tilt(t, n, s) == Height(t, t[s][n]) - Height(t, t[Other[s]][n])

Level(t, n) == \A s \in Sides : Tilt(t, n, s) # 2

\* A single rotation will do, and the child it lifts has its height.
Easy(t, n) ==
    \E s \in Sides : Tilt(t, n, s) = 2 /\ ~ Bent(t, n, s) /\ Accurate(t, t[s][n])

\* A double rotation will do, and the two nodes it moves have their heights.
Known(t, n) ==
    \E s \in Sides : /\ Tilt(t, n, s) = 2 /\ Bent(t, n, s)
                     /\ Accurate(t, t[s][n]) /\ Accurate(t, t[Other[s]][t[s][n]])

Rank(t, n) ==
    IF Level(t, n) THEN 0 ELSE IF Easy(t, n) THEN 1 ELSE IF Known(t, n) THEN 2 ELSE 3

LEMMA TiltIs ==
    ASSUME NEW t \in Tree, NEW n \in Key, NEW s \in Sides
    PROVE  /\ Tilt(t, n, s) \in Int
           /\ Tilt(t, n, Other[s]) = - Tilt(t, n, s)
           /\ Tilt(t, n, s) = 2 => t[s][n] # NULL
<1>1. /\ Height(t, t[s][n]) \in Nat /\ Height(t, t[Other[s]][n]) \in Nat
      /\ Other[Other[s]] = s
  BY TallIs, HeightIs, SidesAre
<1>2. t[s][n] = NULL => Height(t, t[s][n]) = 0
  BY DEF Height
<1> QED BY <1>1, <1>2 DEF Tilt

LEMMA SingleRank ==
    ASSUME NEW t, NEW n, NEW S, NEW a, NEW b, At(t, n, S, a, b),
           NEW s \in Sides, Tilt(t, n, s) = 2, ~ Bent(t, n, s),
           NEW c, c = t[s][n], c # NULL, Accurate(t, c),
           NEW w \in Tree, Lifted(t, s, n, c, a, b, w)
    PROVE  Level(w, c)
<1> DEFINE o == Other[s]
           l == t[o][n]
           e == t[s][c]
           d == t[o][c]
<1>1. /\ t \in Tree /\ n \in Key /\ c \in Key /\ a < n /\ n < b /\ a < c /\ c < b
      /\ e \notin {n, c} /\ d \notin {n, c} /\ l \notin {n, c} /\ c # n
  BY AtIs DEF Apart
<1>2. l \in Pointer /\ e \in Pointer /\ d \in Pointer
  BY <1>1, TallIs
<1>3. /\ w[s][n] = d /\ w[o][n] = l /\ w[s][c] = e /\ w[o][c] = n
  <2> HIDE DEF l, e, d, o
  <2>1. /\ w[s][n] = t[o][c] /\ w[o][n] = t[o][n] /\ w[s][c] = t[s][c] /\ w[o][c] = n
    BY <1>1 DEF Lifted, o
  <2> QED BY <2>1 DEF l, e, d
<1> HIDE DEF l, e, d
<1>4. Height(w, l) = Height(t, l) /\ Height(w, e) = Height(t, e) /\ Height(w, d) = Height(t, d)
  BY <1>1, <1>2 DEF Lifted, Height, Pointer
<1>5. Height(t, l) \in Nat /\ Height(t, e) \in Nat /\ Height(t, d) \in Nat
  BY <1>1, <1>2, HeightIs
<1>6. Height(w, n) = Tall(Height(t, d), Height(t, l))
  <2>1. w.height[n] = Tall(Height(w, w[s][n]), Height(w, w[o][n]))
    BY <1>1, TallIs DEF Lifted
  <2>2. Height(w, n) = w.height[n]
    BY <1>1, KeysAreNumbers DEF Height
  <2> QED BY <1>3, <1>4, <2>1, <2>2
<1>7. Height(t, c) = Tall(Height(t, e), Height(t, d))
  <2>1. t.height[c] = Tall(Height(t, e), Height(t, d))
    BY <1>1, TallIs DEF e, d
  <2> QED BY <1>1, <2>1, KeysAreNumbers DEF Height
<1>8. Height(t, c) - Height(t, l) = 2
  BY DEF Tilt, l
<1>9. ~ (Height(t, d) > Height(t, e))
  BY DEF Bent, d, e
<1>10. Tilt(w, c, s) = Height(w, e) - Height(w, n)
  BY <1>3 DEF Tilt
<1>11. Tilt(w, c, s) \in {0, -1}
  BY <1>4, <1>5, <1>6, <1>7, <1>8, <1>9, <1>10 DEF Tall
<1>12. Tilt(w, c, o) = - Tilt(w, c, s)
  BY <1>1, TiltIs
<1>13. Tilt(w, c, s) # 2 /\ Tilt(w, c, o) # 2
  BY <1>11, <1>12
<1> QED BY <1>13, SidesAre DEF Level

LEMMA DoubleRank ==
    ASSUME NEW t, NEW n, NEW S, NEW a, NEW b, At(t, n, S, a, b),
           NEW s \in Sides, Tilt(t, n, s) = 2, Bent(t, n, s),
           NEW c, c = t[s][n], c # NULL, Accurate(t, c),
           NEW d, d = t[Other[s]][c], d # NULL, Accurate(t, d), d \notin {n, c},
           NEW u, At(u, n, S, a, b), u[s][n] = d, Tucked(t, s, n, c, d, u),
           NEW w \in Tree, Lifted(u, s, n, d, a, b, w)
    PROVE  Level(w, d) \/ Easy(w, d)
<1> DEFINE o == Other[s]
           l == t[o][n]
           e == t[s][c]
           f == t[o][d]
           g == t[s][d]
<1>1. /\ t \in Tree /\ u \in Tree /\ n \in Key /\ c \in Key /\ d \in Key
      /\ n \in S /\ c \in S
      /\ a < n /\ n < b /\ a < c /\ c < b /\ a < d /\ d < b /\ c # n
      /\ t.parent[c] = n
  <2> HIDE DEF o, l, e, f, g
  <2> QED BY AtIs DEF Apart
<1>2. o \in Sides /\ Other[o] = s /\ o # s
  BY SidesAre
<1>3. d \in S /\ t.parent[d] = c
  BY <1>1, <1>2, AtLinks
<1>4. l \in Pointer /\ e \in Pointer /\ f \in Pointer /\ g \in Pointer
  BY <1>1, TallIs
<1>5. /\ l # NULL => l \notin {n, c, d} /\ l \in Key
      /\ e # NULL => e \notin {n, c, d} /\ e \in Key
      /\ f # NULL => f \notin {n, c, d} /\ f \in Key
      /\ g # NULL => g \notin {n, c, d} /\ g \in Key
  <2>5. ASSUME NEW y \in S, a < y, y < b, NEW x \in Sides, t[x][y] # NULL
        PROVE  /\ t[x][y] # n /\ t[x][y] # t[Other[x]][y] /\ t[x][y] \in Key
               /\ t.parent[t[x][y]] = y
    <3> HIDE DEF l, e, f, g, o
    <3> QED BY <2>5, AtLinks
  <2>1. l # NULL => l \notin {n, c, d} /\ l \in Key
    <3>1. l # NULL => l # n /\ l # c /\ l \in Key /\ t.parent[l] = n
      BY <1>1, <1>2, <2>5
    <3> HIDE DEF l, e, f, g, o
    <3> QED BY <1>1, <1>3, <3>1
  <2>2. e # NULL => e \notin {n, c, d} /\ e \in Key
    <3>1. e # NULL => e # n /\ e # d /\ e \in Key /\ t.parent[e] = c
      BY <1>1, <1>2, <2>5
    <3> HIDE DEF l, e, f, g, o
    <3> QED BY <1>1, <1>3, <3>1
  <2>3. f # NULL => f \notin {n, c, d} /\ f \in Key
    <3>1. f # NULL => f # n /\ f \in Key /\ t.parent[f] = d
      BY <1>1, <1>2, <1>3, <2>5
    <3> HIDE DEF l, e, f, g, o
    <3> QED BY <1>1, <1>3, <3>1
  <2>4. g # NULL => g \notin {n, c, d} /\ g \in Key
    <3>1. g # NULL => g # n /\ g \in Key /\ t.parent[g] = d
      BY <1>1, <1>2, <1>3, <2>5
    <3> HIDE DEF l, e, f, g, o
    <3> QED BY <1>1, <1>3, <3>1
  <2> QED BY <2>1, <2>2, <2>3, <2>4
<1>6. /\ u[o][c] = g /\ u[s][c] = e /\ u[s][d] = c /\ u[o][d] = f /\ u[o][n] = l
  <2> HIDE DEF l, e, f, g, o
  <2>1. /\ u[o][c] = t[s][d] /\ u[s][c] = t[s][c] /\ u[s][d] = c /\ u[o][d] = t[o][d]
        /\ u[o][n] = t[o][n]
    BY <1>1 DEF Tucked, o
  <2> QED BY <2>1 DEF l, e, f, g
<1>7. /\ w[s][n] = f /\ w[o][n] = l /\ w[o][d] = n /\ w[s][d] = c
  <2> HIDE DEF l, e, f, g, o
  <2>1. /\ w[s][n] = u[o][d] /\ w[o][n] = u[o][n] /\ w[o][d] = n /\ w[s][d] = u[s][d]
    BY <1>1 DEF Lifted, o
  <2> QED BY <1>6, <2>1
<1> HIDE DEF l, e, f, g
<1>8. /\ \A z \in Key : z \notin {c, d} => u.height[z] = t.height[z]
      /\ \A z \in Key : z \notin {n, d} => w.height[z] = u.height[z]
      /\ Accurate(u, c) /\ Accurate(w, n)
  BY DEF Tucked, Lifted
<1>9. /\ Height(u, e) = Height(t, e) /\ Height(u, g) = Height(t, g)
      /\ Height(w, l) = Height(t, l) /\ Height(w, f) = Height(t, f)
      /\ Height(w, c) = Height(u, c)
  BY <1>1, <1>5, <1>8 DEF Height
<1>10. /\ Height(t, l) \in Nat /\ Height(t, e) \in Nat
       /\ Height(t, f) \in Nat /\ Height(t, g) \in Nat
  BY <1>1, <1>4, HeightIs
<1>11. Height(w, n) = Tall(Height(t, f), Height(t, l))
  <2>1. w.height[n] = Tall(Height(w, w[s][n]), Height(w, w[o][n]))
    BY <1>1, <1>8, TallIs
  <2>2. Height(w, n) = w.height[n]
    BY <1>1, KeysAreNumbers DEF Height
  <2> QED BY <1>7, <1>9, <2>1, <2>2
<1>12. Height(w, c) = Tall(Height(t, e), Height(t, g))
  <2>1. u.height[c] = Tall(Height(u, u[s][c]), Height(u, u[o][c]))
    BY <1>1, <1>8, TallIs
  <2>2. Height(u, c) = u.height[c]
    BY <1>1, KeysAreNumbers DEF Height
  <2> QED BY <1>6, <1>9, <2>1, <2>2
<1>13. Height(t, c) = Tall(Height(t, e), Height(t, d))
  <2>1. t.height[c] = Tall(Height(t, t[s][c]), Height(t, t[o][c]))
    BY <1>1, TallIs
  <2> QED BY <1>1, <2>1, KeysAreNumbers DEF Height, e
<1>14. Height(t, d) = Tall(Height(t, g), Height(t, f))
  <2>1. t.height[d] = Tall(Height(t, t[s][d]), Height(t, t[o][d]))
    BY <1>1, TallIs
  <2> QED BY <1>1, <2>1, KeysAreNumbers DEF Height, g, f
<1>15. Height(t, c) - Height(t, l) = 2
  BY DEF Tilt, l
<1>16. Height(t, d) > Height(t, e)
  BY DEF Bent, e
<1>17. Tilt(w, d, s) = Height(w, c) - Height(w, n)
  BY <1>7 DEF Tilt
<1>18. Height(t, f) <= Height(t, l) /\ Height(w, c) <= Height(w, n)
       /\ Height(w, c) \in Int /\ Height(w, n) \in Int
  <2>1. Height(t, d) = Height(t, l) + 1
    BY <1>10, <1>13, <1>14, <1>15, <1>16 DEF Tall
  <2>2. Height(t, f) <= Height(t, l) /\ Height(t, g) <= Height(t, l)
        /\ Height(t, e) <= Height(t, l)
    BY <1>10, <1>14, <1>16, <2>1 DEF Tall
  <2> QED BY <1>10, <1>11, <1>12, <2>2 DEF Tall
<1>19. Tilt(w, d, s) # 2
  BY <1>17, <1>18
<1>20. ASSUME Tilt(w, d, o) = 2 PROVE Easy(w, d)
  <2>1. ~ Bent(w, d, o)
    <3>1. ~ (Height(w, f) > Height(w, l))
      BY <1>9, <1>10, <1>18
    <3> QED BY <1>2, <1>7, <3>1 DEF Bent
  <2> QED BY <1>2, <1>7, <1>8, <1>20, <2>1 DEF Easy
<1> QED BY <1>19, <1>20, SidesAre DEF Level

LEMMA SameLinks ==
    ASSUME NEW t, NEW lo, NEW hi, Bounded(t, lo, hi),
           NEW u \in Tree, u.left = t.left, u.right = t.right, u.parent = t.parent,
           u.root = t.root
    PROVE  Bounded(u, lo, hi) /\ InTree(u) = InTree(t)
  BY DEF Bounded, InTree, Below

LEMMA SetHeightAt ==
    ASSUME NEW t, NEW n, NEW S, NEW a, NEW b, At(t, n, S, a, b)
    PROVE  LET u == SetHeight(t, n) IN
           /\ u \in Tree /\ At(u, n, S, a, b) /\ Accurate(u, n)
           /\ u.left = t.left /\ u.right = t.right /\ u.parent = t.parent
<1> DEFINE u == SetHeight(t, n)
           T == Rooted(t, n)
           U == Rooted(u, n)
<1>1. t \in Tree /\ n \in Key /\ n \in S /\ InTree(T) = S
  BY AtIs
<1>2. t.left[n] # n /\ t.right[n] # n
  <2>1. \A s \in Sides : t[s][n] # n
    BY <1>1, AtIs, KeysAreNumbers DEF Apart
  <2> QED BY <2>1 DEF Sides
<1>3. /\ u \in Tree /\ u.left = t.left /\ u.right = t.right
      /\ u.parent = t.parent /\ u.root = t.root /\ Accurate(u, n)
  BY <1>1, <1>2, SetHeightIs
<1> HIDE DEF u
<1>4. /\ U \in Tree /\ U.left = T.left /\ U.right = T.right /\ U.parent = T.parent
      /\ U.root = T.root
  BY <1>1, <1>3, RootedIs
<1>5. PICK lo, hi : Bounded(T, lo, hi) /\ lo[n] = a /\ hi[n] = b
  BY DEF At
<1> HIDE DEF T, U
<1>6. Bounded(U, lo, hi) /\ InTree(U) = InTree(T)
  BY <1>4, <1>5, SameLinks
<1> QED BY <1>1, <1>3, <1>5, <1>6 DEF At, U, u

LEMMA SetHeightAgain ==
    ASSUME NEW t \in Tree, NEW n \in Key, Accurate(t, n)
    PROVE  SetHeight(t, n) = t
<1> DEFINE h == Tall(Height(t, t.left[n]), Height(t, t.right[n]))
<1>1. SetHeight(t, n) = [t EXCEPT !.height[n] = h]
  BY DEF SetHeight, Tall
<1>2. t.height[n] = h
  BY DEF Accurate
<1> HIDE DEF h
<1>3. [t.height EXCEPT ![n] = h] = t.height
  BY <1>2 DEF Tree
<1>4. [t EXCEPT !.height = [t.height EXCEPT ![n] = h]] = t
  BY <1>3 DEF Tree
<1> QED BY <1>1, <1>4

\* What is left to do at one place of the tree.
Near(t, n, S, a, b) == 4 * Cardinality(Stale(t, n, S, a, b)) + Rank(t, n)

LEMMA NearIs ==
    ASSUME NEW t, NEW n, NEW S, NEW a, NEW b, At(t, n, S, a, b)
    PROVE  /\ IsFiniteSet(Stale(t, n, S, a, b))
           /\ Cardinality(Stale(t, n, S, a, b)) \in Nat
           /\ Near(t, n, S, a, b) \in Nat /\ Rank(t, n) \in 0 .. 3
<1>1. IsFiniteSet(Key)
  <2>1. Key \in SUBSET Nat /\ TypeLimit \in Nat /\ \A k \in Key : k <= TypeLimit
    BY KeysAreNumbers
  <2> QED BY <2>1, FS_BoundedSetOfNaturals
<1>2. Stale(t, n, S, a, b) \subseteq Key
  BY AtIs DEF Stale
<1>3. IsFiniteSet(Stale(t, n, S, a, b))
  BY <1>1, <1>2, FS_Subset
<1>4. Cardinality(Stale(t, n, S, a, b)) \in Nat
  BY <1>3, FS_CardinalityType
<1>5. Rank(t, n) \in 0 .. 3
  BY DEF Rank
<1> QED BY <1>3, <1>4, <1>5 DEF Near

\* A turn that rotates leaves less to do.
LEMMA StraightenNear ==
    ASSUME NEW t, NEW n, NEW S, NEW a, NEW b, At(t, n, S, a, b),
           NEW s \in Sides, Tilt(t, n, s) = 2
    PROVE  LET r == Straighten(t, n, s) IN
           /\ At(r.tree, r.node, S, a, b) /\ Accurate(r.tree, r.node)
           /\ Near(r.tree, r.node, S, a, b) < Near(t, n, S, a, b)
<1> DEFINE r == Straighten(t, n, s)
           w == r.tree
           m == r.node
           c == t[s][n]
           d == t[Other[s]][c]
           u == Tuck(t, n, s)
           F == Stale(t, n, S, a, b)
           G == Stale(w, m, S, a, b)
<1>1. c # NULL /\ t \in Tree /\ n \in Key
  BY AtIs, TiltIs
<1>2. /\ At(w, m, S, a, b)
      /\ ~ Bent(t, n, s) => m = c /\ Lifted(t, s, n, c, a, b, w)
      /\ Bent(t, n, s) =>
           /\ m = d /\ d # NULL /\ d \notin {n, c}
           /\ At(u, n, S, a, b) /\ u[s][n] = d
           /\ Tucked(t, s, n, c, d, u)
           /\ Lifted(u, s, n, d, a, b, w)
  BY <1>1, StraightenIs
<1> HIDE DEF r, u
<1>3. w \in Tree
  BY <1>2, AtIs
<1>4. c \in S /\ a < c /\ c < b /\ c # n /\ c \in Key /\ t.parent[c] = n
  BY <1>1, AtIs DEF Apart
<1>5. ~ Level(t, n)
  BY DEF Level
<1> HIDE DEF w, m, c
<1>6. Accurate(w, m)
  BY <1>2 DEF Lifted
<1>7. (G \subseteq F /\ Rank(w, m) < Rank(t, n)) \/ (G \subseteq F /\ \E z \in F : z \notin G)
  <2>1. CASE ~ Bent(t, n, s)
    <3>1. m = c /\ Lifted(t, s, n, c, a, b, w)
      BY <1>2, <2>1
    <3>2. G \subseteq F \ {c}
      BY <1>1, <1>3, <3>1, LiftStale DEF c
    <3>3. CASE Accurate(t, c)
      <4>1. Level(w, m)
        BY <1>1, <1>3, <2>1, <3>1, <3>3, SingleRank DEF c
      <4>2. Rank(w, m) = 0 /\ Rank(t, n) \in 1 .. 3
        BY <1>5, <4>1 DEF Rank
      <4> QED BY <3>2, <4>2
    <3>4. CASE ~ Accurate(t, c)
      <4>1. c \in F
        BY <1>4, <3>4 DEF Stale
      <4> QED BY <3>2, <4>1
    <3> QED BY <3>3, <3>4
  <2>2. CASE Bent(t, n, s)
    <3>1. /\ m = d /\ d # NULL /\ d \notin {n, c}
          /\ At(u, n, S, a, b) /\ u[s][n] = d
          /\ Tucked(t, s, n, c, d, u)
          /\ Lifted(u, s, n, d, a, b, w)
      BY <1>2, <2>2
    <3>2. u \in Tree
      BY <3>1, AtIs
    <3>3. Stale(u, n, S, a, b) \subseteq F \ {c, d}
      <4> DEFINE H == Stale(u, n, S, a, b)
      <4>1. H \subseteq F \ {c, d}
        <5> HIDE DEF d
        <5> QED BY <1>1, <3>1, <3>2, TuckStale DEF c, d
      <4> QED BY <4>1
    <3>4. G \subseteq F \ {c, d}
      <4>1. G \subseteq Stale(u, n, S, a, b) \ {d}
        <5> HIDE DEF d
        <5> QED BY <1>3, <3>1, LiftStale
      <4> QED BY <3>3, <4>1
    <3>5. CASE Accurate(t, c) /\ Accurate(t, d)
      <4>1. Level(w, m) \/ Easy(w, m)
        <5> DEFINE dd == d
        <5> HIDE DEF d
        <5>1. d = t[Other[s]][c] /\ c = t[s][n]
          BY DEF c, d
        <5> QED BY <1>1, <1>3, <2>2, <3>1, <3>5, <5>1, DoubleRank
      <4>2. ~ Easy(t, n)
        <5>1. Tilt(t, n, Other[s]) # 2
          BY <1>1, TiltIs
        <5> QED BY <2>2, <5>1, SidesAre DEF Easy
      <4>3. Rank(t, n) \in {2, 3}
        BY <1>5, <4>2 DEF Rank
      <4>4. Rank(w, m) \in {0, 1}
        BY <4>1 DEF Rank
      <4> QED BY <3>4, <4>3, <4>4
    <3>6. CASE ~ Accurate(t, c)
      <4>1. c \in F
        BY <1>4, <3>6 DEF Stale
      <4> QED BY <3>4, <4>1
    <3>7. CASE ~ Accurate(t, d)
      <4>1. d \in S /\ a < d /\ d < b /\ d # n
        <5>1. d \in S /\ d # n
          BY <1>4, <3>1, SidesAre, AtLinks
        <5>2. a < d /\ d < b
          BY <3>1, AtIs
        <5> QED BY <5>1, <5>2
      <4>2. d \in F
        BY <3>7, <4>1 DEF Stale
      <4> QED BY <3>4, <4>2
    <3> QED BY <3>5, <3>6, <3>7
  <2> QED BY <2>1, <2>2
<1>8. /\ IsFiniteSet(F) /\ Cardinality(F) \in Nat /\ Rank(t, n) \in 0 .. 3
      /\ IsFiniteSet(G) /\ Cardinality(G) \in Nat /\ Rank(w, m) \in 0 .. 3
  BY <1>2, NearIs
<1> HIDE DEF F, G
<1>9. G \subseteq F => /\ Cardinality(G) <= Cardinality(F)
                       /\ (Cardinality(G) = Cardinality(F) => G = F)
  BY <1>8, FS_Subset
<1>10. ASSUME G \subseteq F, Rank(w, m) < Rank(t, n)
       PROVE  Near(w, m, S, a, b) < Near(t, n, S, a, b)
  BY <1>8, <1>9, <1>10 DEF Near, F, G
<1>11. ASSUME G \subseteq F, \E z \in F : z \notin G
       PROVE  Near(w, m, S, a, b) < Near(t, n, S, a, b)
  <2>1. Cardinality(G) + 1 <= Cardinality(F)
    BY <1>8, <1>9, <1>11
  <2> QED BY <1>8, <2>1 DEF Near, F, G
<1> QED BY <1>2, <1>6, <1>7, <1>10, <1>11 DEF r, w, m

-----------------------------------------------------------------------------
(* Rebalancing as a whole.  First: whatever the tree, a turn returns one.   *)

LEMMA RotateTree ==
    ASSUME NEW t \in Tree, NEW s \in Sides, NEW x \in Key, t[s][x] # NULL
    PROVE  Rotate(t, x, s) \in Tree
<1> DEFINE o == Other[s]
           n == t[s][x]
           d == t[o][n]
           q == [t EXCEPT !.parent[n] = t.parent[x]]
           u == SetParent(q, d, x)
           v == [u EXCEPT ![s][x] = d, !.parent[x] = n, ![o][n] = x]
<1>1. n \in Pointer /\ n \in Key /\ x \in Pointer
  BY TallIs, KeysAreNumbers DEF Pointer
<1>2. d \in Pointer
  BY <1>1, TallIs
<1>3. Rotate(t, x, s) = SetHeight(SetHeight(v, x), n)
  BY DEF Rotate
<1> HIDE DEF n, d
<1>4. q \in Tree
  BY <1>1 DEF Tree
<1> HIDE DEF q
<1>5. u \in Tree
  BY <1>1, <1>2, <1>4, SetParentIs
<1> HIDE DEF u
<1>6. v \in Tree
  <2>1. CASE s = "left"
    BY <1>1, <1>2, <1>5, <2>1 DEF Tree, Other
  <2>2. CASE s = "right"
    BY <1>1, <1>2, <1>5, <2>2 DEF Tree, Other
  <2> QED BY <2>1, <2>2 DEF Sides
<1> HIDE DEF v
<1>7. SetHeight(v, x) \in Tree
  BY <1>6, SetHeightIs
<1> QED BY <1>1, <1>3, <1>7, SetHeightIs

LEMMA StraightenTree ==
    ASSUME NEW t \in Tree, NEW n \in Key, NEW s \in Sides, Tilt(t, n, s) = 2
    PROVE  Straighten(t, n, s) \in [tree : Tree, node : Pointer]
<1> DEFINE c == t[s][n]
           o == Other[s]
           d == t[o][c]
           bend == Bent(t, n, s)
           k == [Rotate(t, c, o) EXCEPT ![s][n] = d]
           u == IF bend THEN k ELSE t
           v == Rotate(u, n, s)
           w == IF t.parent[n] = NULL THEN v ELSE SetLink(v, t.parent[n], n, u[s][n])
<1>1. Straighten(t, n, s) = [tree |-> w, node |-> u[s][n]]
  BY DEF Straighten, Bent
<1>2. c # NULL /\ c \in Key /\ o \in Sides
  BY TiltIs, TallIs, SidesAre DEF Pointer
<1>3. bend => d # NULL /\ d \in Pointer
  <2>1. Height(t, t[s][c]) \in Nat /\ d \in Pointer
    BY <1>2, TallIs, HeightIs
  <2>2. d = NULL => Height(t, d) = 0
    BY DEF Height
  <2>3. bend => Height(t, d) > Height(t, t[s][c])
    BY DEF Bent
  <2> HIDE DEF bend, d
  <2> QED BY <2>1, <2>2, <2>3
<1> HIDE DEF c, bend
<1>4. bend => k \in Tree /\ k[s][n] = d
  <2> SUFFICES ASSUME bend PROVE k \in Tree /\ k[s][n] = d
    OBVIOUS
  <2> DEFINE z == Rotate(t, c, o)
  <2>1. z \in Tree
    BY <1>2, <1>3, RotateTree
  <2>2. k = [z EXCEPT ![s][n] = d] /\ d \in Pointer
    BY <1>3
  <2> HIDE DEF z, d, o, k
  <2>3. CASE s = "left"
    <3>1. k = [z EXCEPT !.left[n] = d]
      BY <2>2, <2>3
    <3>2. k \in Tree /\ k.left = [z.left EXCEPT ![n] = d]
      BY <2>1, <2>2, <3>1 DEF Tree
    <3>3. k.left[n] = d
      BY <2>1, <3>2 DEF Tree
    <3> QED BY <2>3, <3>2, <3>3
  <2>4. CASE s = "right"
    <3>1. k = [z EXCEPT !.right[n] = d]
      BY <2>2, <2>4
    <3>2. k \in Tree /\ k.right = [z.right EXCEPT ![n] = d]
      BY <2>1, <2>2, <3>1 DEF Tree
    <3>3. k.right[n] = d
      BY <2>1, <3>2 DEF Tree
    <3> QED BY <2>4, <3>2, <3>3
  <2> QED BY <2>3, <2>4 DEF Sides
<1> HIDE DEF d, k
<1>5. u \in Tree /\ u[s][n] # NULL /\ u[s][n] \in Pointer
  BY <1>2, <1>3, <1>4, KeysAreNumbers DEF c
<1> HIDE DEF u
<1>6. v \in Tree
  BY <1>5, RotateTree
<1> HIDE DEF v
<1>7. w \in Tree
  <2>1. t.parent[n] \in Pointer
    BY DEF Tree
  <2>2. SetLink(v, t.parent[n], n, u[s][n]) \in Tree
    BY <1>5, <1>6, <2>1, SetLinkIs
  <2> QED BY <1>6, <2>2
<1> QED BY <1>1, <1>5, <1>7

\* Balance, by cases.
LEMMA BalanceIs ==
    ASSUME NEW t \in Tree, NEW n \in Key
    PROVE  LET u == SetHeight(t, n)
               r == Balance(t, n)
           IN  \/ \E s \in Sides : Tilt(u, n, s) = 2 /\ r = Straighten(u, n, s)
               \/ /\ Level(u, n)
                  /\ r.tree = IF u.parent[n] = NULL THEN [u EXCEPT !.root = n] ELSE u
                  /\ r.node = u.parent[n]
                  /\ r = [tree |-> r.tree, node |-> r.node]
<1> DEFINE u == SetHeight(t, n)
           r == Balance(t, n)
           x == Tilt(u, n, "right")
           e == [tree |-> IF u.parent[n] = NULL THEN [u EXCEPT !.root = n] ELSE u,
                 node |-> u.parent[n]]
<1>1. r = CASE x = 2  -> Straighten(u, n, "right")
            [] x = -2 -> Straighten(u, n, "left")
            [] OTHER  -> e
  BY DEF Balance, Tilt, Other
<1>2. u \in Tree
  BY SetHeightIs
<1> HIDE DEF u, r
<1>3. "left" \in Sides /\ "right" \in Sides /\ Other["right"] = "left"
  BY DEF Sides, Other
<1>4. Tilt(u, n, "left") = - x /\ x \in Int
  BY <1>2, <1>3, TiltIs
<1> HIDE DEF x
<1>5. CASE x = 2
  BY <1>1, <1>3, <1>5 DEF x, u, r
<1>6. CASE x = -2
  <2>1. r = Straighten(u, n, "left")
    BY <1>1, <1>6
  <2>2. Tilt(u, n, "left") = 2
    BY <1>4, <1>6
  <2> QED BY <1>3, <2>1, <2>2 DEF u, r
<1>7. CASE x # 2 /\ x # -2
  <2>1. r = e
    BY <1>1, <1>4, <1>7
  <2>2. Level(u, n)
    BY <1>4, <1>7 DEF Level, Sides, x
  <2> QED BY <2>1, <2>2 DEF u, r
<1> QED BY <1>5, <1>6, <1>7

LEMMA BalanceTree ==
    ASSUME NEW t \in Tree, NEW n \in Key
    PROVE  Balance(t, n) \in [tree : Tree, node : Pointer]
<1> DEFINE u == SetHeight(t, n)
           r == Balance(t, n)
<1>1. u \in Tree
  BY SetHeightIs
<1>2. \/ \E s \in Sides : Tilt(u, n, s) = 2 /\ r = Straighten(u, n, s)
      \/ /\ r.tree = IF u.parent[n] = NULL THEN [u EXCEPT !.root = n] ELSE u
         /\ r.node = u.parent[n]
         /\ r = [tree |-> r.tree, node |-> r.node]
  BY BalanceIs
<1> HIDE DEF u, r
<1>3. CASE \E s \in Sides : Tilt(u, n, s) = 2 /\ r = Straighten(u, n, s)
  BY <1>1, <1>3, StraightenTree DEF r
<1>4. CASE /\ r.tree = IF u.parent[n] = NULL THEN [u EXCEPT !.root = n] ELSE u
           /\ r.node = u.parent[n]
           /\ r = [tree |-> r.tree, node |-> r.node]
  <2>1. n \in Pointer /\ u.parent[n] \in Pointer
    BY <1>1, KeysAreNumbers DEF Tree
  <2>2. [u EXCEPT !.root = n] \in Tree
    BY <1>1, <2>1 DEF Tree
  <2>3. r.tree \in Tree /\ r.node \in Pointer
    BY <1>1, <1>4, <2>1, <2>2
  <2> QED BY <1>4, <2>3 DEF r
<1> QED BY <1>2, <1>3, <1>4

\* One turn: closer to the end at the same place, or the end, or further up.
LEMMA BalanceTurn ==
    ASSUME NEW t, NEW n, NEW S, NEW a, NEW b, At(t, n, S, a, b)
    PROVE  LET r == Balance(t, n) IN
           \/ /\ At(r.tree, r.node, S, a, b)
              /\ Near(SetHeight(r.tree, r.node), r.node, S, a, b)
                    < Near(SetHeight(t, n), n, S, a, b)
           \/ r.node = NULL /\ Good(r.tree) /\ InTree(r.tree) = S
           \/ \E a2, b2 : At(r.tree, r.node, S, a2, b2) /\ b2 - a2 > b - a
<1> DEFINE u == SetHeight(t, n)
           r == Balance(t, n)
           U == Rooted(u, n)
<1>1. t \in Tree /\ n \in Key
  BY AtIs
<1>2. \/ \E s \in Sides : Tilt(u, n, s) = 2 /\ r = Straighten(u, n, s)
      \/ /\ r.tree = IF u.parent[n] = NULL THEN [u EXCEPT !.root = n] ELSE u
         /\ r.node = u.parent[n]
  BY <1>1, BalanceIs
<1>3. u \in Tree /\ At(u, n, S, a, b)
  BY SetHeightAt
<1> HIDE DEF u, r
<1>4. ASSUME NEW s \in Sides, Tilt(u, n, s) = 2, r = Straighten(u, n, s)
      PROVE  /\ At(r.tree, r.node, S, a, b)
             /\ Near(SetHeight(r.tree, r.node), r.node, S, a, b) < Near(u, n, S, a, b)
  <2>1. /\ At(r.tree, r.node, S, a, b) /\ Accurate(r.tree, r.node)
        /\ Near(r.tree, r.node, S, a, b) < Near(u, n, S, a, b)
    BY <1>3, <1>4, StraightenNear
  <2>2. r.tree \in Tree /\ r.node \in Key
    BY <2>1, AtIs
  <2>3. SetHeight(r.tree, r.node) = r.tree
    BY <2>1, <2>2, SetHeightAgain
  <2> QED BY <2>1, <2>3
<1>5. ASSUME r.tree = (IF u.parent[n] = NULL THEN [u EXCEPT !.root = n] ELSE u),
             r.node = u.parent[n]
      PROVE  \/ r.node = NULL /\ Good(r.tree) /\ InTree(r.tree) = S
             \/ \E a2, b2 : At(r.tree, r.node, S, a2, b2) /\ b2 - a2 > b - a
  <2>1. r.tree = U
    BY <1>5 DEF Rooted
  <2>2. PICK lo, hi : Bounded(U, lo, hi) /\ lo[n] = a /\ hi[n] = b
    BY <1>3 DEF At
  <2>3. /\ n \in S /\ InTree(U) = S /\ n \in Key
        /\ u.parent[n] # NULL => u.parent[n] \in S
    BY <1>3, AtIs
  <2>4. /\ U.parent = u.parent
        /\ u.parent[n] # NULL => U = u
    BY <1>3, <2>3, RootedIs
  <2>5. CASE r.node = NULL
    BY <2>1, <2>2, <2>3, <2>5 DEF Good
  <2>6. CASE r.node # NULL
    <3> DEFINE p == u.parent[n]
    <3>1. p # NULL /\ p \in S /\ r.node = p /\ U = u
      BY <1>5, <2>3, <2>4, <2>6
    <3>2. p \in Key /\ p \in Nat /\ u \in Tree
      BY <1>3, <2>2, <2>3, <3>1, NodeIs
    <3>3. u.parent[p] = NULL => p = u.root
      BY <2>2, <2>3, <3>1, ParentIs
    <3> HIDE DEF U
    <3>4. Rooted(u, p) = u
      <4>1. CASE u.parent[p] = NULL
        <5>1. Rooted(u, p) = [u EXCEPT !.root = u.root]
          BY <3>3, <4>1 DEF Rooted
        <5> QED BY <3>2, <5>1 DEF Tree
      <4>2. CASE u.parent[p] # NULL
        BY <4>2 DEF Rooted
      <4> QED BY <4>1, <4>2
    <3>5. At(u, p, S, lo[p], hi[p])
      BY <2>2, <2>3, <3>1, <3>2, <3>4 DEF At
    <3>6. n # u.root /\ n # NULL
      <4>1. u.root # NULL => u.parent[u.root] = NULL
        BY <2>2, <3>1 DEF Bounded
      <4> QED BY <2>3, <3>1, <4>1, KeysAreNumbers
    <3>7. n \in {u.left[p], u.right[p]}
      BY <2>2, <2>3, <3>1, <3>6, ParentIs
    <3>8. /\ n = u.left[p] => lo[n] = lo[p] /\ hi[n] = p
          /\ n = u.right[p] => hi[n] = hi[p] /\ lo[n] = p
          /\ lo[p] < p /\ p < hi[p] /\ lo[p] \in Int /\ hi[p] \in Int
      BY <2>2, <2>3, <3>1, <3>6, NodeIs
    <3>9. hi[p] - lo[p] > b - a
      BY <2>2, <3>2, <3>7, <3>8
    <3> QED BY <2>1, <3>1, <3>5, <3>9
  <2> QED BY <2>5, <2>6
<1> QED BY <1>2, <1>4, <1>5 DEF u, r

\* A loop that comes to its end by two numbers, of which the first counts more:
\* R[i][j] are the states that have i and j to go.
Nearing(R, D, E, g) ==
    /\ R \in [Nat -> [Nat -> SUBSET D]]
    /\ \A i, j \in Nat : \A x \in R[i][j] :
          x \in E \/ \E i2, j2 \in Nat : /\ g[x] \in R[i2][j2]
                                         /\ i2 < i \/ (i2 = i /\ j2 < j)

LEMMA LoopEndsTwice ==
    ASSUME NEW D, NEW E, NEW g, NEW out, NEW f, IsLoop(f, D, E, g, out),
           NEW R, Nearing(R, D, E, g),
           NEW i0 \in Nat, NEW j0 \in Nat, NEW x0 \in R[i0][j0]
    PROVE  \E i, j \in Nat : \E y \in R[i][j] : y \in E /\ f[x0] = out[y]
<1> DEFINE Bad(z) == ~ \E i, j \in Nat : \E y \in R[i][j] : y \in E /\ f[z] = out[y]
           I == {i \in Nat : \E j \in Nat : \E z \in R[i][j] : Bad(z)}
           J(i) == {j \in Nat : \E z \in R[i][j] : Bad(z)}
<1>1. SUFFICES ASSUME Bad(x0) PROVE FALSE
  OBVIOUS
<1>0. /\ R \in [Nat -> [Nat -> SUBSET D]]
      /\ \A i, j \in Nat : \A x \in R[i][j] :
            x \in E \/ \E i2, j2 \in Nat : /\ g[x] \in R[i2][j2]
                                           /\ i2 < i \/ (i2 = i /\ j2 < j)
  BY DEF Nearing
<1>2. \A i, j \in Nat : \A z \in R[i][j] :
         Bad(z) => /\ z \notin E /\ f[z] = f[g[z]]
                   /\ \E i2, j2 \in Nat : /\ g[z] \in R[i2][j2]
                                          /\ i2 < i \/ (i2 = i /\ j2 < j)
  <2> TAKE i \in Nat, j \in Nat
  <2> TAKE z \in R[i][j]
  <2> SUFFICES ASSUME Bad(z)
               PROVE  /\ z \notin E /\ f[z] = f[g[z]]
                      /\ \E i2, j2 \in Nat : /\ g[z] \in R[i2][j2]
                                             /\ i2 < i \/ (i2 = i /\ j2 < j)
    OBVIOUS
  <2>1. z \in D
    BY <1>0
  <2>2. z \in E => f[z] = out[z]
    BY <2>1 DEF IsLoop
  <2>3. z \notin E
    BY <2>2
  <2>4. f[z] = f[g[z]]
    BY <2>1, <2>3 DEF IsLoop
  <2> HIDE DEF Bad
  <2> QED BY <1>0, <2>3, <2>4
<1>3. \A i, j \in Nat : \A z \in R[i][j] : Bad(z) =>
         \E i2, j2 \in Nat : /\ g[z] \in R[i2][j2] /\ Bad(g[z])
                             /\ i2 < i \/ (i2 = i /\ j2 < j)
  <2> TAKE i \in Nat, j \in Nat
  <2> TAKE z \in R[i][j]
  <2> SUFFICES ASSUME Bad(z)
               PROVE  \E i2, j2 \in Nat : /\ g[z] \in R[i2][j2] /\ Bad(g[z])
                                          /\ i2 < i \/ (i2 = i /\ j2 < j)
    OBVIOUS
  <2>1. f[z] = f[g[z]]
    <3> HIDE DEF Bad
    <3> QED BY <1>2
  <2>2. Bad(g[z])
    BY <2>1
  <2> HIDE DEF Bad
  <2> QED BY <1>2, <2>2
<1> HIDE DEF Bad
<1>4. PICK k \in I : \A i \in I : k <= i
  <2>1. I \in SUBSET Nat /\ I # {}
    BY <1>1
  <2> HIDE DEF I
  <2> QED BY <2>1, LeastExists
<1>5. PICK l \in J(k) : \A j \in J(k) : l <= j
  <2>1. J(k) \in SUBSET Nat /\ J(k) # {}
    BY <1>4
  <2> HIDE DEF J
  <2> QED BY <2>1, LeastExists
<1>6. PICK z \in R[k][l] : Bad(z)
  BY <1>5
<1>7. PICK i2 \in Nat, j2 \in Nat : /\ g[z] \in R[i2][j2] /\ Bad(g[z])
                                    /\ i2 < k \/ (i2 = k /\ j2 < l)
  BY <1>3, <1>6
<1>8. i2 \in I
  BY <1>7
<1>9. i2 = k => j2 \in J(k)
  BY <1>7
<1> HIDE DEF I, J
<1>10. k \in Nat /\ l \in Nat
  BY DEF I, J
<1> QED BY <1>4, <1>5, <1>7, <1>8, <1>9, <1>10

\* The loop of Rebalance.
LoopState == [tree : Tree, node : Pointer]

Arrived == {x \in LoopState : x.node = NULL}

OneTurn ==
    [x \in LoopState |-> IF x.node = NULL THEN x ELSE Balance(x.tree, x.node)]

ItsTree == [x \in LoopState |-> x.tree]

LEMMA RebalanceLoop ==
    \E f : /\ IsLoop(f, LoopState, Arrived, OneTurn, ItsTree)
           /\ \A t, n : Rebalance(t, n) = f[[tree |-> t, node |-> n]]
<1> DEFINE E == Arrived
           g == OneTurn
           Body(f) == [x \in LoopState |-> IF x.node = NULL THEN x.tree
                                           ELSE f[Balance(x.tree, x.node)]]
           f == CHOOSE h : h = Body(h)
<1>1. \A x \in LoopState : x.node # NULL => Balance(x.tree, x.node) \in LoopState
  <2> TAKE x \in LoopState
  <2>1. x.tree \in Tree /\ x.node \in Pointer
    BY DEF LoopState
  <2> QED BY <2>1, BalanceTree DEF Pointer, LoopState
<1>2. \A x \in LoopState : /\ x \in E => g[x] = x
                           /\ x \notin E => g[x] = Balance(x.tree, x.node)
                           /\ g[x] \in LoopState
                           /\ x \in E <=> x.node = NULL
  BY <1>1 DEF Arrived, OneTurn
<1>3. E \in SUBSET LoopState /\ g \in [LoopState -> LoopState] /\ \A z \in E : g[z] = z
  <2>1. g = [x \in LoopState |-> g[x]] /\ E \in SUBSET LoopState
    BY DEF OneTurn, Arrived
  <2> HIDE DEF g, E
  <2>2. g \in [LoopState -> LoopState]
    BY <1>2, <2>1
  <2> QED BY <1>2, <2>1, <2>2
<1>4. ASSUME NEW h PROVE IsLoop(h, LoopState, E, g, ItsTree) <=> h = Body(h)
  <2>1. [x \in LoopState |-> IF x \in E THEN ItsTree[x] ELSE h[g[x]]] = Body(h)
    <3>1. \A x \in LoopState : (IF x \in E THEN ItsTree[x] ELSE h[g[x]]) =
              (IF x.node = NULL THEN x.tree ELSE h[Balance(x.tree, x.node)])
      <4> HIDE DEF g, E
      <4> QED BY <1>2 DEF ItsTree
    <3> QED BY <3>1
  <2> HIDE DEF g, E, Body
  <2> QED BY <2>1 DEF IsLoop
<1>5. IsLoop(f, LoopState, E, g, ItsTree)
  <2> HIDE DEF g, E
  <2>1. PICK h : IsLoop(h, LoopState, E, g, ItsTree)
    BY <1>3, LoopExists
  <2> HIDE DEF Body
  <2> QED BY <1>4, <2>1
<1>6. \A t, n : Rebalance(t, n) = f[[tree |-> t, node |-> n]]
  BY DEF Rebalance, LoopState
<1> HIDE DEF f
<1> QED BY <1>5, <1>6

\* What is to go: the way up, then the turns at one place.
ToGo(S) ==
    [i \in Nat |-> [j \in Nat |->
        {x \in LoopState :
            \/ x.node = NULL /\ Good(x.tree) /\ InTree(x.tree) = S
            \/ \E a, b : /\ At(x.tree, x.node, S, a, b)
                         /\ i = TypeLimit + 2 - (b - a)
                         /\ j = Near(SetHeight(x.tree, x.node), x.node, S, a, b)}]]

LEMMA AtToGo ==
    ASSUME NEW t, NEW n, NEW S, NEW a, NEW b, At(t, n, S, a, b)
    PROVE  LET i == TypeLimit + 2 - (b - a)
               j == Near(SetHeight(t, n), n, S, a, b)
           IN  /\ i \in Nat /\ j \in Nat /\ i > 0
               /\ [tree |-> t, node |-> n] \in ToGo(S)[i][j]
<1> DEFINE i == TypeLimit + 2 - (b - a)
           j == Near(SetHeight(t, n), n, S, a, b)
           x == [tree |-> t, node |-> n]
<1>1. /\ t \in Tree /\ n \in Key /\ n \in Pointer
      /\ a \in Int /\ b \in Int /\ -1 <= a /\ b <= TypeLimit /\ n \in Int /\ TypeLimit \in Nat
  BY AtIs, KeysAreNumbers
<1>2. i \in Nat /\ i > 0
  BY <1>1
<1>3. j \in Nat
  BY SetHeightAt, NearIs
<1>4. x \in LoopState /\ x.tree = t /\ x.node = n
  BY <1>1 DEF LoopState
<1> HIDE DEF i, x
<1>5. \E a2, b2 : /\ At(x.tree, x.node, S, a2, b2)
                  /\ i = TypeLimit + 2 - (b2 - a2)
                  /\ j = Near(SetHeight(x.tree, x.node), x.node, S, a2, b2)
  BY <1>4 DEF i
<1> HIDE DEF j
<1> QED BY <1>2, <1>3, <1>4, <1>5 DEF ToGo, i, j, x

\* Rebalancing ends, whatever heights are stored, and keeps a search tree of the
\* same nodes.
LEMMA RebalanceIs ==
    ASSUME NEW t, NEW n, NEW S, NEW a, NEW b, At(t, n, S, a, b)
    PROVE  Good(Rebalance(t, n)) /\ InTree(Rebalance(t, n)) = S
<1> DEFINE R == ToGo(S)
           x0 == [tree |-> t, node |-> n]
<1>1. PICK f : /\ IsLoop(f, LoopState, Arrived, OneTurn, ItsTree)
               /\ \A u, m : Rebalance(u, m) = f[[tree |-> u, node |-> m]]
  BY RebalanceLoop
<1>2. R \in [Nat -> [Nat -> SUBSET LoopState]]
  BY DEF ToGo
<1>3. ASSUME NEW i \in Nat, NEW j \in Nat, NEW x \in R[i][j], x \notin Arrived
      PROVE  \E i2, j2 \in Nat : /\ OneTurn[x] \in R[i2][j2]
                                 /\ i2 < i \/ (i2 = i /\ j2 < j)
  <2>1. x \in LoopState /\ x.node # NULL
    BY <1>3 DEF ToGo, Arrived
  <2>2. PICK c, d : /\ At(x.tree, x.node, S, c, d)
                    /\ i = TypeLimit + 2 - (d - c)
                    /\ j = Near(SetHeight(x.tree, x.node), x.node, S, c, d)
    BY <2>1 DEF ToGo
  <2> DEFINE r == Balance(x.tree, x.node)
             y == [tree |-> r.tree, node |-> r.node]
  <2>3. OneTurn[x] = r
    BY <2>1 DEF OneTurn
  <2>4. x.tree \in Tree /\ x.node \in Key
    BY <2>2, AtIs
  <2>5. r \in LoopState /\ r = y
    <3>1. r \in [tree : Tree, node : Pointer]
      BY <2>4, BalanceTree
    <3> HIDE DEF r
    <3> QED BY <3>1 DEF LoopState
  <2>6. i > 0
    BY <2>2, AtToGo
  <2>7. \/ /\ At(r.tree, r.node, S, c, d)
           /\ Near(SetHeight(r.tree, r.node), r.node, S, c, d) < j
        \/ r.node = NULL /\ Good(r.tree) /\ InTree(r.tree) = S
        \/ \E c2, d2 : At(r.tree, r.node, S, c2, d2) /\ d2 - c2 > d - c
    BY <2>2, BalanceTurn
  <2> HIDE DEF r
  <2>8. CASE /\ At(r.tree, r.node, S, c, d)
             /\ Near(SetHeight(r.tree, r.node), r.node, S, c, d) < j
    <3> DEFINE j2 == Near(SetHeight(r.tree, r.node), r.node, S, c, d)
    <3>1. j2 \in Nat /\ y \in R[i][j2]
      BY <2>2, <2>8, AtToGo
    <3> HIDE DEF j2, y, R
    <3>2. j2 < j
      BY <2>8 DEF j2
    <3> QED BY <2>3, <2>5, <3>1, <3>2
  <2>9. CASE r.node = NULL /\ Good(r.tree) /\ InTree(r.tree) = S
    <3>1. r \in R[0][0]
      BY <2>5, <2>9 DEF ToGo
    <3> QED BY <2>3, <2>6, <3>1
  <2>10. CASE \E c2, d2 : At(r.tree, r.node, S, c2, d2) /\ d2 - c2 > d - c
    <3>1. PICK c2, d2 : At(r.tree, r.node, S, c2, d2) /\ d2 - c2 > d - c
      BY <2>10
    <3> DEFINE i2 == TypeLimit + 2 - (d2 - c2)
               j2 == Near(SetHeight(r.tree, r.node), r.node, S, c2, d2)
    <3>2. i2 \in Nat /\ j2 \in Nat /\ y \in R[i2][j2]
      BY <3>1, AtToGo
    <3>3. i2 < i
      <4>1. c \in Int /\ d \in Int /\ c2 \in Int /\ d2 \in Int /\ TypeLimit \in Nat
        BY <2>2, <3>1, AtIs, KeysAreNumbers
      <4> QED BY <2>2, <3>1, <4>1
    <3> HIDE DEF i2, j2, y, R
    <3> QED BY <2>3, <2>5, <3>2, <3>3
  <2> QED BY <2>7, <2>8, <2>9, <2>10
<1> DEFINE i0 == TypeLimit + 2 - (b - a)
           j0 == Near(SetHeight(t, n), n, S, a, b)
<1>4. i0 \in Nat /\ j0 \in Nat /\ x0 \in R[i0][j0]
  BY AtToGo
<1> HIDE DEF R, x0, i0, j0
<1>5. PICK i \in Nat, j \in Nat :
         \E y \in R[i][j] : y \in Arrived /\ f[x0] = ItsTree[y]
  <2>1. Nearing(R, LoopState, Arrived, OneTurn)
    BY <1>2, <1>3 DEF Nearing
  <2>2. IsLoop(f, LoopState, Arrived, OneTurn, ItsTree)
    BY <1>1
  <2> QED BY <1>4, <2>1, <2>2, LoopEndsTwice
<1>6. PICK y \in R[i][j] : y \in Arrived /\ f[x0] = ItsTree[y]
  BY <1>5
<1>7. y \in LoopState /\ y.node = NULL /\ f[x0] = y.tree
  BY <1>6 DEF Arrived, ItsTree
<1>8. Good(y.tree) /\ InTree(y.tree) = S
  <2>1. \A c, d : ~ At(y.tree, y.node, S, c, d)
    BY <1>7, AtIs, KeysAreNumbers
  <2> QED BY <1>6, <1>7, <2>1 DEF R, ToGo
<1> QED BY <1>1, <1>7, <1>8 DEF x0

-----------------------------------------------------------------------------
(* Insertion.                                                              *)

\* The nodes N are linked as a search tree with the bounds lo and hi.
Shaped(t, N, lo, hi) ==
    /\ lo \in Bound /\ hi \in Bound
    /\ t.root = NULL => N = {}
    /\ t.root # NULL => /\ t.root \in N /\ t.parent[t.root] = NULL
                        /\ lo[t.root] = -1 /\ hi[t.root] = TypeLimit
    /\ \A y \in N :
         /\ lo[y] < y /\ y < hi[y]
         /\ t.left[y] # NULL => /\ t.left[y] \in N /\ t.parent[t.left[y]] = y
                                /\ lo[t.left[y]] = lo[y] /\ hi[t.left[y]] = y
         /\ t.right[y] # NULL => /\ t.right[y] \in N /\ t.parent[t.right[y]] = y
                                 /\ hi[t.right[y]] = hi[y] /\ lo[t.right[y]] = y
         /\ y # t.root => /\ t.parent[y] \in N
                          /\ y \in {t.left[t.parent[y]], t.right[t.parent[y]]}

LEMMA ShapedIs ==
    ASSUME NEW t \in Tree, NEW N \in SUBSET Key, NEW lo, NEW hi, Shaped(t, N, lo, hi)
    PROVE  Bounded(t, lo, hi) /\ InTree(t) = N
<1>1. /\ lo \in Bound /\ hi \in Bound
      /\ t.root = NULL => N = {}
      /\ t.root # NULL => /\ t.root \in N /\ t.parent[t.root] = NULL
                          /\ lo[t.root] = -1 /\ hi[t.root] = TypeLimit
  BY DEF Shaped
<1>2. \A y \in N :
        /\ lo[y] < y /\ y < hi[y]
        /\ t.left[y] # NULL => /\ t.left[y] \in N /\ t.parent[t.left[y]] = y
                               /\ lo[t.left[y]] = lo[y] /\ hi[t.left[y]] = y
        /\ t.right[y] # NULL => /\ t.right[y] \in N /\ t.parent[t.right[y]] = y
                                /\ hi[t.right[y]] = hi[y] /\ lo[t.right[y]] = y
        /\ y # t.root => /\ t.parent[y] \in N
                         /\ y \in {t.left[t.parent[y]], t.right[t.parent[y]]}
  BY DEF Shaped
<1>3. InTree(t) \subseteq N
  <2>1. Chained(t.left, t.right, N)
    BY <1>2 DEF Chained
  <2>2. t.root \in Pointer /\ t.root \in N \cup {NULL}
    BY <1>1, InTreeIs
  <2> QED BY <2>1, <2>2, BelowIs DEF InTree
<1>4. N \subseteq InTree(t)
  <2> DEFINE Room(y) == TypeLimit + 1 - (hi[y] - lo[y])
             B == {y \in N : y \notin InTree(t)}
             M == {Room(y) : y \in B}
  <2>1. \A y \in N : Room(y) \in Nat /\ lo[y] \in Int /\ hi[y] \in Int /\ y \in Nat
    <3>1. \A y \in Key : lo[y] \in -1 .. TypeLimit /\ hi[y] \in -1 .. TypeLimit
      BY <1>1 DEF Bound
    <3> QED BY <3>1, KeysAreNumbers
  <2>2. SUFFICES ASSUME B # {} PROVE FALSE
    OBVIOUS
  <2>3. M \in SUBSET Nat /\ M # {}
    <3> HIDE DEF Room
    <3> QED BY <2>1, <2>2
  <2>4. PICK k \in M : \A j \in M : k <= j
    <3> HIDE DEF M
    <3> QED BY <2>3, LeastExists
  <2>5. PICK y \in B : k = Room(y)
    OBVIOUS
  <2> HIDE DEF M
  <2>6. y \in N /\ y \notin InTree(t)
    OBVIOUS
  <2>7. y # t.root
    BY <2>6, InTreeIs, KeysAreNumbers
  <2> DEFINE z == t.parent[y]
  <2>8. z \in N /\ y \in {t.left[z], t.right[z]}
    BY <1>2, <2>6, <2>7
  <2>9. y # NULL
    BY <2>6, KeysAreNumbers
  <2>10. hi[z] - lo[z] > hi[y] - lo[y] /\ y \in {t.left[z], t.right[z]}
    <3> HIDE DEF z
    <3>1. /\ lo[z] < z /\ z < hi[z]
          /\ y = t.left[z] => lo[y] = lo[z] /\ hi[y] = z
          /\ y = t.right[z] => hi[y] = hi[z] /\ lo[y] = z
      BY <1>2, <2>8, <2>9
    <3> QED BY <2>1, <2>6, <2>8, <3>1
  <2>11. z \in InTree(t)
    <3> SUFFICES ASSUME z \notin InTree(t) PROVE FALSE
      OBVIOUS
    <3> HIDE DEF z
    <3>1. z \in B
      BY <2>8
    <3>2. Room(z) \in M
      <4> HIDE DEF Room
      <4> QED BY <3>1 DEF M
    <3>3. k <= Room(z)
      BY <2>4, <3>2
    <3>4. Room(z) < Room(y)
      BY <2>1, <2>6, <2>8, <2>10, KeysAreNumbers
    <3>5. Room(y) \in Nat /\ Room(z) \in Nat
      BY <2>1, <2>6, <2>8
    <3> HIDE DEF Room
    <3> QED BY <2>5, <3>3, <3>4, <3>5
  <2> HIDE DEF z
  <2> QED BY <2>6, <2>9, <2>10, <2>11, InTreeIs
<1>5. InTree(t) = N
  BY <1>3, <1>4
<1>6. Linked(t.left, t.right, t.parent, t.root, lo, hi)
  BY <1>2, <1>5 DEF Linked, InTree, Below
<1>7. \A x \in InTree(t) : lo[x] < x /\ x < hi[x]
  BY <1>2, <1>5
<1> QED BY <1>1, <1>5, <1>6, <1>7 DEF Bounded

LEMMA BoundedIsShaped ==
    ASSUME NEW t, NEW lo, NEW hi, Bounded(t, lo, hi)
    PROVE  Shaped(t, InTree(t), lo, hi)
<1>1. /\ t \in Tree /\ lo \in Bound /\ hi \in Bound
      /\ t.root # NULL => /\ t.parent[t.root] = NULL
                          /\ lo[t.root] = -1 /\ hi[t.root] = TypeLimit
  BY DEF Bounded
<1>2. /\ t.root = NULL => InTree(t) = {}
      /\ t.root # NULL => t.root \in InTree(t)
  BY <1>1, InTreeIs
<1>3. \A y \in InTree(t) :
        /\ lo[y] < y /\ y < hi[y]
        /\ t.left[y] # NULL => /\ t.left[y] \in InTree(t) /\ t.parent[t.left[y]] = y
                               /\ lo[t.left[y]] = lo[y] /\ hi[t.left[y]] = y
        /\ t.right[y] # NULL => /\ t.right[y] \in InTree(t) /\ t.parent[t.right[y]] = y
                                /\ hi[t.right[y]] = hi[y] /\ lo[t.right[y]] = y
  BY NodeIs
<1>4. \A y \in InTree(t) : y # t.root =>
         /\ t.parent[y] \in InTree(t)
         /\ y \in {t.left[t.parent[y]], t.right[t.parent[y]]}
  BY ParentIs
<1> QED BY <1>1, <1>2, <1>3, <1>4 DEF Shaped

\* What a node outside the tree points to does not matter.
LEMMA BlankIs ==
    ASSUME NEW t, Good(t), NEW k \in Key, k \notin InTree(t)
    PROVE  /\ Good(Blank(t, k)) /\ InTree(Blank(t, k)) = InTree(t)
           /\ Blank(t, k).root = t.root
           /\ Blank(t, k).left[k] = NULL /\ Blank(t, k).right[k] = NULL
           /\ Blank(t, k).parent[k] = NULL
<1> DEFINE u == Blank(t, k)
           N == InTree(t)
<1>1. PICK lo, hi : Bounded(t, lo, hi)
  BY DEF Good
<1>2. t \in Tree /\ N \in SUBSET Key
  <2>1. t \in Tree
    BY <1>1 DEF Bounded
  <2> QED BY <2>1, InTreeIs
<1>3. /\ u \in Tree /\ u.root = t.root
      /\ u.left = [t.left EXCEPT ![k] = NULL] /\ u.right = [t.right EXCEPT ![k] = NULL]
      /\ u.parent = [t.parent EXCEPT ![k] = NULL]
  <2>1. NULL \in Pointer
    BY KeysAreNumbers
  <2> QED BY <1>2, <2>1 DEF Blank, Tree
<1> HIDE DEF u
<1>4. /\ u.left[k] = NULL /\ u.right[k] = NULL /\ u.parent[k] = NULL
      /\ \A y \in Key : y # k => /\ u.left[y] = t.left[y] /\ u.right[y] = t.right[y]
                                 /\ u.parent[y] = t.parent[y]
  BY <1>2, <1>3 DEF Tree
<1>5. Shaped(t, N, lo, hi)
  BY <1>1, BoundedIsShaped
<1>6. Shaped(u, N, lo, hi)
  <2>1. \A y \in N : y \in Key /\ y # k
    BY <1>2
  <2> HIDE DEF N
  <2> QED BY <1>3, <1>4, <1>5, <2>1 DEF Shaped
<1>7. Bounded(u, lo, hi) /\ InTree(u) = N
  BY <1>2, <1>3, <1>6, ShapedIs
<1> QED BY <1>3, <1>4, <1>7 DEF Good, u

LEMMA FirstInserted ==
    ASSUME NEW t, Good(t), NEW k \in Key, t.root = NULL,
           t.left[k] = NULL, t.right[k] = NULL, t.parent[k] = NULL
    PROVE  LET u == [t EXCEPT !.root = k] IN Good(u) /\ InTree(u) = {k}
<1> DEFINE u == [t EXCEPT !.root = k]
           lo == [y \in Key |-> -1]
           hi == [y \in Key |-> TypeLimit]
<1>1. t \in Tree
  BY DEF Good, Bounded
<1>2. /\ u \in Tree /\ u.root = k /\ u.left = t.left /\ u.right = t.right
      /\ u.parent = t.parent
  BY <1>1, KeysAreNumbers DEF Tree
<1>3. lo \in Bound /\ hi \in Bound /\ lo[k] = -1 /\ hi[k] = TypeLimit
  BY KeysAreNumbers DEF Bound
<1> HIDE DEF u, lo, hi
<1>4. k \in Nat /\ k < TypeLimit /\ -1 < k /\ k # NULL
  BY KeysAreNumbers
<1>5. Shaped(u, {k}, lo, hi)
  BY <1>2, <1>3, <1>4 DEF Shaped
<1>6. Bounded(u, lo, hi) /\ InTree(u) = {k}
  BY <1>2, <1>5, ShapedIs
<1> QED BY <1>6 DEF Good, u

\* A new node below n, where the tree has room for k.
LEMMA PutBelow ==
    ASSUME NEW t, NEW lo, NEW hi, Bounded(t, lo, hi), NEW k \in Key, k \notin InTree(t),
           NEW n \in InTree(t), lo[n] < k, k < hi[n], t[Toward(k, n)][n] = NULL,
           t.left[k] = NULL, t.right[k] = NULL
    PROVE  LET u == [t EXCEPT ![Toward(k, n)][n] = k, !.parent[k] = n]
           IN  \E a, b : At(u, k, InTree(t) \cup {k}, a, b)
<1> DEFINE s == Toward(k, n)
           u == [t EXCEPT ![s][n] = k, !.parent[k] = n]
           S == InTree(t)
           N == S \cup {k}
           a == IF k < n THEN lo[n] ELSE n
           b == IF k < n THEN n ELSE hi[n]
           lo2 == [lo EXCEPT ![k] = a]
           hi2 == [hi EXCEPT ![k] = b]
<1>1. t \in Tree /\ lo \in Bound /\ hi \in Bound
  BY DEF Bounded
<1>2. /\ S \in SUBSET Key /\ n \in Key /\ n # k /\ n \in Nat /\ k \in Nat
      /\ n # NULL /\ k # NULL
      /\ lo[n] \in Int /\ hi[n] \in Int /\ lo[n] < n /\ n < hi[n]
      /\ -1 <= lo[n] /\ hi[n] <= TypeLimit /\ n \in Pointer /\ k \in Pointer
      /\ k < TypeLimit /\ n < TypeLimit /\ TypeLimit \in Nat
  <2>1. S \in SUBSET Key
    BY <1>1, InTreeIs
  <2> QED BY <2>1, NodeIs, KeysAreNumbers
<1>3. s = (IF k < n THEN "left" ELSE "right")
  BY DEF Toward
<1> HIDE DEF s
<1>4. /\ u \in Tree /\ u.root = t.root
      /\ u.left = (IF k < n THEN [t.left EXCEPT ![n] = k] ELSE t.left)
      /\ u.right = (IF k < n THEN t.right ELSE [t.right EXCEPT ![n] = k])
      /\ u.parent = [t.parent EXCEPT ![k] = n]
  <2>1. CASE k < n
    <3>1. u = [t EXCEPT !.left[n] = k, !.parent[k] = n]
      BY <1>3, <2>1
    <3> HIDE DEF u
    <3> QED BY <1>1, <1>2, <2>1, <3>1 DEF Tree
  <2>2. CASE ~ (k < n)
    <3>1. u = [t EXCEPT !.right[n] = k, !.parent[k] = n]
      BY <1>3, <2>2
    <3> HIDE DEF u
    <3> QED BY <1>1, <1>2, <2>2, <3>1 DEF Tree
  <2> QED BY <2>1, <2>2
<1>5. (k < n => t.left[n] = NULL) /\ (~ (k < n) => t.right[n] = NULL)
  BY <1>3 DEF s
<1> HIDE DEF u
<1>6. /\ \A y \in Key : /\ u.left[y] = IF y = n /\ k < n THEN k ELSE t.left[y]
                        /\ u.right[y] = IF y = n /\ ~ (k < n) THEN k ELSE t.right[y]
                        /\ u.parent[y] = IF y = k THEN n ELSE t.parent[y]
  BY <1>1, <1>2, <1>4 DEF Tree
<1>7. a \in -1 .. TypeLimit /\ b \in -1 .. TypeLimit /\ a < k /\ k < b /\ a \in Int /\ b \in Int
  BY <1>2
<1>8. /\ lo2 \in Bound /\ hi2 \in Bound
      /\ \A y \in Key : lo2[y] = (IF y = k THEN a ELSE lo[y])
                        /\ hi2[y] = (IF y = k THEN b ELSE hi[y])
  <2> HIDE DEF a, b
  <2> QED BY <1>1, <1>7 DEF Bound
<1>9. Shaped(t, S, lo, hi)
  BY BoundedIsShaped
<1> HIDE DEF lo2, hi2, S
<1>10. u.root \in N /\ u.root # NULL /\ u.parent[u.root] = NULL
       /\ lo2[u.root] = -1 /\ hi2[u.root] = TypeLimit
  <2>1. t.root # NULL /\ t.root \in S /\ t.root # k
    <3>1. S # {} /\ k \notin S
      BY DEF S
    <3> QED BY <1>9, <3>1 DEF Shaped
  <2>2. t.root \in Key
    BY <1>2, <2>1
  <2> QED BY <1>4, <1>6, <1>8, <1>9, <2>1, <2>2 DEF Shaped
<1>11. ASSUME NEW y \in S
       PROVE  /\ lo2[y] < y /\ y < hi2[y]
              /\ u.left[y] # NULL => /\ u.left[y] \in N /\ u.parent[u.left[y]] = y
                                     /\ lo2[u.left[y]] = lo2[y] /\ hi2[u.left[y]] = y
              /\ u.right[y] # NULL => /\ u.right[y] \in N /\ u.parent[u.right[y]] = y
                                      /\ hi2[u.right[y]] = hi2[y] /\ lo2[u.right[y]] = y
              /\ y # u.root => /\ u.parent[y] \in N
                               /\ y \in {u.left[u.parent[y]], u.right[u.parent[y]]}
  <2>1. /\ lo[y] < y /\ y < hi[y]
        /\ t.left[y] # NULL => /\ t.left[y] \in S /\ t.parent[t.left[y]] = y
                               /\ lo[t.left[y]] = lo[y] /\ hi[t.left[y]] = y
        /\ t.right[y] # NULL => /\ t.right[y] \in S /\ t.parent[t.right[y]] = y
                                /\ hi[t.right[y]] = hi[y] /\ lo[t.right[y]] = y
        /\ y # t.root => /\ t.parent[y] \in S
                         /\ y \in {t.left[t.parent[y]], t.right[t.parent[y]]}
    BY <1>9 DEF Shaped
  <2>2. y \in Key /\ y # k /\ k \notin S /\ y # NULL
    BY <1>2, KeysAreNumbers DEF S
  <2>3. lo2[y] = lo[y] /\ hi2[y] = hi[y] /\ lo2[k] = a /\ hi2[k] = b
    BY <1>8, <2>2
  <2>4. u.left[y] # NULL => /\ u.left[y] \in N /\ u.parent[u.left[y]] = y
                            /\ lo2[u.left[y]] = lo2[y] /\ hi2[u.left[y]] = y
    <3>1. CASE y = n /\ k < n
      BY <1>6, <2>2, <2>3, <3>1
    <3>2. CASE ~ (y = n /\ k < n)
      <4>1. u.left[y] = t.left[y]
        BY <1>6, <2>2, <3>2
      <4>2. t.left[y] # NULL => t.left[y] \in Key /\ t.left[y] # k
        BY <1>2, <2>1, <2>2
      <4> QED BY <1>6, <1>8, <2>1, <2>3, <4>1, <4>2
    <3> QED BY <3>1, <3>2
  <2>5. u.right[y] # NULL => /\ u.right[y] \in N /\ u.parent[u.right[y]] = y
                             /\ hi2[u.right[y]] = hi2[y] /\ lo2[u.right[y]] = y
    <3>1. CASE y = n /\ ~ (k < n)
      BY <1>6, <2>2, <2>3, <3>1
    <3>2. CASE ~ (y = n /\ ~ (k < n))
      <4>1. u.right[y] = t.right[y]
        BY <1>6, <2>2, <3>2
      <4>2. t.right[y] # NULL => t.right[y] \in Key /\ t.right[y] # k
        BY <1>2, <2>1, <2>2
      <4> QED BY <1>6, <1>8, <2>1, <2>3, <4>1, <4>2
    <3> QED BY <3>1, <3>2
  <2>6. y # u.root => /\ u.parent[y] \in N
                      /\ y \in {u.left[u.parent[y]], u.right[u.parent[y]]}
    <3> SUFFICES ASSUME y # t.root
                 PROVE  /\ u.parent[y] \in N
                        /\ y \in {u.left[u.parent[y]], u.right[u.parent[y]]}
      BY <1>4
    <3>1. u.parent[y] = t.parent[y] /\ t.parent[y] \in S /\ t.parent[y] \in Key
      BY <1>2, <1>6, <2>1, <2>2
    <3>2. y \in {t.left[t.parent[y]], t.right[t.parent[y]]}
      BY <2>1
    <3> QED BY <1>5, <1>6, <2>2, <3>1, <3>2
  <2> QED BY <2>1, <2>3, <2>4, <2>5, <2>6
<1>12. /\ lo2[k] < k /\ k < hi2[k] /\ u.left[k] = NULL /\ u.right[k] = NULL
       /\ u.parent[k] \in N /\ k \in {u.left[u.parent[k]], u.right[u.parent[k]]}
  <2>1. n \in S
    BY DEF S
  <2> HIDE DEF a, b
  <2> QED BY <1>2, <1>6, <1>7, <1>8, <2>1
<1>13. Shaped(u, N, lo2, hi2)
  <2>1. \A y \in N : /\ lo2[y] < y /\ y < hi2[y]
                     /\ u.left[y] # NULL =>
                           /\ u.left[y] \in N /\ u.parent[u.left[y]] = y
                           /\ lo2[u.left[y]] = lo2[y] /\ hi2[u.left[y]] = y
                     /\ u.right[y] # NULL =>
                           /\ u.right[y] \in N /\ u.parent[u.right[y]] = y
                           /\ hi2[u.right[y]] = hi2[y] /\ lo2[u.right[y]] = y
                     /\ y # u.root =>
                           /\ u.parent[y] \in N
                           /\ y \in {u.left[u.parent[y]], u.right[u.parent[y]]}
    BY <1>11, <1>12
  <2> HIDE DEF N
  <2> QED BY <1>8, <1>10, <2>1 DEF Shaped
<1>14. Bounded(u, lo2, hi2) /\ InTree(u) = N
  BY <1>2, <1>4, <1>13, ShapedIs
<1>15. Rooted(u, k) = u
  <2>1. u.parent[k] = n
    BY <1>6
  <2> QED BY <1>2, <2>1 DEF Rooted
<1>16. At(u, k, N, lo2[k], hi2[k])
  BY <1>4, <1>14, <1>15 DEF At
<1> QED BY <1>16 DEF u, N, S, s

\* An insertion keeps a search tree and adds k to its nodes.
LEMMA InsertedIs ==
    ASSUME NEW t, Good(t), NEW k \in Key
    PROVE  LET u == Inserted(IF Found(t, k) THEN t ELSE Blank(t, k), k)
           IN  Good(u) /\ InTree(u) = InTree(t) \cup {k}
<1> DEFINE v == IF Found(t, k) THEN t ELSE Blank(t, k)
           n == Stop(v, v.root, k)
           s == Toward(k, n)
           w == [v EXCEPT ![s][n] = k, !.parent[k] = n]
<1>1. /\ Good(v) /\ InTree(v) = InTree(t)
      /\ k \notin InTree(t) =>
            v.left[k] = NULL /\ v.right[k] = NULL /\ v.parent[k] = NULL
  <2>1. CASE Found(t, k)
    BY <2>1, FoundIs
  <2>2. CASE ~ Found(t, k)
    <3>1. k \notin InTree(t)
      BY <2>2, FoundIs
    <3> QED BY <2>2, <3>1, BlankIs
  <2> QED BY <2>1, <2>2
<1> HIDE DEF v
<1>2. PICK lo, hi : Bounded(v, lo, hi)
  BY <1>1 DEF Good
<1>3. v \in Tree
  BY <1>2 DEF Bounded
<1>4. CASE v.root = NULL
  <2>1. InTree(v) = {}
    BY <1>3, <1>4, InTreeIs
  <2>2. Inserted(v, k) = [v EXCEPT !.root = k]
    BY <1>4 DEF Inserted
  <2>3. /\ Good([v EXCEPT !.root = k])
        /\ InTree([v EXCEPT !.root = k]) = {k}
    BY <1>1, <1>4, <2>1, FirstInserted
  <2> QED BY <1>1, <2>1, <2>2, <2>3 DEF v
<1>5. CASE v.root # NULL
  <2>1. /\ n \in InTree(v) /\ n \in Key /\ lo[n] < k /\ k < hi[n]
        /\ n = k \/ v[s][n] = NULL
    BY <1>2, <1>5, StopIs
  <2>2. Inserted(v, k) = IF n = k THEN v ELSE Rebalance(w, k)
    BY <1>5 DEF Inserted
  <2> HIDE DEF n
  <2>3. CASE n = k
    <3>1. InTree(v) \cup {k} = InTree(v)
      BY <2>1, <2>3
    <3> QED BY <1>1, <2>2, <2>3, <3>1 DEF v
  <2>4. CASE n # k
    <3>1. ~ Found(v, k)
      BY <1>5, <2>4 DEF Found, n
    <3>2. k \notin InTree(v)
      BY <1>1, <3>1, FoundIs
    <3>3. v.left[k] = NULL /\ v.right[k] = NULL /\ v[s][n] = NULL
      BY <1>1, <2>1, <2>4, <3>2
    <3>4. \E a, b : At(w, k, InTree(v) \cup {k}, a, b)
      BY <1>2, <2>1, <3>2, <3>3, PutBelow
    <3> HIDE DEF w
    <3>5. Good(Rebalance(w, k)) /\ InTree(Rebalance(w, k)) = InTree(v) \cup {k}
      BY <3>4, RebalanceIs
    <3> QED BY <1>1, <2>2, <2>4, <3>5 DEF v
  <2> QED BY <2>3, <2>4
<1> QED BY <1>4, <1>5

-----------------------------------------------------------------------------
(* Removal: what takes the place of d.                                     *)

\* Nothing is left of d: what is right of it moves up.
LEMMA DetachLast ==
    ASSUME NEW t, NEW lo, NEW hi, Bounded(t, lo, hi), NEW d \in InTree(t),
           t.left[d] = NULL
    PROVE  LET r == Detach(t, d, NULL)
               N == InTree(t) \ {d}
           IN  \/ r.from = NULL /\ Good(r.tree) /\ InTree(r.tree) = N
               \/ \E a, b : At(r.tree, r.from, N, a, b)
<1> DEFINE r == Detach(t, d, NULL)
           S == InTree(t)
           N == S \ {d}
           c == t.right[d]
           p == t.parent[d]
           v == SetParent(t, c, p)
           u == SetLink(v, p, d, c)
           lo2 == [y \in Key |-> IF lo[y] = d THEN lo[d] ELSE lo[y]]
<1>1. t \in Tree /\ lo \in Bound /\ hi \in Bound
  BY DEF Bounded
<1>2. /\ S \in SUBSET Key /\ d \in Key /\ d # NULL /\ d \in Nat /\ d \in S
      /\ c \in Pointer /\ p \in Pointer
      /\ lo[d] \in Int /\ hi[d] \in Int /\ lo[d] < d /\ d < hi[d]
  <2>1. S \in SUBSET Key
    BY <1>1, InTreeIs
  <2> QED BY <2>1, NodeIs
<1>3. r.tree = u /\ r.from = p
  BY DEF Detach
<1> HIDE DEF r
<1>4. Shaped(t, S, lo, hi)
  BY BoundedIsShaped
<1>5. \A y \in S :
        /\ lo[y] < y /\ y < hi[y] /\ y \in Key /\ y # NULL /\ y \in Nat
        /\ lo[y] \in Int /\ hi[y] \in Int
        /\ t.left[y] # NULL => /\ t.left[y] \in S /\ t.parent[t.left[y]] = y
                               /\ lo[t.left[y]] = lo[y] /\ hi[t.left[y]] = y
        /\ t.right[y] # NULL => /\ t.right[y] \in S /\ t.parent[t.right[y]] = y
                                /\ hi[t.right[y]] = hi[y] /\ lo[t.right[y]] = y
        /\ y # t.root => /\ t.parent[y] \in S
                         /\ y \in {t.left[t.parent[y]], t.right[t.parent[y]]}
  <2>1. \A y \in S : /\ y \in Key /\ y # NULL /\ y \in Nat
                     /\ lo[y] \in Int /\ hi[y] \in Int
    BY NodeIs
  <2> QED BY <1>4, <2>1 DEF Shaped
<1>6. /\ t.root # NULL /\ t.root \in S /\ t.parent[t.root] = NULL
      /\ lo[t.root] = -1 /\ hi[t.root] = TypeLimit
  BY <1>2, <1>4 DEF Shaped
<1>7. p = NULL <=> d = t.root
  BY <1>2, <1>5, <1>6
<1>8. p # NULL => p \in S /\ p \in Key /\ p # d /\ d \in {t.left[p], t.right[p]}
                  /\ lo[p] # d /\ (c # NULL => p # c)
  <2> SUFFICES ASSUME p # NULL
               PROVE  p \in S /\ p \in Key /\ p # d /\ d \in {t.left[p], t.right[p]}
                      /\ lo[p] # d /\ (c # NULL => p # c)
    OBVIOUS
  <2>1. p \in S /\ p \in Key /\ d \in {t.left[p], t.right[p]}
    BY <1>2, <1>5, <1>7
  <2> HIDE DEF p
  <2>2. d = t.left[p] => hi[d] = p /\ lo[d] = lo[p]
    BY <1>2, <1>5, <2>1
  <2>3. d = t.right[p] => lo[d] = p /\ hi[d] = hi[p]
    BY <1>2, <1>5, <2>1
  <2>4. c # NULL => c < hi[c] /\ hi[c] = hi[d] /\ lo[c] = d /\ lo[c] < c /\ c \in Nat
    BY <1>2, <1>5
  <2> HIDE DEF c
  <2>5. p \in Nat /\ lo[p] \in Int /\ hi[p] \in Int /\ lo[p] < p /\ p < hi[p]
    BY <1>5, <2>1
  <2> QED BY <1>2, <2>1, <2>2, <2>3, <2>4, <2>5
<1> HIDE DEF c, p
<1>9. /\ v \in Tree /\ v.left = t.left /\ v.right = t.right /\ v.root = t.root
      /\ \A y \in Key : v.parent[y] = IF y = c THEN p ELSE t.parent[y]
  BY <1>1, <1>2, SetParentIs
<1> HIDE DEF v
<1>10. /\ u \in Tree /\ u.parent = v.parent
       /\ p = NULL => u.left = v.left /\ u.right = v.right /\ u.root = c
       /\ p # NULL =>
            /\ u.root = v.root
            /\ \A y \in Key :
                 /\ u.left[y] = IF y = p /\ v.left[p] = d THEN c ELSE v.left[y]
                 /\ u.right[y] = IF y = p /\ v.left[p] # d THEN c ELSE v.right[y]
  <2>1. v \in Tree /\ p \in Pointer /\ d \in Key /\ c \in Pointer
    BY <1>2, <1>9
  <2> QED BY <2>1, SetLinkIs
<1> HIDE DEF u
<1>11. p # NULL => (t.left[p] = d /\ t.right[p] # d) \/ (t.left[p] # d /\ t.right[p] = d)
  <2> SUFFICES ASSUME p # NULL, t.left[p] = d, t.right[p] = d PROVE FALSE
    BY <1>8
  <2>1. hi[d] = p /\ lo[d] = p
    BY <1>2, <1>5, <1>8
  <2> QED BY <1>2, <2>1
<1>12. /\ \A y \in Key : /\ u.parent[y] = IF y = c THEN p ELSE t.parent[y]
                         /\ u.left[y] = IF y = p /\ t.left[y] = d THEN c ELSE t.left[y]
                         /\ u.right[y] = IF y = p /\ t.right[y] = d THEN c ELSE t.right[y]
       /\ u.root = IF p = NULL THEN c ELSE t.root
  <2>1. CASE p = NULL
    BY <1>9, <1>10, <2>1, KeysAreNumbers
  <2>2. CASE p # NULL
    <3>1. \A y \in Key :
             /\ u.left[y] = IF y = p /\ t.left[p] = d THEN c ELSE t.left[y]
             /\ u.right[y] = IF y = p /\ t.left[p] # d THEN c ELSE t.right[y]
      BY <1>9, <1>10, <2>2
    <3>2. \A y \in Key : u.parent[y] = IF y = c THEN p ELSE t.parent[y]
      BY <1>9, <1>10
    <3>3. u.root = t.root
      BY <1>9, <1>10, <2>2
    <3> QED BY <1>11, <2>2, <3>1, <3>2, <3>3
  <2> QED BY <2>1, <2>2
<1>13. lo2 \in Bound /\ \A y \in Key : lo2[y] = IF lo[y] = d THEN lo[d] ELSE lo[y]
  BY <1>1, <1>2 DEF Bound
<1> HIDE DEF lo2
<1>14. c # NULL => /\ c \in S /\ c # d /\ t.parent[c] = d
                   /\ lo[c] = d /\ hi[c] = hi[d] /\ c \in Key
  BY <1>2, <1>5 DEF c
<1>15. ASSUME NEW y \in N
       PROVE  /\ lo2[y] < y /\ y < hi[y]
              /\ u.left[y] # NULL => /\ u.left[y] \in N /\ u.parent[u.left[y]] = y
                                     /\ lo2[u.left[y]] = lo2[y] /\ hi[u.left[y]] = y
              /\ u.right[y] # NULL => /\ u.right[y] \in N /\ u.parent[u.right[y]] = y
                                      /\ hi[u.right[y]] = hi[y] /\ lo2[u.right[y]] = y
              /\ y # u.root => /\ u.parent[y] \in N
                               /\ y \in {u.left[u.parent[y]], u.right[u.parent[y]]}
  <2>1. /\ lo[y] < y /\ y < hi[y] /\ y \in Key /\ y # NULL /\ y \in Nat
        /\ lo[y] \in Int /\ hi[y] \in Int /\ y \in S /\ y # d
        /\ t.left[y] # NULL => /\ t.left[y] \in S /\ t.parent[t.left[y]] = y
                               /\ lo[t.left[y]] = lo[y] /\ hi[t.left[y]] = y
                               /\ t.left[y] \in Key
        /\ t.right[y] # NULL => /\ t.right[y] \in S /\ t.parent[t.right[y]] = y
                                /\ hi[t.right[y]] = hi[y] /\ lo[t.right[y]] = y
                                /\ t.right[y] \in Key
        /\ y # t.root => /\ t.parent[y] \in S
                         /\ y \in {t.left[t.parent[y]], t.right[t.parent[y]]}
    BY <1>2, <1>5
  <2>2. lo2[y] < y
    BY <1>2, <1>13, <2>1
  <2>3. u.left[y] # NULL => /\ u.left[y] \in N /\ u.parent[u.left[y]] = y
                            /\ lo2[u.left[y]] = lo2[y] /\ hi[u.left[y]] = y
    <3>1. CASE y = p /\ t.left[y] = d
      <4>1. lo[d] = lo[p] /\ hi[d] = p
        BY <1>2, <2>1, <3>1
      <4> QED BY <1>2, <1>8, <1>12, <1>13, <1>14, <2>1, <3>1, <4>1
    <3>2. CASE ~ (y = p /\ t.left[y] = d)
      <4>1. u.left[y] = t.left[y]
        BY <1>12, <2>1, <3>2
      <4>2. t.left[y] # NULL => t.left[y] # d /\ t.left[y] # c
        BY <1>14, <2>1, <3>2, <1>2 DEF p
      <4>3. ASSUME NEW z \in Key, z # c, t.parent[z] = y, lo[z] = lo[y]
            PROVE  u.parent[z] = y /\ lo2[z] = lo2[y]
        BY <1>12, <1>13, <2>1, <4>3
      <4> QED BY <2>1, <4>1, <4>2, <4>3
    <3> QED BY <3>1, <3>2
  <2>4. u.right[y] # NULL => /\ u.right[y] \in N /\ u.parent[u.right[y]] = y
                             /\ hi[u.right[y]] = hi[y] /\ lo2[u.right[y]] = y
    <3>1. CASE y = p /\ t.right[y] = d
      <4>1. lo[d] = p /\ hi[d] = hi[p]
        BY <1>2, <2>1, <3>1
      <4> QED BY <1>2, <1>8, <1>12, <1>13, <1>14, <2>1, <3>1, <4>1
    <3>2. CASE ~ (y = p /\ t.right[y] = d)
      <4>1. u.right[y] = t.right[y]
        BY <1>12, <2>1, <3>2
      <4>2. t.right[y] # NULL => t.right[y] # d /\ t.right[y] # c
        BY <1>14, <2>1, <3>2, <1>2 DEF p
      <4>3. ASSUME NEW z \in Key, z # c, t.parent[z] = y, lo[z] = y
            PROVE  u.parent[z] = y /\ lo2[z] = y
        BY <1>12, <1>13, <2>1, <4>3
      <4> QED BY <2>1, <4>1, <4>2, <4>3
    <3> QED BY <3>1, <3>2
  <2>5. y # u.root => /\ u.parent[y] \in N
                      /\ y \in {u.left[u.parent[y]], u.right[u.parent[y]]}
    <3> SUFFICES ASSUME y # u.root
                 PROVE  /\ u.parent[y] \in N
                        /\ y \in {u.left[u.parent[y]], u.right[u.parent[y]]}
      OBVIOUS
    <3>1. CASE y = c
      <4>1. p # NULL
        BY <1>12, <3>1
      <4>2. u.parent[y] = p /\ p \in N
        BY <1>8, <1>12, <2>1, <3>1, <4>1
      <4> QED BY <1>8, <1>12, <3>1, <4>1, <4>2
    <3>2. CASE y # c
      <4>1. y # t.root
        <5>1. CASE p = NULL
          BY <1>7, <2>1, <5>1
        <5>2. CASE p # NULL
          BY <1>12, <5>2
        <5> QED BY <5>1, <5>2
      <4> DEFINE z == t.parent[y]
      <4>2. z \in S /\ y \in {t.left[z], t.right[z]} /\ u.parent[y] = z /\ z \in Key
        BY <1>2, <1>12, <2>1, <3>2, <4>1
      <4> HIDE DEF z
      <4>3. z # d
        BY <2>1, <3>2, <4>2 DEF c
      <4>4. y \in {u.left[z], u.right[z]}
        BY <1>12, <2>1, <4>2
      <4> QED BY <4>2, <4>3, <4>4
    <3> QED BY <3>1, <3>2
  <2> QED BY <2>1, <2>2, <2>3, <2>4, <2>5
<1>16. /\ u.root = NULL => N = {}
       /\ u.root # NULL => /\ u.root \in N /\ u.parent[u.root] = NULL
                           /\ lo2[u.root] = -1 /\ hi[u.root] = TypeLimit
  <2>1. CASE p = NULL
    <3>1. u.root = c /\ d = t.root
      BY <1>7, <1>12, <2>1
    <3>2. c # NULL => /\ c \in N /\ u.parent[c] = NULL
                      /\ lo2[c] = -1 /\ hi[c] = TypeLimit
      BY <1>6, <1>12, <1>13, <1>14, <2>1, <3>1
    <3>3. c = NULL => N = {}
      <4> SUFFICES ASSUME c = NULL PROVE S \subseteq {d}
        OBVIOUS
      <4>1. Chained(t.left, t.right, {d}) /\ {d} \in SUBSET Key
        BY <1>2 DEF Chained, c
      <4>2. t.root \in Pointer /\ t.root \in {d} \cup {NULL}
        BY <1>1, <3>1, InTreeIs
      <4> QED BY <1>1, <4>1, <4>2, BelowIs DEF InTree
    <3> QED BY <3>1, <3>2, <3>3
  <2>2. CASE p # NULL
    <3>1. u.root = t.root /\ t.root # d
      BY <1>7, <1>12, <2>2
    <3>2. t.root # c
      BY <1>2, <1>6, <1>14
    <3>3. t.root \in Key /\ lo[t.root] # d
      BY <1>2, <1>6
    <3> QED BY <1>6, <1>12, <1>13, <3>1, <3>2, <3>3
  <2> QED BY <2>1, <2>2
<1>17. Shaped(u, N, lo2, hi)
  <2> HIDE DEF N
  <2> QED BY <1>1, <1>13, <1>15, <1>16 DEF Shaped
<1>18. Bounded(u, lo2, hi) /\ InTree(u) = N
  BY <1>2, <1>10, <1>17, ShapedIs
<1>19. CASE p = NULL
  BY <1>3, <1>18, <1>19 DEF Good, r, S
<1>20. CASE p # NULL
  <2>1. p \in N /\ p \in Key
    BY <1>8, <1>20
  <2>2. Rooted(u, p) = u
    <3>1. CASE u.parent[p] = NULL
      <4>1. p = u.root
        BY <1>15, <2>1, <3>1, KeysAreNumbers, <1>2
      <4>2. Rooted(u, p) = [u EXCEPT !.root = u.root]
        BY <3>1, <4>1 DEF Rooted
      <4> QED BY <1>10, <4>2 DEF Tree
    <3>2. CASE u.parent[p] # NULL
      BY <3>2 DEF Rooted
    <3> QED BY <3>1, <3>2
  <2>3. At(u, p, N, lo2[p], hi[p])
    BY <1>10, <1>18, <2>1, <2>2 DEF At
  <2> QED BY <1>3, <2>3 DEF r, S
<1> QED BY <1>19, <1>20

LEMMA AtAny ==
    ASSUME NEW t, NEW lo, NEW hi, Bounded(t, lo, hi), NEW x \in InTree(t)
    PROVE  At(t, x, InTree(t), lo[x], hi[x])
<1>1. t \in Tree /\ x \in Key
  <2>1. t \in Tree
    BY DEF Bounded
  <2> QED BY <2>1, InTreeIs
<1>2. Rooted(t, x) = t
  <2>1. CASE t.parent[x] = NULL
    <3>1. x = t.root
      BY <2>1, ParentIs
    <3>2. Rooted(t, x) = [t EXCEPT !.root = t.root]
      BY <2>1, <3>1 DEF Rooted
    <3> QED BY <1>1, <3>2 DEF Tree
  <2>2. CASE t.parent[x] # NULL
    BY <2>2 DEF Rooted
  <2> QED BY <2>1, <2>2
<1> QED BY <1>1, <1>2 DEF At

\* Every descendant of x but x itself has its parent among them.
LEMMA ParentBelow ==
    ASSUME NEW t, NEW lo, NEW hi, Bounded(t, lo, hi), NEW x \in InTree(t),
           NEW z \in Below(t, x), z # x
    PROVE  t.parent[z] \in Below(t, x)
<1> DEFINE C == {y \in Below(t, x) : y = x \/ t.parent[y] \in Below(t, x)}
<1>1. t \in Tree /\ x \in Pointer /\ x \in Below(t, x) /\ Below(t, x) \subseteq InTree(t)
  BY InTreeIs DEF Bounded
<1>2. C \in SUBSET Key /\ x \in C \cup {NULL}
  BY <1>1, BelowIs
<1>3. ASSUME NEW y \in C PROVE t.left[y] \in C \cup {NULL} /\ t.right[y] \in C \cup {NULL}
  <2>1. y \in InTree(t) /\ y \in Below(t, x)
    BY <1>1
  <2>2. /\ t.left[y] \in Below(t, x) \cup {NULL}
        /\ t.right[y] \in Below(t, x) \cup {NULL}
    BY <1>1, <2>1, BelowIs
  <2>3. /\ t.left[y] # NULL => t.parent[t.left[y]] = y
        /\ t.right[y] # NULL => t.parent[t.right[y]] = y
    BY <2>1, NodeIs
  <2> QED BY <2>1, <2>2, <2>3
<1>4. Below(t, x) \subseteq C
  <2> HIDE DEF C
  <2>1. Chained(t.left, t.right, C)
    BY <1>3 DEF Chained
  <2> QED BY <1>1, <1>2, <2>1, BelowIs
<1> QED BY <1>4

\* A node whose bounds d is one of lies within the bounds of d.
LEMMA BoundIs ==
    ASSUME NEW t, NEW lo, NEW hi, Bounded(t, lo, hi), NEW d \in InTree(t),
           NEW z \in InTree(t)
    PROVE  /\ hi[z] = d => lo[d] <= lo[z]
           /\ lo[z] = d => hi[z] <= hi[d]
<1> DEFINE C == {y \in InTree(t) : /\ hi[y] = d => lo[d] <= lo[y]
                                   /\ lo[y] = d => hi[y] <= hi[d]}
<1>1. t \in Tree /\ t.root \in Pointer /\ InTree(t) = Below(t, t.root)
  BY InTreeIs DEF Bounded, InTree
<1>2. d \in Key /\ d \in Nat /\ d < TypeLimit /\ lo[d] \in Int /\ hi[d] \in Int
      /\ lo[d] < d /\ d < hi[d] /\ TypeLimit \in Nat
  BY NodeIs, KeysAreNumbers
<1>3. C \in SUBSET Key /\ t.root \in C \cup {NULL}
  <2>1. C \in SUBSET Key
    BY <1>1, InTreeIs
  <2>2. t.root # NULL => t.root \in InTree(t) /\ lo[t.root] = -1 /\ hi[t.root] = TypeLimit
    BY <1>1, InTreeIs DEF Bounded
  <2> QED BY <1>2, <2>1, <2>2
<1>4. ASSUME NEW y \in C PROVE t.left[y] \in C \cup {NULL} /\ t.right[y] \in C \cup {NULL}
  <2>1. /\ y \in InTree(t) /\ (hi[y] = d => lo[d] <= lo[y])
        /\ (lo[y] = d => hi[y] <= hi[d])
    OBVIOUS
  <2> HIDE DEF C
  <2>2. /\ lo[y] < y /\ y < hi[y] /\ y \in Nat /\ lo[y] \in Int /\ hi[y] \in Int
        /\ t.left[y] # NULL => /\ t.left[y] \in InTree(t)
                               /\ lo[t.left[y]] = lo[y] /\ hi[t.left[y]] = y
        /\ t.right[y] # NULL => /\ t.right[y] \in InTree(t)
                                /\ hi[t.right[y]] = hi[y] /\ lo[t.right[y]] = y
    BY <2>1, NodeIs
  <2>3. t.left[y] # NULL => t.left[y] \in C
    BY <1>2, <2>1, <2>2 DEF C
  <2>4. t.right[y] # NULL => t.right[y] \in C
    BY <1>2, <2>1, <2>2 DEF C
  <2> QED BY <2>3, <2>4
<1>5. InTree(t) \subseteq C
  <2> HIDE DEF C
  <2>1. Chained(t.left, t.right, C)
    BY <1>4 DEF Chained
  <2> QED BY <1>1, <1>3, <2>1, BelowIs
<1> QED BY <1>5

\* n takes the place of d; it was the left child of d, or it leaves its parent.
Spliced(t, d, n, u) ==
    LET p == t.parent[d]
        q == t.parent[n]
        near == t.left[d] = n
    IN  /\ u.root = IF p = NULL THEN n ELSE t.root
        /\ \A y \in Key :
             /\ u.left[y] = IF y = p /\ t.left[y] = d THEN n
                            ELSE IF y = n /\ ~ near THEN t.left[d] ELSE t.left[y]
             /\ u.right[y] = IF y = p /\ t.left[y] # d THEN n
                             ELSE IF y = n THEN t.right[d]
                             ELSE IF y = q /\ ~ near THEN NULL ELSE t.right[y]
             /\ u.parent[y] = IF y = n THEN p ELSE IF y = t.right[d] THEN n
                              ELSE IF y = t.left[d] /\ ~ near THEN n ELSE t.parent[y]

LEMMA SplicedIs ==
    ASSUME NEW t \in Tree, NEW d \in Key, NEW n \in Key, n # d, t.parent[d] # n,
           t.left[d] # n => t.parent[n] \in Key
    PROVE  LET r == Detach(t, d, n) IN
           /\ r.tree \in Tree /\ Spliced(t, d, n, r.tree)
           /\ r.from = IF t.left[d] = n /\ t.left[n] # NULL THEN t.left[n] ELSE n
<1> DEFINE near == t.left[d] = n
           c == t.left[d]
           e == t.right[d]
           p == t.parent[d]
           q == t.parent[n]
           h == [t EXCEPT !.right[q] = NULL, !.left[n] = c]
           u == IF near THEN t ELSE SetParent(h, c, n)
           v == SetParent(u, e, n)
           w == [v EXCEPT !.parent[n] = p, !.right[n] = e]
           z == SetLink(w, p, d, n)
           r == Detach(t, d, n)
<1>1. c \in Pointer /\ e \in Pointer /\ p \in Pointer /\ n \in Pointer /\ n # NULL /\ p # n
      /\ NULL \in Pointer /\ (~ near => q \in Key)
  BY KeysAreNumbers DEF Tree
<1>2. /\ r.tree = z
      /\ r.from = IF near /\ t.left[n] # NULL THEN t.left[n] ELSE n
  BY <1>1 DEF Detach
<1> HIDE DEF r, z
<1>3. /\ u \in Tree /\ u.root = t.root
      /\ \A y \in Key :
           /\ u.left[y] = IF y = n /\ ~ near THEN c ELSE t.left[y]
           /\ u.right[y] = IF y = q /\ ~ near THEN NULL ELSE t.right[y]
           /\ u.parent[y] = IF y = c /\ ~ near THEN n ELSE t.parent[y]
  <2>1. CASE near
    BY <2>1
  <2>2. CASE ~ near
    <3> HIDE DEF c, q
    <3>1. /\ h \in Tree /\ h.root = t.root /\ h.parent = t.parent
          /\ h.left = [t.left EXCEPT ![n] = c] /\ h.right = [t.right EXCEPT ![q] = NULL]
      BY <1>1, <2>2 DEF Tree
    <3> DEFINE k == SetParent(h, c, n)
    <3> HIDE DEF h
    <3>2. /\ k \in Tree /\ k.left = h.left /\ k.right = h.right /\ k.root = h.root
          /\ \A y \in Key : k.parent[y] = IF y = c THEN n ELSE h.parent[y]
      <4>1. h \in Tree /\ c \in Pointer /\ n \in Pointer
        BY <1>1, <3>1
      <4> QED BY <4>1, SetParentIs
    <3>3. u = k
      BY <2>2
    <3> HIDE DEF k, u
    <3>4. \A y \in Key : /\ k.left[y] = IF y = n THEN c ELSE t.left[y]
                         /\ k.right[y] = IF y = q THEN NULL ELSE t.right[y]
      BY <3>1, <3>2 DEF Tree
    <3> QED BY <2>2, <3>1, <3>2, <3>3, <3>4
  <2> QED BY <2>1, <2>2
<1> HIDE DEF u, near, c, p, q
<1>4. /\ v \in Tree /\ v.left = u.left /\ v.right = u.right /\ v.root = u.root
      /\ \A y \in Key : v.parent[y] = IF y = e THEN n ELSE u.parent[y]
  <2>1. u \in Tree /\ e \in Pointer /\ n \in Pointer
    BY <1>1, <1>3
  <2> HIDE DEF e
  <2> QED BY <2>1, SetParentIs
<1> HIDE DEF v, e
<1>5. /\ w \in Tree /\ w.left = v.left /\ w.root = v.root
      /\ w.right = [v.right EXCEPT ![n] = e] /\ w.parent = [v.parent EXCEPT ![n] = p]
  BY <1>1, <1>4 DEF Tree
<1>6. \A y \in Key : /\ w.right[y] = IF y = n THEN e ELSE v.right[y]
                     /\ w.parent[y] = IF y = n THEN p ELSE v.parent[y]
  BY <1>4, <1>5 DEF Tree
<1> HIDE DEF w
<1>7. /\ z \in Tree /\ z.parent = w.parent
      /\ p = NULL => z.left = w.left /\ z.right = w.right /\ z.root = n
      /\ p # NULL =>
           /\ z.root = w.root
           /\ \A y \in Key :
                /\ z.left[y] = IF y = p /\ w.left[p] = d THEN n ELSE w.left[y]
                /\ z.right[y] = IF y = p /\ w.left[p] # d THEN n ELSE w.right[y]
  <2>1. w \in Tree /\ p \in Pointer /\ d \in Key /\ n \in Pointer
    BY <1>1, <1>5
  <2> QED BY <2>1, SetLinkIs DEF z
<1>8. p # NULL => w.left[p] = t.left[p]
  <2>1. p # NULL => p \in Key /\ p # n
    BY <1>1 DEF Pointer
  <2> QED BY <1>3, <1>4, <1>5, <2>1
<1>9. /\ z.root = IF p = NULL THEN n ELSE t.root
      /\ \A y \in Key :
           /\ z.left[y] = IF y = p /\ t.left[y] = d THEN n
                          ELSE IF y = n /\ ~ near THEN c ELSE t.left[y]
           /\ z.right[y] = IF y = p /\ t.left[y] # d THEN n
                           ELSE IF y = n THEN e
                           ELSE IF y = q /\ ~ near THEN NULL ELSE t.right[y]
  <2>1. CASE p = NULL
    <3>1. \A y \in Key : y # p
      BY <2>1, KeysAreNumbers
    <3>2. z.left = w.left /\ z.right = w.right /\ z.root = n
      BY <1>7, <2>1
    <3>3. \A y \in Key : w.left[y] = IF y = n /\ ~ near THEN c ELSE t.left[y]
      BY <1>3, <1>4, <1>5
    <3>4. \A y \in Key : w.right[y] = IF y = n THEN e
                                      ELSE IF y = q /\ ~ near THEN NULL ELSE t.right[y]
      BY <1>3, <1>4, <1>6
    <3> QED BY <2>1, <3>1, <3>2, <3>3, <3>4
  <2>2. CASE p # NULL
    <3>1. z.root = t.root
      BY <1>3, <1>4, <1>5, <1>7, <2>2
    <3>2. \A y \in Key : z.left[y] = IF y = p /\ t.left[y] = d THEN n
                                     ELSE IF y = n /\ ~ near THEN c ELSE t.left[y]
      <4>1. \A y \in Key : w.left[y] = IF y = n /\ ~ near THEN c ELSE t.left[y]
        BY <1>3, <1>4, <1>5
      <4> QED BY <1>7, <1>8, <2>2, <4>1
    <3>3. \A y \in Key : z.right[y] = IF y = p /\ t.left[y] # d THEN n
                                      ELSE IF y = n THEN e
                                      ELSE IF y = q /\ ~ near THEN NULL ELSE t.right[y]
      <4>1. \A y \in Key : w.right[y] = IF y = n THEN e
                                        ELSE IF y = q /\ ~ near THEN NULL ELSE t.right[y]
        BY <1>3, <1>4, <1>6
      <4> QED BY <1>7, <1>8, <2>2, <4>1
    <3> QED BY <2>2, <3>1, <3>2, <3>3
  <2> QED BY <2>1, <2>2
<1>10. \A y \in Key : z.parent[y] = IF y = n THEN p ELSE IF y = e THEN n
                                    ELSE IF y = c /\ ~ near THEN n ELSE t.parent[y]
  BY <1>3, <1>4, <1>6, <1>7
<1>11. Spliced(t, d, n, z)
  BY <1>9, <1>10 DEF Spliced, near, c, e, p, q
<1> QED BY <1>2, <1>7, <1>11 DEF r, near

\* The last node left of d takes its place.  Unless it was the child of d, what
\* is left of it is lost.
LEMMA DetachInner ==
    ASSUME NEW t, NEW lo, NEW hi, Bounded(t, lo, hi), NEW d \in InTree(t),
           t.left[d] # NULL
    PROVE  LET n == Utmost(t, t.left[d], "right")
               r == Detach(t, d, n)
               L == IF t.left[d] = n THEN {} ELSE Below(t, t.left[n])
           IN  \E a, b : At(r.tree, r.from, InTree(t) \ ({d} \cup L), a, b)
<1> DEFINE S == InTree(t)
           c == t.left[d]
           e == t.right[d]
           p == t.parent[d]
           n == Utmost(t, c, "right")
           q == t.parent[n]
           near == c = n
           l == t.left[n]
           L == IF near THEN {} ELSE Below(t, l)
           N == S \ ({d} \cup L)
           r == Detach(t, d, n)
           u == r.tree
           lo2 == [y \in Key |-> IF y = n THEN lo[d] ELSE IF lo[y] = d THEN n ELSE lo[y]]
           hi2 == [y \in Key |-> IF y = n THEN hi[d] ELSE IF hi[y] = d THEN n ELSE hi[y]]
<1>1. t \in Tree /\ lo \in Bound /\ hi \in Bound /\ S \in SUBSET Key /\ d \in S
  <2>1. t \in Tree
    BY DEF Bounded
  <2> QED BY <2>1, InTreeIs DEF Bounded
<1>2. Shaped(t, S, lo, hi)
  BY BoundedIsShaped
<1>3. \A y \in S :
        /\ lo[y] < y /\ y < hi[y] /\ y \in Key /\ y # NULL /\ y \in Nat
        /\ lo[y] \in Int /\ hi[y] \in Int
        /\ t.left[y] # NULL => /\ t.left[y] \in S /\ t.parent[t.left[y]] = y
                               /\ lo[t.left[y]] = lo[y] /\ hi[t.left[y]] = y
        /\ t.right[y] # NULL => /\ t.right[y] \in S /\ t.parent[t.right[y]] = y
                                /\ hi[t.right[y]] = hi[y] /\ lo[t.right[y]] = y
        /\ y # t.root => /\ t.parent[y] \in S
                         /\ y \in {t.left[t.parent[y]], t.right[t.parent[y]]}
  <2>1. \A y \in S : /\ y \in Key /\ y # NULL /\ y \in Nat
                     /\ lo[y] \in Int /\ hi[y] \in Int
    BY NodeIs
  <2> QED BY <1>2, <2>1 DEF Shaped
<1>4. /\ t.root # NULL /\ t.root \in S /\ t.parent[t.root] = NULL
      /\ lo[t.root] = -1 /\ hi[t.root] = TypeLimit
  BY <1>1, <1>2 DEF Shaped
<1>5. /\ d \in Key /\ d # NULL /\ d \in Nat /\ lo[d] \in Int /\ hi[d] \in Int
      /\ lo[d] < d /\ d < hi[d]
      /\ c \in S /\ c \in Key /\ c # NULL /\ c # d /\ t.parent[c] = d
      /\ lo[c] = lo[d] /\ hi[c] = d /\ c \in Nat /\ c < d
      /\ e # NULL => e \in S /\ t.parent[e] = d /\ hi[e] = hi[d] /\ lo[e] = d /\ e \in Key
                     /\ e \in Nat /\ d < e
  BY <1>1, <1>3
<1>6. p = NULL <=> d = t.root
  BY <1>1, <1>3, <1>4
<1>7. p # NULL => /\ p \in S /\ p \in Key /\ p # d /\ p \in Nat
                  /\ d = t.left[p] => hi[d] = p /\ lo[d] = lo[p]
                  /\ d # t.left[p] => d = t.right[p] /\ lo[d] = p /\ hi[d] = hi[p]
  <2>1. p # NULL => p \in S /\ d \in {t.left[p], t.right[p]}
    BY <1>1, <1>3, <1>6
  <2> HIDE DEF p, c, e, S
  <2> SUFFICES ASSUME p # NULL
               PROVE  /\ p \in S /\ p \in Key /\ p # d /\ p \in Nat
                      /\ d = t.left[p] => hi[d] = p /\ lo[d] = lo[p]
                      /\ d # t.left[p] => d = t.right[p] /\ lo[d] = p /\ hi[d] = hi[p]
    OBVIOUS
  <2>2. p \in S /\ p \in Key /\ p \in Nat /\ (d = t.left[p] \/ d = t.right[p])
    BY <1>3, <2>1
  <2>3. d = t.left[p] => hi[d] = p /\ lo[d] = lo[p]
    BY <1>3, <1>5, <2>2
  <2>4. d = t.right[p] => lo[d] = p /\ hi[d] = hi[p]
    BY <1>3, <1>5, <2>2
  <2>5. p # d
    BY <1>5, <2>2, <2>3, <2>4
  <2> QED BY <2>2, <2>3, <2>4, <2>5
<1>8. /\ n \in S /\ t.right[n] = NULL /\ hi[n] = d /\ n \in Below(t, c)
      /\ \A k \in Below(t, c) : k <= n
      /\ ~ near => q \in Below(t, c) /\ t.right[q] = n
  <2> HIDE DEF c
  <2> QED BY <1>5, LastIs
<1>9. \A z \in Below(t, c) : z \in S /\ lo[d] < z /\ z < d
  <2>1. \A z \in Below(t, c) : z \in S /\ lo[c] < z /\ z < hi[c]
    <3> HIDE DEF c
    <3> QED BY <1>5, BelowWithin
  <2> QED BY <1>5, <2>1
<1>10. /\ n \in Key /\ n \in Nat /\ n # NULL /\ n < d /\ lo[d] < n /\ n # d /\ n # p
       /\ lo[n] \in Int /\ lo[n] < n
       /\ ~ near => q \in S /\ q \in Key /\ q \in Nat /\ lo[d] < q /\ q < n /\ lo[n] = q
                    /\ t.left[q] # n /\ q # NULL
       /\ near => q = d /\ lo[n] = lo[d]
  <2>1. n \in Key /\ n \in Nat /\ n # NULL /\ n < d /\ lo[d] < n /\ n # d
        /\ lo[n] \in Int /\ lo[n] < n
    <3> HIDE DEF n, c, S
    <3>1. lo[d] < n /\ n < d
      BY <1>8, <1>9
    <3> QED BY <1>3, <1>5, <1>8, <3>1
  <2>2. n # p
    <3> HIDE DEF n, p
    <3> QED BY <1>5, <1>7, <2>1
  <2>3. ~ near => q \in S /\ q \in Key /\ q \in Nat /\ lo[d] < q /\ q < n /\ lo[n] = q
                  /\ t.left[q] # n /\ q # NULL
    <3> SUFFICES ASSUME ~ near
                 PROVE  q \in S /\ q \in Key /\ q \in Nat /\ lo[d] < q /\ q < n /\ lo[n] = q
                        /\ t.left[q] # n /\ q # NULL
      OBVIOUS
    <3>1. q \in S /\ lo[d] < q /\ t.right[q] = n
      BY <1>8, <1>9
    <3> HIDE DEF q, n
    <3>2. lo[n] = q /\ q \in Key /\ q \in Nat /\ q # NULL
      BY <1>3, <2>1, <3>1
    <3>3. t.left[q] = n => hi[n] = q
      BY <1>3, <2>1, <3>1
    <3> QED BY <1>3, <2>1, <3>1, <3>2, <3>3, <1>8
  <2>4. near => q = d /\ lo[n] = lo[d]
    BY <1>5
  <2> QED BY <2>1, <2>2, <2>3, <2>4
<1>11. /\ L \in SUBSET S /\ n \notin L /\ d \notin L
       /\ \A z \in L : q < z /\ z < n /\ t.parent[z] \in L \cup {n}
       /\ \A z \in L : /\ t.left[z] # NULL => t.left[z] \in L
                       /\ t.right[z] # NULL => t.right[z] \in L
       /\ near => L = {}
       /\ ~ near /\ l # NULL => l \in L
  <2>1. CASE near \/ l = NULL
    <3>1. L = {}
      BY <1>1, <2>1, BelowIs, KeysAreNumbers
    <3> QED BY <2>1, <3>1
  <2>2. CASE ~ near /\ l # NULL
    <3>1. L = Below(t, l)
      BY <2>2
    <3>2. l \in S /\ t.parent[l] = n /\ lo[l] = lo[n] /\ hi[l] = n /\ l \in Pointer
      BY <1>3, <1>8, <2>2, KeysAreNumbers
    <3> HIDE DEF l, n
    <3>3. \A z \in L : z \in S /\ lo[l] < z /\ z < hi[l]
      BY <3>1, <3>2, BelowWithin
    <3>4. \A z \in L : z # l => t.parent[z] \in L
      BY <3>1, <3>2, ParentBelow
    <3>5. \A z \in L : /\ t.left[z] # NULL => t.left[z] \in L
                       /\ t.right[z] # NULL => t.right[z] \in L
      BY <1>1, <3>1, <3>2, BelowIs
    <3>6. l \in L
      BY <1>1, <3>1, <3>2, InTreeIs
    <3> HIDE DEF L, q
    <3>7. n \notin L /\ d \notin L
      BY <1>5, <1>10, <3>2, <3>3
    <3>8. \A z \in L : q < z /\ z < n /\ t.parent[z] \in L \cup {n}
      BY <1>10, <2>2, <3>2, <3>3, <3>4
    <3>9. L \in SUBSET S
      BY <3>3
    <3> QED BY <2>2, <3>5, <3>6, <3>7, <3>8, <3>9
  <2> QED BY <2>1, <2>2
<1>12. /\ u \in Tree /\ Spliced(t, d, n, u)
       /\ r.from = IF near /\ l # NULL THEN l ELSE n
  <2>1. d \in Key /\ n \in Key /\ n # d /\ t.parent[d] # n
        /\ (t.left[d] # n => t.parent[n] \in Key)
    BY <1>5, <1>10
  <2> HIDE DEF n
  <2> QED BY <1>1, <2>1, SplicedIs
<1> HIDE DEF n, r
<1>13. /\ u.root = IF p = NULL THEN n ELSE t.root
       /\ \A y \in Key :
            /\ u.left[y] = IF y = p /\ t.left[y] = d THEN n
                           ELSE IF y = n /\ ~ near THEN c ELSE t.left[y]
            /\ u.right[y] = IF y = p /\ t.left[y] # d THEN n
                            ELSE IF y = n THEN e
                            ELSE IF y = q /\ ~ near THEN NULL ELSE t.right[y]
            /\ u.parent[y] = IF y = n THEN p ELSE IF y = e THEN n
                             ELSE IF y = c /\ ~ near THEN n ELSE t.parent[y]
  BY <1>12 DEF Spliced
<1>14. /\ lo2 \in Bound /\ hi2 \in Bound
       /\ \A y \in Key :
            /\ lo2[y] = (IF y = n THEN lo[d] ELSE IF lo[y] = d THEN n ELSE lo[y])
            /\ hi2[y] = (IF y = n THEN hi[d] ELSE IF hi[y] = d THEN n ELSE hi[y])
  <2>1. n \in -1 .. TypeLimit
    BY <1>10, KeysAreNumbers
  <2> QED BY <1>1, <1>5, <2>1 DEF Bound
<1> HIDE DEF lo2, hi2, u
<1>15. ASSUME NEW y \in S, hi[y] = d PROVE y <= n
  <2>1. lo[d] <= lo[y]
    BY <1>15, BoundIs
  <2>2. lo[d] < y /\ y < d /\ y < hi[d] /\ y \in Nat /\ y # d
    BY <1>3, <1>5, <1>15, <2>1
  <2>3. y \in Below(t, d)
    BY <2>2, WithinBelow
  <2>4. y \in Below(t, c) \/ y \in Below(t, e)
    BY <1>1, <1>5, <2>2, <2>3, BelowIs, KeysAreNumbers
  <2>5. y \in Below(t, e) => e # NULL
    BY <1>1, BelowIs, KeysAreNumbers
  <2>6. y \notin Below(t, e)
    <3> SUFFICES ASSUME y \in Below(t, e) PROVE FALSE
      OBVIOUS
    <3>1. e \in S /\ lo[e] = d
      BY <1>5, <2>5
    <3> HIDE DEF e
    <3>2. lo[e] < y
      BY <3>1, BelowWithin
    <3> QED BY <1>5, <2>2, <3>1, <3>2
  <2> QED BY <1>8, <2>4, <2>6
<1> HIDE DEF L, S, c, e, p, q, near, l
<1>16. n \in N /\ c \in N /\ (e # NULL => e \in N) /\ (p # NULL => p \in N)
       /\ c # e /\ t.root \notin L
  <2>1. c \notin L
    BY <1>5, <1>10, <1>11
  <2>2. e # NULL => e \notin L
    BY <1>5, <1>10, <1>11
  <2>3. p # NULL => p \notin L
    <3> SUFFICES ASSUME p # NULL, p \in L PROVE FALSE
      OBVIOUS
    <3>1. q < p /\ p < n /\ ~ near
      BY <1>11
    <3> QED BY <1>5, <1>7, <1>10, <3>1
  <2>4. t.root \notin L
    <3>1. NULL \notin L \cup {n}
      BY <1>1, <1>10, <1>11, KeysAreNumbers
    <3> QED BY <1>4, <1>11, <3>1
  <2>5. c # e
    BY <1>5
  <2> QED BY <1>5, <1>7, <1>8, <1>10, <1>11, <2>1, <2>2, <2>3, <2>4, <2>5
<1> HIDE DEF N
<1>17. \A y \in N : y \in S /\ y # d /\ y \notin L /\ y \in Key
  BY <1>1 DEF N
<1>18. \A y \in S : y # d /\ y \notin L => y \in N
  BY DEF N
<1>19. ASSUME NEW y \in N
       PROVE  /\ lo2[y] < y /\ y < hi2[y]
              /\ u.left[y] # NULL => /\ u.left[y] \in N /\ u.parent[u.left[y]] = y
                                     /\ lo2[u.left[y]] = lo2[y] /\ hi2[u.left[y]] = y
              /\ u.right[y] # NULL => /\ u.right[y] \in N /\ u.parent[u.right[y]] = y
                                      /\ hi2[u.right[y]] = hi2[y] /\ lo2[u.right[y]] = y
              /\ y # u.root => /\ u.parent[y] \in N
                               /\ y \in {u.left[u.parent[y]], u.right[u.parent[y]]}
  <2>1. y \in S /\ y # d /\ y \notin L /\ y \in Key
    BY <1>17
  <2>2. /\ lo[y] < y /\ y < hi[y] /\ y # NULL /\ y \in Nat
        /\ lo[y] \in Int /\ hi[y] \in Int
        /\ t.left[y] # NULL => /\ t.left[y] \in S /\ t.parent[t.left[y]] = y
                               /\ lo[t.left[y]] = lo[y] /\ hi[t.left[y]] = y
                               /\ t.left[y] \in Key
        /\ t.right[y] # NULL => /\ t.right[y] \in S /\ t.parent[t.right[y]] = y
                                /\ hi[t.right[y]] = hi[y] /\ lo[t.right[y]] = y
                                /\ t.right[y] \in Key
        /\ y # t.root => /\ t.parent[y] \in S
                         /\ y \in {t.left[t.parent[y]], t.right[t.parent[y]]}
    BY <1>3, <2>1
  <2>3. lo2[y] < y /\ y < hi2[y]
    BY <1>5, <1>10, <1>14, <1>15, <2>1, <2>2
  <2>4. u.left[y] # NULL => /\ u.left[y] \in N /\ u.parent[u.left[y]] = y
                            /\ lo2[u.left[y]] = lo2[y] /\ hi2[u.left[y]] = y
    <3>1. CASE y = p /\ t.left[y] = d
      <4>1. u.left[y] = n /\ u.parent[n] = y /\ n \in N /\ p # NULL
        BY <1>10, <1>13, <1>16, <2>1, <2>2, <3>1
      <4>2. hi[d] = p /\ lo[d] = lo[p]
        BY <1>7, <3>1, <4>1
      <4>3. lo2[n] = lo2[y] /\ hi2[n] = y
        BY <1>5, <1>10, <1>14, <2>1, <3>1, <4>2
      <4> QED BY <4>1, <4>3
    <3>2. CASE y = n /\ ~ near
      <4>1. u.left[y] = c /\ c # n
        BY <1>10, <1>13, <2>1, <3>2 DEF near
      <4>2. u.parent[c] = n
        BY <1>5, <1>13, <1>16, <3>2, <4>1
      <4>3. lo2[c] = lo2[n] /\ hi2[c] = n
        BY <1>5, <1>10, <1>14, <4>1
      <4> QED BY <1>16, <3>2, <4>1, <4>2, <4>3
    <3>3. CASE ~ (y = p /\ t.left[y] = d) /\ ~ (y = n /\ ~ near) /\ t.left[y] # NULL
      <4> DEFINE w == t.left[y]
      <4>1. u.left[y] = w
        BY <1>13, <2>1, <3>3
      <4>2. w \in S /\ w \in Key /\ t.parent[w] = y /\ lo[w] = lo[y] /\ hi[w] = y
            /\ w # NULL
        BY <2>2, <3>3
      <4>3. w # d
        BY <3>3, <4>2 DEF p
      <4>4. w # n
        <5>1. CASE near
          BY <1>10, <2>1, <4>2, <5>1 DEF q
        <5>2. CASE ~ near
          BY <1>10, <2>1, <4>2, <5>2 DEF q
        <5> QED BY <5>1, <5>2
      <4> HIDE DEF w
      <4>5. w \notin L
        BY <1>11, <2>1, <3>3, <4>2
      <4>6. w \in N
        BY <1>18, <4>2, <4>3, <4>5
      <4>7. u.parent[w] = y
        <5>1. w # e /\ w # c
          BY <1>5, <2>1, <2>2, <4>2
        <5> QED BY <1>13, <4>2, <4>4, <5>1
      <4>8. lo2[w] = lo2[y]
        <5>1. CASE y = n
          BY <1>5, <1>10, <1>14, <2>1, <3>3, <4>2, <4>4, <5>1
        <5>2. CASE y # n
          BY <1>14, <2>1, <4>2, <4>4, <5>2
        <5> QED BY <5>1, <5>2
      <4>9. hi2[w] = y
        BY <1>14, <2>1, <4>2, <4>4
      <4> QED BY <4>1, <4>6, <4>7, <4>8, <4>9
    <3>4. CASE ~ (y = p /\ t.left[y] = d) /\ ~ (y = n /\ ~ near) /\ t.left[y] = NULL
      <4>1. u.left[y] = NULL
        BY <1>13, <2>1, <3>4
      <4> QED BY <4>1
    <3> QED BY <3>1, <3>2, <3>3, <3>4
  <2>5. u.right[y] # NULL => /\ u.right[y] \in N /\ u.parent[u.right[y]] = y
                             /\ hi2[u.right[y]] = hi2[y] /\ lo2[u.right[y]] = y
    <3>1. CASE y = p /\ t.left[y] # d
      <4>1. u.right[y] = n /\ u.parent[n] = y /\ n \in N /\ p # NULL
        BY <1>10, <1>13, <1>16, <2>1, <2>2, <3>1
      <4>2. lo[d] = p /\ hi[d] = hi[p]
        BY <1>7, <3>1, <4>1
      <4>3. hi2[n] = hi2[y] /\ lo2[n] = y
        BY <1>5, <1>10, <1>14, <2>1, <3>1, <4>2
      <4> QED BY <4>1, <4>3
    <3>2. CASE y = n
      <4>1. u.right[y] = e
        BY <1>10, <1>13, <2>1, <3>2
      <4>2. e # NULL => u.parent[e] = n /\ hi2[e] = hi2[n] /\ lo2[e] = n
        BY <1>5, <1>10, <1>13, <1>14
      <4> QED BY <1>16, <3>2, <4>1, <4>2
    <3>3. CASE ~ (y = p /\ t.left[y] # d) /\ y # n /\ (y = q /\ ~ near)
      <4>1. u.right[y] = NULL
        BY <1>13, <2>1, <3>3
      <4> QED BY <4>1
    <3>4. CASE /\ ~ (y = p /\ t.left[y] # d) /\ y # n /\ ~ (y = q /\ ~ near)
               /\ t.right[y] # NULL
      <4> DEFINE w == t.right[y]
      <4>1. u.right[y] = w
        BY <1>13, <2>1, <3>4
      <4>2. w \in S /\ w \in Key /\ t.parent[w] = y /\ hi[w] = hi[y] /\ lo[w] = y
            /\ w # NULL
        BY <2>2, <3>4
      <4>3. w # d
        <5> SUFFICES ASSUME w = d PROVE FALSE
          OBVIOUS
        <5>1. y = p /\ t.left[y] = d
          BY <3>4, <4>2 DEF p
        <5>2. hi[d] = y
          BY <1>7, <2>2, <5>1
        <5> QED BY <2>2, <4>2, <5>2, <1>5
      <4>4. w # n
        <5>1. CASE near
          BY <1>10, <2>1, <4>2, <5>1 DEF q
        <5>2. CASE ~ near
          BY <3>4, <4>2, <5>2 DEF q
        <5> QED BY <5>1, <5>2
      <4> HIDE DEF w
      <4>5. w \notin L
        BY <1>11, <2>1, <3>4, <4>2
      <4>6. w \in N
        BY <1>18, <4>2, <4>3, <4>5
      <4>7. u.parent[w] = y
        <5>1. w # e /\ w # c
          BY <1>5, <2>1, <2>2, <4>2
        <5> QED BY <1>13, <4>2, <4>4, <5>1
      <4>8. hi2[w] = hi2[y]
        BY <1>14, <2>1, <3>4, <4>2, <4>4
      <4>9. lo2[w] = y
        BY <1>14, <2>1, <4>2, <4>4
      <4> QED BY <4>1, <4>6, <4>7, <4>8, <4>9
    <3>5. CASE /\ ~ (y = p /\ t.left[y] # d) /\ y # n /\ ~ (y = q /\ ~ near)
               /\ t.right[y] = NULL
      <4>1. u.right[y] = NULL
        BY <1>13, <2>1, <3>5
      <4> QED BY <4>1
    <3> QED BY <3>1, <3>2, <3>3, <3>4, <3>5
  <2>6. y # u.root => /\ u.parent[y] \in N
                      /\ y \in {u.left[u.parent[y]], u.right[u.parent[y]]}
    <3> SUFFICES ASSUME y # u.root
                 PROVE  /\ u.parent[y] \in N
                        /\ y \in {u.left[u.parent[y]], u.right[u.parent[y]]}
      OBVIOUS
    <3>1. CASE y = n
      <4>1. p # NULL
        BY <1>13, <3>1
      <4>2. u.parent[y] = p /\ p \in N /\ p \in Key
        BY <1>7, <1>13, <1>16, <2>1, <3>1, <4>1
      <4>3. n \in {u.left[p], u.right[p]}
        BY <1>13, <4>2
      <4> QED BY <3>1, <4>2, <4>3
    <3>2. CASE y # n /\ y = e
      <4>1. u.parent[y] = n
        BY <1>13, <2>1, <3>2
      <4>2. u.right[n] = e
        BY <1>10, <1>13
      <4> QED BY <1>16, <3>2, <4>1, <4>2
    <3>3. CASE y # n /\ y # e /\ y = c
      <4>1. ~ near
        BY <3>3 DEF near
      <4>2. u.parent[y] = n
        BY <1>13, <2>1, <3>3, <4>1
      <4>3. u.left[n] = c
        BY <1>10, <1>13, <4>1
      <4> QED BY <1>16, <3>3, <4>2, <4>3
    <3>4. CASE y # n /\ y # e /\ y # c
      <4>1. y # t.root
        <5>1. CASE p = NULL
          BY <1>6, <2>1, <5>1
        <5>2. CASE p # NULL
          BY <1>13, <5>2
        <5> QED BY <5>1, <5>2
      <4> DEFINE z == t.parent[y]
      <4>2. z \in S /\ y \in {t.left[z], t.right[z]} /\ u.parent[y] = z /\ z \in Key
        BY <1>3, <1>13, <2>1, <2>2, <3>4, <4>1
      <4> HIDE DEF z
      <4>3. z # d
        BY <3>4, <4>2 DEF c, e
      <4>4. z \notin L
        BY <1>11, <2>1, <2>2, <4>2
      <4>5. z \in N
        BY <1>18, <4>2, <4>3, <4>4
      <4>6. CASE y = t.left[z]
        <5>1. ~ (z = p /\ t.left[z] = d)
          BY <2>1, <4>6
        <5>2. ~ (z = n /\ ~ near)
          <6> SUFFICES ASSUME z = n, ~ near PROVE FALSE
            OBVIOUS
          <6>1. y = l
            BY <4>6 DEF l
          <6> QED BY <1>11, <2>1, <2>2, <6>1
        <5>3. u.left[z] = y
          BY <1>13, <4>2, <4>6, <5>1, <5>2
        <5> QED BY <4>2, <4>5, <5>3
      <4>7. CASE y = t.right[z]
        <5>1. ~ (z = p /\ t.left[z] # d)
          <6> SUFFICES ASSUME z = p, t.left[z] # d PROVE FALSE
            OBVIOUS
          <6>1. p # NULL
            BY <1>3, <4>2
          <6> QED BY <1>7, <2>1, <4>7, <6>1
        <5>2. z # n
          BY <1>8, <2>2, <4>7
        <5>3. ~ (z = q /\ ~ near)
          BY <1>8, <3>4, <4>7 DEF near, q
        <5>4. u.right[z] = y
          BY <1>13, <4>2, <4>7, <5>1, <5>2, <5>3
        <5> QED BY <4>2, <4>5, <5>4
      <4> QED BY <4>2, <4>6, <4>7
    <3> QED BY <3>1, <3>2, <3>3, <3>4
  <2> QED BY <2>3, <2>4, <2>5, <2>6
<1>20. /\ u.root # NULL /\ u.root \in N /\ u.parent[u.root] = NULL
       /\ lo2[u.root] = -1 /\ hi2[u.root] = TypeLimit
  <2>1. CASE p = NULL
    <3>1. u.root = n /\ d = t.root /\ u.parent[n] = NULL
      BY <1>6, <1>10, <1>13, <2>1
    <3>2. lo2[n] = -1 /\ hi2[n] = TypeLimit
      BY <1>4, <1>10, <1>14, <3>1
    <3> QED BY <1>10, <1>16, <3>1, <3>2
  <2>2. CASE p # NULL
    <3>1. u.root = t.root /\ t.root # d /\ t.root \in S /\ t.root \in Key
      BY <1>3, <1>4, <1>6, <1>13, <2>2
    <3>2. t.root # n
      <4>1. CASE near
        BY <1>4, <1>5, <1>10, <4>1 DEF q
      <4>2. CASE ~ near
        BY <1>4, <1>10, <4>2 DEF q
      <4> QED BY <4>1, <4>2
    <3>3. t.root # c /\ t.root # e
      BY <1>4, <1>5
    <3>4. u.parent[t.root] = NULL
      BY <1>4, <1>13, <3>1, <3>2, <3>3
    <3>5. lo2[t.root] = -1 /\ hi2[t.root] = TypeLimit
      <4>1. lo[t.root] # d /\ hi[t.root] # d
        BY <1>4, <1>5, KeysAreNumbers
      <4> QED BY <1>4, <1>14, <3>1, <3>2, <4>1
    <3>6. t.root \in N
      BY <1>16, <1>18, <3>1
    <3> QED BY <1>4, <3>1, <3>4, <3>5, <3>6
  <2> QED BY <2>1, <2>2
<1>21. Shaped(u, N, lo2, hi2)
  BY <1>14, <1>19, <1>20 DEF Shaped
<1>22. Bounded(u, lo2, hi2) /\ InTree(u) = N
  <2>1. u \in Tree /\ N \in SUBSET Key
    BY <1>12, <1>17 DEF u
  <2> QED BY <1>21, <2>1, ShapedIs
<1>23. r.from \in N
  <2>1. near /\ l # NULL => l \in S /\ l # d /\ l \notin L
    <3> SUFFICES ASSUME near, l # NULL PROVE l \in S /\ l # d /\ l \notin L
      OBVIOUS
    <3>1. l \in S /\ t.parent[l] = n
      BY <1>3, <1>8 DEF l
    <3>2. hi[l] = n /\ l < hi[l] /\ l \in Nat
      BY <1>3, <1>8, <3>1 DEF l
    <3>3. L = {}
      BY <1>11
    <3> QED BY <1>5, <1>10, <3>1, <3>2, <3>3
  <2>2. near /\ l # NULL => l \in N
    BY <1>18, <2>1
  <2> QED BY <1>12, <1>16, <2>2
<1>24. At(u, r.from, N, lo2[r.from], hi2[r.from])
  <2>1. r.from \in InTree(u)
    BY <1>22, <1>23
  <2>2. At(u, r.from, InTree(u), lo2[r.from], hi2[r.from])
    BY <1>22, <2>1, AtAny
  <2> QED BY <1>22, <2>2
<1> QED BY <1>24 DEF u, N, S, L, near, l, c, n, r

LEMMA RebalanceNull ==
    ASSUME NEW t \in Tree PROVE Rebalance(t, NULL) = t
<1> DEFINE x == [tree |-> t, node |-> NULL]
<1>1. PICK f : /\ IsLoop(f, LoopState, Arrived, OneTurn, ItsTree)
               /\ \A u, m : Rebalance(u, m) = f[[tree |-> u, node |-> m]]
  BY RebalanceLoop
<1>2. x \in LoopState /\ x \in Arrived /\ ItsTree[x] = t
  BY KeysAreNumbers DEF LoopState, Arrived, ItsTree
<1>3. Rebalance(t, NULL) = f[x]
  BY <1>1
<1> HIDE DEF x
<1>4. f[x] = ItsTree[x]
  BY <1>1, <1>2 DEF IsLoop
<1> QED BY <1>2, <1>3, <1>4

\* The nodes that the tree loses when d is removed, besides d: the subtree left of
\* the node that takes the place of d, where that was not the child of d.
Dropped(t, d) ==
    LET n == Utmost(t, t.left[d], "right")
    IN  IF t.left[d] \in {NULL, n} THEN {} ELSE Below(t, t.left[n])

\* Lost, by the walk down the subtree, is what the links reach there.
LEMMA LostIs ==
    ASSUME NEW t, Good(t), NEW d \in InTree(t)
    PROVE  Lost(t, d) = Dropped(t, d)
<1> DEFINE n == Utmost(t, t.left[d], "right")
<1>1. PICK lo, hi : Bounded(t, lo, hi)
  BY DEF Good
<1>2. CASE t.left[d] \in {NULL, n}
  BY <1>2 DEF Lost, Deep, Dropped
<1>3. CASE t.left[d] \notin {NULL, n}
  <2>1. t.left[d] \in InTree(t)
    BY <1>1, <1>3, NodeIs
  <2>2. n \in InTree(t)
    BY <1>1, <2>1, LastIs
  <2> HIDE DEF n
  <2>3. t.left[n] \in Pointer /\ (t.left[n] # NULL => t.left[n] \in InTree(t))
    BY <1>1, <2>2, NodeIs
  <2>4. NodesBelow(t, t.left[n]) = Below(t, t.left[n])
    BY <1>1, <2>3, NodesBelowIs
  <2> QED BY <1>3, <2>4 DEF Lost, Deep, Dropped, n
<1> QED BY <1>2, <1>3

\* What is lost stands in one gap: all nodes between two that stay, the parent of
\* the replacement and the replacement, which is the one in front of d.
LEMMA DroppedGap ==
    ASSUME NEW t, Good(t), NEW d \in InTree(t), Dropped(t, d) # {}
    PROVE  \E p, n \in InTree(t) :
              /\ p < n /\ n < d
              /\ \A m \in InTree(t) : ~(n < m /\ m < d)
              /\ Dropped(t, d) = {m \in InTree(t) : p < m /\ m < n}
<1> DEFINE c == t.left[d]
           n == Utmost(t, c, "right")
           p == t.parent[n]
           S == InTree(t)
<1>1. PICK lo, hi : Bounded(t, lo, hi)
  BY DEF Good
<1>2. c \notin {NULL, n} /\ Dropped(t, d) = Below(t, t.left[n])
  BY DEF Dropped
<1>3. /\ c \in S /\ hi[c] = d /\ lo[c] = lo[d]
      /\ d \in Nat /\ lo[d] \in Int /\ lo[d] < d
  BY <1>1, <1>2, NodeIs
<1>4. /\ n \in Below(t, c) /\ n \in S /\ hi[n] = d
      /\ \A k \in Below(t, c) : k <= n
      /\ p \in Below(t, c) /\ t.right[p] = n
  <2> HIDE DEF c
  <2> QED BY <1>1, <1>2, <1>3, LastIs
<1>5. t \in Tree /\ \A m \in S : m \in Nat /\ m # NULL
  <2>1. t \in Tree
    BY <1>1 DEF Bounded
  <2> QED BY <2>1, InTreeIs
<1>6. p \in S
  <2> HIDE DEF c, p, n
  <2> QED BY <1>1, <1>3, <1>4, BelowWithin
<1> HIDE DEF c, p, n
<1>7. /\ n \in Nat /\ n # NULL /\ lo[n] < n /\ n < d
      /\ lo[n] = p /\ p \in Nat /\ p < n
      /\ t.left[n] # NULL => /\ t.left[n] \in S
                             /\ lo[t.left[n]] = p /\ hi[t.left[n]] = n
  <2>1. /\ n # NULL /\ n \in Nat /\ lo[n] < n /\ n < hi[n] /\ lo[n] \in Int
        /\ t.left[n] # NULL => /\ t.left[n] \in S
                               /\ lo[t.left[n]] = lo[n] /\ hi[t.left[n]] = n
    BY <1>1, <1>4, NodeIs
  <2>2. lo[n] = p /\ p \in Nat
    BY <1>1, <1>4, <1>6, <2>1, NodeIs
  <2>3. p < n /\ n < d
    BY <1>4, <2>1, <2>2
  <2> QED BY <2>1, <2>2, <2>3
<1>8. ASSUME NEW m \in S, n < m, m < d PROVE FALSE
  <2>1. lo[c] < m /\ m < hi[c]
    <3>1. lo[c] < n
      BY <1>1, <1>3, <1>4, BelowWithin
    <3>2. m \in Nat /\ lo[c] \in Int /\ n \in Nat
      BY <1>3, <1>5, <1>7
    <3> QED BY <1>3, <1>8, <3>1, <3>2
  <2>2. m \in Below(t, c)
    BY <1>1, <1>3, <2>1, WithinBelow
  <2>3. m <= n /\ m \in Nat
    BY <1>4, <1>5, <2>2
  <2> QED BY <1>7, <1>8, <2>3
<1>9. Below(t, t.left[n]) = {m \in S : p < m /\ m < n}
  <2>1. CASE t.left[n] = NULL
    <3>1. Below(t, t.left[n]) = {}
      BY <1>5, <2>1, BelowIs, KeysAreNumbers
    <3> QED BY <1>2, <3>1
  <2>2. CASE t.left[n] # NULL
    <3>1. \A m \in Below(t, t.left[n]) : m \in S /\ p < m /\ m < n
      BY <1>1, <1>7, <2>2, BelowWithin
    <3>2. \A m \in S : p < m /\ m < n => m \in Below(t, t.left[n])
      BY <1>1, <1>7, <2>2, WithinBelow
    <3> QED BY <3>1, <3>2
  <2> QED BY <2>1, <2>2
<1> QED BY <1>2, <1>4, <1>6, <1>7, <1>8, <1>9

\* A removal keeps a search tree, and takes away d and what is lost.
LEMMA RemovedIs ==
    ASSUME NEW t, Good(t), NEW d \in InTree(t)
    PROVE  /\ Good(RemovedNode(t, d))
           /\ InTree(RemovedNode(t, d)) = InTree(t) \ ({d} \cup Dropped(t, d))
<1> DEFINE n == Utmost(t, t.left[d], "right")
           r == Detach(t, d, n)
           v == Rebalance(r.tree, r.from)
           N == InTree(t) \ ({d} \cup Dropped(t, d))
<1>1. PICK lo, hi : Bounded(t, lo, hi)
  BY DEF Good
<1>2. t \in Tree /\ d \in Key /\ InTree(t) \in SUBSET Key
  <2>1. t \in Tree
    BY <1>1 DEF Bounded
  <2> QED BY <2>1, InTreeIs
<1>3. \/ r.from = NULL /\ Good(r.tree) /\ InTree(r.tree) = N
      \/ \E a, b : At(r.tree, r.from, N, a, b)
  <2>1. CASE t.left[d] = NULL
    <3>1. n = NULL
      BY <1>2, <2>1, UtmostNull
    <3>2. Dropped(t, d) = {}
      BY <2>1 DEF Dropped
    <3>3. N = InTree(t) \ {d}
      BY <3>2
    <3> HIDE DEF n, N
    <3>4. LET s == Detach(t, d, NULL)
              M == InTree(t) \ {d}
          IN  \/ s.from = NULL /\ Good(s.tree) /\ InTree(s.tree) = M
              \/ \E a, b : At(s.tree, s.from, M, a, b)
      BY <1>1, <2>1, DetachLast
    <3> QED BY <3>1, <3>3, <3>4
  <2>2. CASE t.left[d] # NULL
    <3> DEFINE L == IF t.left[d] = n THEN {} ELSE Below(t, t.left[n])
    <3>1. L = Dropped(t, d)
      BY <2>2 DEF Dropped
    <3>2. \E a, b : At(r.tree, r.from, InTree(t) \ ({d} \cup L), a, b)
      BY <1>1, <2>2, DetachInner
    <3> HIDE DEF L, r
    <3> QED BY <3>1, <3>2
  <2> QED BY <2>1, <2>2
<1> HIDE DEF r, N
<1>4. Good(v) /\ InTree(v) = N
  <2>1. CASE r.from = NULL /\ Good(r.tree) /\ InTree(r.tree) = N
    <3>1. r.tree \in Tree
      BY <2>1 DEF Good, Bounded
    <3>2. v = r.tree
      BY <2>1, <3>1, RebalanceNull
    <3> QED BY <2>1, <3>2
  <2>2. CASE \E a, b : At(r.tree, r.from, N, a, b)
    BY <2>2, RebalanceIs
  <2> QED BY <1>3, <2>1, <2>2
<1>5. d \notin N
  BY DEF N
<1>6. RemovedNode(t, d) = Blank(v, d)
  BY DEF RemovedNode, r
<1> HIDE DEF v
<1>7. Good(Blank(v, d)) /\ InTree(Blank(v, d)) = InTree(v)
  BY <1>2, <1>4, <1>5, BlankIs
<1> QED BY <1>4, <1>6, <1>7 DEF N

-----------------------------------------------------------------------------
(* The invariant.                                                          *)

\* A walk has come past nothing that it still owes a visit.
Owed ==
    walk.phase = "walking" =>
        /\ walk.stable \subseteq InTree(tree)
        /\ \A x \in walk.stable : x < walk.next => x \in walk.seen

Typed ==
    /\ value \in [Key -> Value \cup {NULL}]
    /\ live \subseteq Key
    /\ walk \in [phase : {"idle", "walking", "stopped"}, next : 0 .. TypeLimit - 1,
                 seen : SUBSET Key, stable : SUBSET Key]

IInv == Good(tree) /\ Typed /\ Owed

LEMMA RestingIs ==
    /\ Resting.phase = "idle"
    /\ Resting \in [phase : {"idle", "walking", "stopped"}, next : 0 .. TypeLimit - 1,
                    seen : SUBSET Key, stable : SUBSET Key]
BY KeysAreNumbers DEF Resting

LEMMA Started == Init => IInv
<1> SUFFICES ASSUME Init PROVE IInv
  OBVIOUS
<1> DEFINE b == [y \in Key |-> -1]
<1>1. /\ tree \in Tree /\ tree.root = NULL
      /\ value \in [Key -> Value \cup {NULL}] /\ live = {} /\ walk = Resting
  BY KeysAreNumbers DEF Init, Tree
<1>2. InTree(tree) = {}
  BY <1>1, InTreeIs
<1>3. b \in Bound
  BY KeysAreNumbers DEF Bound
<1> HIDE DEF b
<1>4. Shaped(tree, {}, b, b)
  BY <1>1, <1>3 DEF Shaped
<1>5. Bounded(tree, b, b)
  BY <1>1, <1>4, ShapedIs
<1> QED BY <1>1, <1>5, RestingIs DEF IInv, Good, Typed, Owed

\* The callback has been called on n, the first node of the walk or its target.
LEMMA VisitIs ==
    ASSUME IInv, NEW n \in Key, NEW seen \in SUBSET Key, NEW stable \in SUBSET InTree(tree),
           \A x \in stable : x < n => x \in seen,
           Visit(n, seen, stable), UNCHANGED <<tree, value, live>>
    PROVE  IInv'
<1>1. /\ walk' = [phase |-> "walking", next |-> (n + 1) % TypeLimit,
                  seen |-> seen \cup {n}, stable |-> stable]
      /\ tree' = tree /\ value' = value /\ live' = live
  BY DEF Visit
<1>2. /\ n \in Nat /\ n + 1 \in Nat /\ n < TypeLimit /\ TypeLimit \in Nat
      /\ \A x \in stable : x \in Nat /\ x \in Key
  <2>1. tree \in Tree
    BY DEF IInv, Good, Bounded
  <2> QED BY <2>1, InTreeIs, KeysAreNumbers
<1>3. (n + 1) % TypeLimit \in 0 .. TypeLimit - 1 /\ (n + 1) % TypeLimit <= n + 1
  BY <1>2, KeysAreNumbers
<1> DEFINE m == (n + 1) % TypeLimit
<1>4. \A x \in stable : x < m => x \in seen \cup {n}
  <2> HIDE DEF m
  <2>1. m \in Nat /\ m <= n + 1
    BY <1>3 DEF m
  <2> QED BY <1>2, <2>1
<1> HIDE DEF m
<1>5. walk' \in [phase : {"idle", "walking", "stopped"}, next : 0 .. TypeLimit - 1,
                 seen : SUBSET Key, stable : SUBSET Key]
  <2>1. stable \in SUBSET Key
    BY <1>2
  <2> QED BY <1>1, <1>3, <2>1
<1>6. Owed'
  BY <1>1, <1>4 DEF Owed, m
<1> QED BY <1>1, <1>5, <1>6 DEF IInv, Typed

LEMMA InsertKeeps ==
    ASSUME IInv, NEW k \in Key, NEW v \in Value, Insert(k, v)
    PROVE  IInv' /\ InTree(tree') = InTree(tree) \cup {k}
<1>1. Good(tree') /\ InTree(tree') = InTree(tree) \cup {k}
  <2>1. Good(tree)
    BY DEF IInv
  <2>2. tree' = Inserted(IF Found(tree, k) THEN tree ELSE Blank(tree, k), k)
    BY DEF Insert
  <2> QED BY <2>1, <2>2, InsertedIs
<1>2. /\ value' = [value EXCEPT ![k] = v] /\ live' = live \cup {k} /\ walk' = walk
  BY DEF Insert
<1>3. Typed'
  BY <1>2 DEF IInv, Typed
<1>4. Owed'
  BY <1>1, <1>2 DEF IInv, Owed
<1> QED BY <1>1, <1>3, <1>4 DEF IInv

LEMMA RemoveKeeps ==
    ASSUME IInv, NEW k \in Key, Remove(k)
    PROVE  IInv' /\ InTree(tree') = InTree(tree) \ ({k} \cup Dropped(tree, k))
           /\ k \in InTree(tree)
<1>1. Good(tree) /\ Found(tree, k) /\ tree' = RemovedNode(tree, k)
  BY DEF IInv, Remove
<1>2. k \in InTree(tree)
  BY <1>1, FoundIs
<1>3. Good(tree') /\ InTree(tree') = InTree(tree) \ ({k} \cup Dropped(tree, k))
  BY <1>1, <1>2, RemovedIs
<1>4. Nodes(tree') = InTree(tree')
  BY <1>3, GoodNodes
<1>5. /\ live' = live \ {k} /\ value' = [value EXCEPT ![k] = NULL]
      /\ walk' = [walk EXCEPT !.stable = (walk.stable \ {k}) \cap Nodes(tree')]
  BY DEF Remove
<1>6. Typed'
  BY <1>5 DEF IInv, Typed
<1>7. Owed'
  <2>1. /\ walk'.phase = walk.phase /\ walk'.next = walk.next /\ walk'.seen = walk.seen
        /\ walk'.stable = (walk.stable \ {k}) \cap InTree(tree')
    BY <1>4, <1>5 DEF IInv, Typed
  <2> QED BY <2>1 DEF IInv, Owed
<1> QED BY <1>2, <1>3, <1>6, <1>7 DEF IInv

LEMMA WalkStartKeeps ==
    ASSUME IInv, WalkStart PROVE IInv'
<1> DEFINE n == Utmost(tree, tree.root, "left")
<1>1. Good(tree) /\ tree.root # NULL
  BY DEF IInv, WalkStart
<1>2. n \in Key /\ \A k \in InTree(tree) : n <= k
  BY <1>1, FirstIs
<1>3. Nodes(tree) = InTree(tree)
  BY <1>1, GoodNodes
<1>4. Visit(n, {}, InTree(tree)) /\ UNCHANGED <<tree, value, live>>
  BY <1>3 DEF WalkStart
<1> HIDE DEF n
<1>5. \A x \in InTree(tree) : x < n => x \in {}
  <2>1. tree \in Tree
    BY <1>1 DEF Good, Bounded
  <2> QED BY <1>2, <2>1, InTreeIs, KeysAreNumbers
<1> QED BY <1>2, <1>4, <1>5, VisitIs

LEMMA WalkNextKeeps ==
    ASSUME IInv, WalkNext PROVE IInv'
<1> DEFINE n == WalkTarget
<1>1. /\ walk.phase = "walking" /\ n # NULL
      /\ Visit(n, walk.seen, walk.stable) /\ UNCHANGED <<tree, value, live>>
  BY DEF WalkNext
<1>2. Good(tree) /\ walk.next \in Int /\ tree \in Tree
      /\ walk.seen \in SUBSET Key /\ walk.stable \in SUBSET InTree(tree)
      /\ \A x \in walk.stable : x < walk.next => x \in walk.seen
  <2>1. Good(tree) /\ tree \in Tree
    BY DEF IInv, Good, Bounded
  <2> QED BY <1>1, <2>1, KeysAreNumbers DEF IInv, Typed, Owed
<1>3. n \in Key /\ walk.next <= n /\ \A z \in InTree(tree) : walk.next <= z => n <= z
  BY <1>1, <1>2, SearchGEIs DEF WalkTarget
<1> HIDE DEF n
<1>4. \A x \in walk.stable : x < n => x \in walk.seen
  BY <1>2, <1>3, InTreeIs, KeysAreNumbers
<1> QED BY <1>1, <1>2, <1>3, <1>4, VisitIs

LEMMA Kept == IInv /\ [Next]_vars => IInv'
<1> SUFFICES ASSUME IInv, [Next]_vars PROVE IInv'
  OBVIOUS
<1>1. CASE UNCHANGED vars
  BY <1>1 DEF vars, IInv, Typed, Owed
<1>2. ASSUME NEW k \in Key, NEW v \in Value, Insert(k, v) PROVE IInv'
  BY <1>2, InsertKeeps
<1>3. ASSUME NEW k \in Key, Remove(k) PROVE IInv'
  BY <1>3, RemoveKeeps
<1>4. CASE WalkStart
  BY <1>4, WalkStartKeeps
<1>5. CASE WalkNext
  BY <1>5, WalkNextKeeps
<1>6. CASE WalkEnd
  BY <1>6, RestingIs DEF WalkEnd, IInv, Typed, Owed
<1>7. CASE WalkStop
  <2>1. walk' = [Resting EXCEPT !.phase = "stopped"] /\ UNCHANGED <<tree, value, live>>
    BY <1>7 DEF WalkStop
  <2>2. walk'.phase = "stopped"
        /\ walk' \in [phase : {"idle", "walking", "stopped"}, next : 0 .. TypeLimit - 1,
                      seen : SUBSET Key, stable : SUBSET Key]
    BY <2>1, RestingIs
  <2> QED BY <2>1, <2>2 DEF IInv, Typed, Owed
<1> QED BY <1>1, <1>2, <1>3, <1>4, <1>5, <1>6, <1>7 DEF Next

-----------------------------------------------------------------------------
(* The theorems.                                                           *)

\* The tree is a search tree with bounds after every step, and a walk has passed
\* no node that it owes a visit (avl.c: insertion, removal, foreach).
THEOREM AvlInvariance == Spec => []IInv
BY Started, Kept, PTL DEF Spec

\* The variables keep their types; every function of avl.c that follows links
\* ends with a node or with the null pointer.
THEOREM AvlTypes == Spec => []TypeOK
<1>1. IInv => TypeOK
  BY DEF IInv, Typed, TypeOK, Good, Bounded
<1> QED BY <1>1, AvlInvariance, PTL

\* Whatever was inserted and removed, and however far out of balance the tree is,
\* keys are in order and every child points back at its parent (the rotations,
\* the loop of lexbor_avl_rebalance and lexbor_avl_rotate_for_delete).
THEOREM AvlSearchTree == Spec => []SearchTree
<1>1. IInv => SearchTree
  BY GoodIsSearchTree DEF IInv, SearchTree, IsSearchTree
<1> QED BY <1>1, AvlInvariance, PTL

\* A walk that ends has called back on every node that was in the tree from its
\* first step to its last, however the callbacks changed the tree meanwhile
\* (lexbor_avl_foreach goes on by type, not by pointer).
THEOREM AvlWalkVisitsAll == Spec => WalkVisitsAll
<1> DEFINE Ends == walk.phase = "walking" /\ walk'.phase = "idle"
                     => walk.stable \subseteq walk.seen
<1>1. IInv /\ [Next]_vars => [Ends]_vars
  <2> SUFFICES ASSUME IInv, Next, walk.phase = "walking", walk'.phase = "idle"
               PROVE  walk.stable \subseteq walk.seen
    OBVIOUS
  <2>1. walk \in [phase : {"idle", "walking", "stopped"}, next : 0 .. TypeLimit - 1,
                  seen : SUBSET Key, stable : SUBSET Key]
    BY DEF IInv, Typed
  <2>2. WalkEnd
    <3>1. ASSUME NEW k \in Key, NEW v \in Value, Insert(k, v) PROVE FALSE
      BY <3>1 DEF Insert
    <3>2. ASSUME NEW k \in Key, Remove(k) PROVE FALSE
      BY <2>1, <3>2 DEF Remove
    <3>3. ~ WalkStart
      BY DEF WalkStart
    <3>4. ~ WalkNext
      BY DEF WalkNext, Visit
    <3>5. ~ WalkStop
      BY DEF WalkStop, Resting
    <3> QED BY <3>1, <3>2, <3>3, <3>4, <3>5 DEF Next
  <2>3. Good(tree) /\ tree \in Tree /\ walk.next \in Int
    BY <2>1, KeysAreNumbers DEF IInv, Good, Bounded
  <2>4. \A z \in InTree(tree) : z < walk.next
    BY <2>2, <2>3, SearchGEIs DEF WalkEnd, WalkTarget
  <2> QED BY <2>4 DEF IInv, Owed
<1> QED BY <1>1, AvlInvariance, PTL DEF Spec, WalkVisitsAll

\* A step that inserts a type adds it to the nodes of the tree; one that removes a
\* type takes it from them, and the subtree that is lost with it, and nothing
\* else.
NodesChange ==
    [][/\ \A k \in Key, v \in Value : Insert(k, v) => Nodes(tree') = Nodes(tree) \cup {k}
       /\ \A k \in Key :
             Remove(k) => Nodes(tree') = Nodes(tree) \ ({k} \cup Lost(tree, k))]_vars

LEMMA StepNodes ==
    ASSUME IInv
    PROVE  /\ Nodes(tree) = InTree(tree)
           /\ \A k \in Key, v \in Value :
                 Insert(k, v) => Nodes(tree') = Nodes(tree) \cup {k}
           /\ \A k \in Key :
                 Remove(k) => /\ Nodes(tree') = Nodes(tree) \ ({k} \cup Lost(tree, k))
                              /\ k \in Nodes(tree)
<1>1. Nodes(tree) = InTree(tree)
  BY GoodNodes DEF IInv
<1>2. ASSUME NEW k \in Key, NEW v \in Value, Insert(k, v)
      PROVE  Nodes(tree') = Nodes(tree) \cup {k}
  <2>1. IInv' /\ InTree(tree') = InTree(tree) \cup {k}
    BY <1>2, InsertKeeps
  <2>2. Good(tree')
    BY <2>1 DEF IInv
  <2>3. Nodes(tree') = InTree(tree')
    BY <2>2, GoodNodes
  <2> QED BY <1>1, <2>1, <2>3
<1>3. ASSUME NEW k \in Key, Remove(k)
      PROVE  /\ Nodes(tree') = Nodes(tree) \ ({k} \cup Lost(tree, k))
             /\ k \in Nodes(tree)
  <2>1. /\ IInv' /\ InTree(tree') = InTree(tree) \ ({k} \cup Lost(tree, k))
        /\ k \in InTree(tree)
    <3>1. /\ IInv' /\ InTree(tree') = InTree(tree) \ ({k} \cup Dropped(tree, k))
          /\ k \in InTree(tree)
      BY <1>3, RemoveKeeps
    <3>2. Lost(tree, k) = Dropped(tree, k)
      BY <3>1, LostIs DEF IInv
    <3> QED BY <3>1, <3>2
  <2>2. Good(tree')
    BY <2>1 DEF IInv
  <2>3. Nodes(tree') = InTree(tree')
    BY <2>2, GoodNodes
  <2> QED BY <1>1, <2>1, <2>3
<1> QED BY <1>1, <1>2, <1>3

\* No insertion, rotation or removal loses a node, but for the subtree that
\* lexbor_avl_rotate_for_delete drops.
THEOREM AvlNodesChange == Spec => NodesChange
<1> DEFINE A == /\ \A k \in Key, v \in Value :
                      Insert(k, v) => Nodes(tree') = Nodes(tree) \cup {k}
                /\ \A k \in Key :
                      Remove(k) => Nodes(tree') = Nodes(tree) \ ({k} \cup Lost(tree, k))
<1>1. IInv /\ [Next]_vars => [A]_vars
  BY StepNodes
<1> QED BY <1>1, AvlInvariance, PTL DEF Spec, NodesChange

Mapped == [k \in Nodes(tree) |-> value[k]]

WithIt == [k \in Nodes(tree) |-> Lost(tree, k)]

LEMMA MapStarts == Init => Map!Init
<1> SUFFICES ASSUME Init PROVE Map!Init
  OBVIOUS
<1>1. tree \in Tree /\ tree.root = NULL /\ Good(tree)
  <2>1. IInv
    BY Started
  <2> QED BY <2>1 DEF Init, IInv, Good, Bounded
<1>2. Nodes(tree) = {}
  BY <1>1, GoodNodes, InTreeIs
<1>3. [k \in Nodes(tree) |-> value[k]] = [k \in {} |-> {}]
  BY <1>2
<1> QED BY <1>3 DEF Map!Init

LEMMA MapSteps ==
    ASSUME IInv, [Next]_vars
    PROVE  Map!Next \/ UNCHANGED Mapped
<1>1. CASE UNCHANGED vars
  BY <1>1 DEF vars, Mapped
<1>2. ASSUME NEW k \in Key, NEW v \in Value, Insert(k, v) PROVE Map!Next
  <2>1. Nodes(tree') = Nodes(tree) \cup {k}
    BY <1>2, StepNodes
  <2>2. Nodes(tree) \in SUBSET Key /\ value \in [Key -> Value \cup {NULL}]
    BY StepNodes, InTreeIs DEF IInv, Typed, Good, Bounded
  <2>3. value' = [value EXCEPT ![k] = v]
    BY <1>2 DEF Insert
  <2>4. DOMAIN Mapped = Nodes(tree) /\ \A m \in Nodes(tree) : Mapped[m] = value[m]
    BY DEF Mapped
  <2>5. Mapped' = [m \in Nodes(tree) \cup {k} |-> IF m = k THEN v ELSE Mapped[m]]
    <3>1. Mapped' = [m \in Nodes(tree) \cup {k} |-> value'[m]]
      BY <2>1 DEF Mapped
    <3>2. \A m \in Nodes(tree) \cup {k} : value'[m] = IF m = k THEN v ELSE Mapped[m]
      BY <2>2, <2>3, <2>4
    <3> HIDE DEF Mapped
    <3> QED BY <3>1, <3>2
  <2>6. Map!Put(k, v)
    BY <2>4, <2>5 DEF Map!Put, Mapped
  <2> QED BY <2>6 DEF Map!Next
<1>3. ASSUME NEW k \in Key, Remove(k) PROVE Map!Next
  <2> DEFINE M == Nodes(tree) \ ({k} \cup Lost(tree, k))
  <2>1. Nodes(tree') = M /\ k \in Nodes(tree)
    BY <1>3, StepNodes
  <2>2. Nodes(tree) \in SUBSET Key /\ value \in [Key -> Value \cup {NULL}]
    BY StepNodes, InTreeIs DEF IInv, Typed, Good, Bounded
  <2>3. value' = [value EXCEPT ![k] = NULL]
    BY <1>3 DEF Remove
  <2>4. DOMAIN Mapped = Nodes(tree) /\ \A m \in Nodes(tree) : Mapped[m] = value[m]
    BY DEF Mapped
  <2>5. Mapped' = [m \in M |-> Mapped[m]]
    <3>1. Mapped' = [m \in M |-> value'[m]]
      BY <2>1 DEF Mapped
    <3>2. \A m \in M : value'[m] = Mapped[m]
      BY <2>2, <2>3, <2>4
    <3> HIDE DEF Mapped, M
    <3> QED BY <3>1, <3>2
  <2>6. DOMAIN Mapped \ ({k} \cup WithIt[k]) = M
    BY <2>1, <2>4 DEF WithIt
  <2>7. Map!Drop(k)
    <3> HIDE DEF M
    <3>1. /\ k \in DOMAIN Mapped
          /\ Mapped' = [m \in DOMAIN Mapped \ ({k} \cup WithIt[k]) |-> Mapped[m]]
      BY <2>1, <2>4, <2>5, <2>6
    <3> QED BY <3>1 DEF Map!Drop, Mapped, WithIt
  <2> QED BY <2>7 DEF Map!Next
<1>4. WalkStart \/ WalkNext \/ WalkEnd \/ WalkStop => UNCHANGED Mapped
  BY DEF WalkStart, WalkNext, WalkEnd, WalkStop, Mapped
<1> QED BY <1>1, <1>2, <1>3, <1>4 DEF Next

\* What a removal takes along is one gap of the order at most.
LEMMA GapTied == IInv => Map!OneGapTied
<1> SUFFICES ASSUME IInv, NEW k \in Nodes(tree) PROVE Map!Tied(k)
  BY DEF Map!OneGapTied
<1>1. Good(tree) /\ Nodes(tree) = InTree(tree)
  BY GoodNodes DEF IInv
<1>2. Lost(tree, k) = Dropped(tree, k)
  BY <1>1, LostIs
<1>3. CASE Lost(tree, k) = {}
  BY <1>3 DEF Map!Tied
<1>4. CASE Lost(tree, k) # {}
  <2>1. PICK p, n \in Nodes(tree) :
              /\ p < n /\ n < k
              /\ \A m \in Nodes(tree) : ~(n < m /\ m < k)
              /\ Lost(tree, k) = {m \in Nodes(tree) : p < m /\ m < n}
    BY <1>1, <1>2, <1>4, DroppedGap
  <2> QED BY <2>1 DEF Map!Tied, Map!Between
<1> QED BY <1>3, <1>4

\* In every shape it gets into the tree is a map: an insertion touches its key
\* only, a removal takes its key and what the code drops with it, which is one
\* gap of the order in front of it, and nothing mixes up values.
THEOREM AvlImplementsMap == Spec => ImplementsMap
<1>1. Init => Map!Init
  BY MapStarts
<1>2. IInv /\ [Next]_vars => [Map!Next]_Mapped
  BY MapSteps
<1>3. IInv => Map!OneGapTied
  BY GapTied
<1> QED
  BY <1>1, <1>2, <1>3, AvlInvariance, PTL DEF Spec, ImplementsMap, Map!Spec, Mapped

=============================================================================
