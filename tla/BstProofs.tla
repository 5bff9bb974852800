------------------------------ MODULE BstProofs ------------------------------
(***************************************************************************)
(* Proofs about Bst: the links of lexbor/core/bst.c are those of a search  *)
(* tree after any history of calls, no entry is lost, and the tree         *)
(* implements SizeCache, a bag that hands out the best fit.                *)
(***************************************************************************)
EXTENDS Bst, FiniteSetTheorems, WellFoundedInduction, TLAPS

\* Trees by type.
Tree == [size : [Entry -> Size \cup {0}], item : [Entry -> Item \cup {NULL}],
         next : [Entry -> Pointer], left : [Entry -> Pointer],
         right : [Entry -> Pointer], parent : [Entry -> Pointer],
         root : Pointer, length : Nat]

-----------------------------------------------------------------------------
(* What is reached along links: the smallest closed set.                   *)

LEMMA ReachIs ==
    ASSUME NEW F \in SUBSET [Entry -> Pointer], NEW e \in Pointer
    PROVE  /\ Reach(F, e) \subseteq Entry
           /\ e \in Reach(F, e) \cup {NULL}
           /\ Closed(F, Reach(F, e))
           /\ \A C \in SUBSET Entry :
                 e \in C \cup {NULL} /\ Closed(F, C) => Reach(F, e) \subseteq C
<1>1. Reach(F, e) \subseteq Entry /\ e \in Reach(F, e) \cup {NULL}
  BY DEF Reach, Pointer
<1>2. \A C \in SUBSET Entry :
         e \in C \cup {NULL} /\ Closed(F, C) => Reach(F, e) \subseteq C
  BY DEF Reach
<1>3. ASSUME NEW f \in F, NEW x \in Reach(F, e)
      PROVE  f[x] \in Reach(F, e) \cup {NULL}
  <2>1. x \in Entry /\ f[x] \in Pointer
    BY <1>1
  <2>2. SUFFICES ASSUME f[x] # NULL, NEW C \in SUBSET Entry,
                        e \in C \cup {NULL}, Closed(F, C)
                 PROVE  f[x] \in C
    BY <2>1 DEF Reach, Pointer
  <2>3. x \in C
    BY <2>2 DEF Reach
  <2> QED BY <2>2, <2>3 DEF Closed
<1> QED BY <1>1, <1>2, <1>3 DEF Closed

LEMMA ReachTransitive ==
    ASSUME NEW F \in SUBSET [Entry -> Pointer], NEW e \in Pointer,
           NEW x \in Reach(F, e)
    PROVE  Reach(F, x) \subseteq Reach(F, e)
<1>1. x \in Pointer /\ Reach(F, e) \in SUBSET Entry /\ Closed(F, Reach(F, e))
  BY ReachIs DEF Pointer
<1> QED BY <1>1, ReachIs

LEMMA ReachNull ==
    ASSUME NEW F \in SUBSET [Entry -> Pointer] PROVE Reach(F, NULL) = {}
<1>1. {} \in SUBSET Entry /\ NULL \in {} \cup {NULL} /\ Closed(F, {})
  BY DEF Closed
<1> QED BY <1>1, ReachIs DEF Pointer

\* The same for the subtrees.
LEMMA SubtreeIs ==
    ASSUME NEW t \in Tree, NEW e \in Pointer
    PROVE  /\ Subtree(t, e) \subseteq Entry
           /\ e \in Subtree(t, e) \cup {NULL}
           /\ \A x \in Subtree(t, e) : /\ t.left[x] \in Subtree(t, e) \cup {NULL}
                                       /\ t.right[x] \in Subtree(t, e) \cup {NULL}
           /\ \A C \in SUBSET Entry :
                 /\ e \in C \cup {NULL}
                 /\ \A x \in C : /\ t.left[x] \in C \cup {NULL}
                                 /\ t.right[x] \in C \cup {NULL}
                 => Subtree(t, e) \subseteq C
           /\ \A x \in Subtree(t, e) : Subtree(t, x) \subseteq Subtree(t, e)
           /\ Subtree(t, NULL) = {}
<1>1. {t.left, t.right} \in SUBSET [Entry -> Pointer]
  BY DEF Tree
<1>2. \A x \in Subtree(t, e) : Subtree(t, x) \subseteq Subtree(t, e)
  BY <1>1, ReachTransitive DEF Subtree
<1>3. Subtree(t, NULL) = {}
  BY <1>1, ReachNull DEF Subtree
<1>4. /\ Subtree(t, e) \subseteq Entry
      /\ e \in Subtree(t, e) \cup {NULL}
      /\ Closed({t.left, t.right}, Subtree(t, e))
      /\ \A C \in SUBSET Entry :
            e \in C \cup {NULL} /\ Closed({t.left, t.right}, C)
               => Subtree(t, e) \subseteq C
  BY <1>1, ReachIs DEF Subtree
<1> QED BY <1>2, <1>3, <1>4 DEF Closed

-----------------------------------------------------------------------------
(* A search tree.                                                          *)

InTree(t) == Subtree(t, t.root)

Rooted(t) == t.root # NULL => t.parent[t.root] = NULL

ChildrenBack(t) ==
    \A e \in InTree(t) :
        /\ t.left[e] # NULL => t.parent[t.left[e]] = e
        /\ t.right[e] # NULL => t.parent[t.right[e]] = e

Ordered(t) ==
    \A e \in InTree(t) :
        /\ \A f \in Subtree(t, t.left[e]) : t.size[f] < t.size[e]
        /\ \A f \in Subtree(t, t.right[e]) : t.size[f] > t.size[e]

Sorted(t) == Rooted(t) /\ ChildrenBack(t) /\ Ordered(t)

LEMMA SizesNat ==
    ASSUME NEW t \in Tree, NEW e \in Entry PROVE t.size[e] \in Nat
<1>1. t.size[e] \in Size \cup {0}
  BY DEF Tree
<1>2. ASSUME NEW n \in Size PROVE n \in Nat
  BY SizeAssumption
<1>3. 0 \in Nat
  OBVIOUS
<1> QED BY <1>1, <1>2, <1>3

LEMMA SubtreeSplit ==
    ASSUME NEW t \in Tree, NEW e \in Entry
    PROVE  Subtree(t, e) =
              {e} \cup Subtree(t, t.left[e]) \cup Subtree(t, t.right[e])
<1> DEFINE C == {e} \cup Subtree(t, t.left[e]) \cup Subtree(t, t.right[e])
<1>1. e \in Pointer /\ t.left[e] \in Pointer /\ t.right[e] \in Pointer
  BY DEF Tree, Pointer
<1>2. C \subseteq Subtree(t, e)
  BY <1>1, SubtreeIs, NullAssumption
<1>3. C \in SUBSET Entry /\ e \in C \cup {NULL}
  BY <1>1, SubtreeIs
<1>4. ASSUME NEW x \in C
      PROVE  t.left[x] \in C \cup {NULL} /\ t.right[x] \in C \cup {NULL}
  <2>1. CASE x = e
    BY <1>1, <2>1, SubtreeIs
  <2>2. CASE x \in Subtree(t, t.left[e])
    BY <1>1, <2>2, SubtreeIs
  <2>3. CASE x \in Subtree(t, t.right[e])
    BY <1>1, <2>3, SubtreeIs
  <2> QED BY <2>1, <2>2, <2>3
<1> HIDE DEF C
<1>5. Subtree(t, e) \subseteq C
  BY <1>1, <1>3, <1>4, SubtreeIs
<1> QED BY <1>2, <1>5 DEF C

LEMMA InTreeIs ==
    ASSUME NEW t \in Tree
    PROVE  /\ InTree(t) \subseteq Entry
           /\ t.root \in InTree(t) \cup {NULL}
           /\ t.root = NULL => InTree(t) = {}
           /\ \A x \in InTree(t) :
                 /\ t.left[x] \in InTree(t) \cup {NULL}
                 /\ t.right[x] \in InTree(t) \cup {NULL}
                 /\ Subtree(t, x) \subseteq InTree(t)
                 /\ x \in Subtree(t, x)
<1>1. t.root \in Pointer
  BY DEF Tree
<1>2. \A x \in Entry : x \in Subtree(t, x)
  BY SubtreeIs, NullAssumption DEF Pointer
<1> QED BY <1>1, <1>2, SubtreeIs DEF InTree

\* Below x, every other entry has a parent below x that knows it.
LEMMA ParentsBelow ==
    ASSUME NEW t \in Tree, ChildrenBack(t), NEW x \in InTree(t),
           NEW z \in Subtree(t, x), z # x
    PROVE  /\ t.parent[z] \in Subtree(t, x)
           /\ z \in {t.left[t.parent[z]], t.right[t.parent[z]]}
<1> DEFINE C == {y \in Subtree(t, x) :
                    y = x \/ /\ t.parent[y] \in Subtree(t, x)
                             /\ y \in {t.left[t.parent[y]], t.right[t.parent[y]]}}
<1>1. x \in Pointer /\ C \in SUBSET Entry /\ x \in C
  BY InTreeIs DEF Pointer
<1>2. ASSUME NEW y \in C
      PROVE  t.left[y] \in C \cup {NULL} /\ t.right[y] \in C \cup {NULL}
  <2>1. y \in Subtree(t, x) /\ y \in InTree(t)
    BY InTreeIs
  <2>2. /\ t.left[y] \in Subtree(t, x) \cup {NULL}
        /\ t.right[y] \in Subtree(t, x) \cup {NULL}
    BY <1>1, <2>1, SubtreeIs
  <2> QED BY <2>1, <2>2 DEF ChildrenBack
<1>3. Subtree(t, x) \subseteq C
  BY <1>1, <1>2, SubtreeIs
<1> QED BY <1>3

\* In a search tree nothing is below itself.
LEMMA SortedFacts ==
    ASSUME NEW t \in Tree, Sorted(t), NEW x \in InTree(t)
    PROVE  /\ x \in Entry
           /\ x \notin Subtree(t, t.left[x]) /\ x \notin Subtree(t, t.right[x])
           /\ t.left[x] # x /\ t.right[x] # x
           /\ Subtree(t, t.left[x]) \cap Subtree(t, t.right[x]) = {}
           /\ t.left[x] # NULL => t.left[x] # t.right[x]
           /\ t.left[x] # t.root \/ t.root = NULL
           /\ t.right[x] # t.root \/ t.root = NULL
           /\ x # t.root => t.parent[x] \in InTree(t) \ {x}
           /\ x # t.root => x \in {t.left[t.parent[x]], t.right[t.parent[x]]}
           /\ x = t.root => t.parent[x] = NULL
<1>0. x \in Entry /\ t.left[x] \in Pointer /\ t.right[x] \in Pointer
  BY InTreeIs DEF Tree
<1>1. \A f \in Entry : t.size[f] \in Nat
  BY SizesNat
<1>2. x \notin Subtree(t, t.left[x]) /\ x \notin Subtree(t, t.right[x])
  BY <1>0, <1>1 DEF Sorted, Ordered
<1>3. Subtree(t, t.left[x]) \cap Subtree(t, t.right[x]) = {}
  <2> SUFFICES ASSUME NEW f \in Subtree(t, t.left[x]),
                      f \in Subtree(t, t.right[x])
               PROVE  FALSE
    OBVIOUS
  <2>1. f \in Entry /\ t.size[f] \in Nat /\ t.size[x] \in Nat
    BY <1>0, <1>1, SubtreeIs
  <2> QED BY <2>1 DEF Sorted, Ordered
<1>4. /\ t.left[x] \in Subtree(t, t.left[x]) \cup {NULL}
      /\ t.right[x] \in Subtree(t, t.right[x]) \cup {NULL}
  BY <1>0, SubtreeIs
<1>5. t.root # NULL => t.left[x] # t.root /\ t.right[x] # t.root
  BY <1>0, NullAssumption DEF Sorted, Rooted, ChildrenBack
<1>6. ASSUME x # t.root
      PROVE  /\ t.parent[x] \in InTree(t)
             /\ x \in {t.left[t.parent[x]], t.right[t.parent[x]]}
  <2>1. t.root # NULL /\ t.root \in InTree(t)
    BY InTreeIs
  <2> QED BY <1>6, <2>1, ParentsBelow DEF InTree, Sorted
<1>7. x # t.root => t.parent[x] # x
  <2> SUFFICES ASSUME x # t.root, t.parent[x] = x PROVE FALSE
    OBVIOUS
  <2> QED BY <1>0, <1>2, <1>4, <1>6, NullAssumption
<1>8. x = t.root => t.parent[x] = NULL
  BY <1>0, NullAssumption DEF Sorted, Rooted
<1> QED BY <1>0, <1>2, <1>3, <1>4, <1>5, <1>6, <1>7, <1>8, NullAssumption

-----------------------------------------------------------------------------
(* Loops along one link.                                                   *)

LEMMA ReachSplit ==
    ASSUME NEW f \in [Entry -> Pointer], NEW e \in Entry
    PROVE  Reach({f}, e) = {e} \cup Reach({f}, f[e])
<1> DEFINE C == {e} \cup Reach({f}, f[e])
<1>1. {f} \in SUBSET [Entry -> Pointer] /\ e \in Pointer /\ f[e] \in Pointer
  BY DEF Pointer
<1>2. e \in Reach({f}, e) /\ f[e] \in Reach({f}, e) \cup {NULL}
  BY <1>1, ReachIs, NullAssumption DEF Closed
<1>3. C \subseteq Reach({f}, e)
  BY <1>1, <1>2, ReachTransitive, ReachNull
<1>4. C \in SUBSET Entry /\ e \in C \cup {NULL} /\ Closed({f}, C)
  BY <1>1, ReachIs DEF Closed
<1> HIDE DEF C
<1>5. Reach({f}, e) \subseteq C
  BY <1>1, <1>4, ReachIs
<1> QED BY <1>3, <1>5 DEF C

\* Of two entries that a loop visits, it visits one from the other.
LEMMA ReachLinear ==
    ASSUME NEW f \in [Entry -> Pointer], NEW e \in Pointer,
           NEW y \in Reach({f}, e), NEW z \in Reach({f}, e)
    PROVE  y \in Reach({f}, z) \/ z \in Reach({f}, y)
<1> DEFINE C == {x \in Reach({f}, e) :
                    x \in Reach({f}, z) \/ z \in Reach({f}, x)}
<1>1. {f} \in SUBSET [Entry -> Pointer] /\ Reach({f}, e) \subseteq Entry
  BY ReachIs
<1>2. e \in C \cup {NULL}
  BY <1>1, ReachIs
<1>3. ASSUME NEW x \in C PROVE f[x] \in C \cup {NULL}
  <2>1. f[x] \in Reach({f}, e) \cup {NULL} /\ x \in Entry
    BY <1>1, ReachIs DEF Closed
  <2>2. CASE x \in Reach({f}, z)
    <3>1. f[x] \in Reach({f}, z) \cup {NULL}
      BY <1>1, <2>2, ReachIs DEF Closed, Pointer
    <3> QED BY <2>1, <3>1
  <2>3. CASE z \in Reach({f}, x)
    <3>1. z = x \/ z \in Reach({f}, f[x])
      BY <2>1, <2>3, ReachSplit
    <3>2. CASE z = x
      <4>1. f[x] \in Reach({f}, z) \cup {NULL}
        BY <1>1, <2>1, <2>3, <3>2, ReachIs DEF Closed, Pointer
      <4> QED BY <2>1, <4>1
    <3> QED BY <2>1, <3>1, <3>2
  <2> QED BY <2>2, <2>3
<1>4. C \in SUBSET Entry /\ Closed({f}, C)
  BY <1>1, <1>3 DEF Closed
<1> HIDE DEF C
<1>5. Reach({f}, e) \subseteq C
  BY <1>1, <1>2, <1>4, ReachIs
<1> QED BY <1>5 DEF C

\* Among entries of a search tree, one has nothing of them below it.
LEMMA LowestExists ==
    ASSUME NEW t \in Tree, Sorted(t), NEW S \in SUBSET InTree(t), S # {}
    PROVE  \E x \in S : S \cap Subtree(t, x) = {x}
<1> DEFINE R == StrictSubsetOrdering(Entry)
           D == {Subtree(t, x) : x \in S}
<1>1. S \subseteq Entry /\ \A x \in S : x \in Pointer /\ x \in Subtree(t, x)
  BY InTreeIs DEF Pointer
<1>2. \A x \in S : Subtree(t, x) \in SUBSET Entry
  BY <1>1, SubtreeIs
<1>3. D \subseteq FiniteSubsetsOf(Entry)
  BY <1>2, FS_Subset, EntryAssumption DEF FiniteSubsetsOf
<1>4. IsWellFoundedOn(R, FiniteSubsetsOf(Entry))
  BY FS_StrictSubsetOrderingWellFounded
<1>5. D # {}
  OBVIOUS
<1>6. PICK d \in D : \A c \in D : ~ (<<c, d>> \in R)
  <2> HIDE DEF D, R
  <2> QED BY <1>3, <1>4, <1>5, WFMin
<1>7. PICK x \in S : d = Subtree(t, x)
  OBVIOUS
<1>8. ASSUME NEW y \in S, y \in Subtree(t, x), y # x PROVE FALSE
  <2>1. x \in Entry /\ x \in InTree(t)
    BY <1>1
  <2>2. y \in Subtree(t, t.left[x]) \/ y \in Subtree(t, t.right[x])
    BY <1>8, <2>1, SubtreeSplit
  <2>3. t.left[x] \in Pointer /\ t.right[x] \in Pointer
    BY <2>1 DEF Tree
  <2>4. x \notin Subtree(t, y)
    BY <2>1, <2>2, <2>3, SubtreeIs, SortedFacts
  <2>5. Subtree(t, y) \subseteq Subtree(t, x)
    BY <1>1, <1>8, SubtreeIs
  <2>6. <<Subtree(t, y), Subtree(t, x)>> \in R
    BY <1>1, <1>2, <2>4, <2>5 DEF StrictSubsetOrdering
  <2> QED BY <1>6, <1>7, <2>6
<1> QED BY <1>1, <1>8

\* A loop down a search tree ends.
LEMMA EndReached ==
    ASSUME NEW t \in Tree, Sorted(t), NEW f \in [Entry -> Pointer],
           NEW e \in Entry, Reach({f}, e) \subseteq InTree(t),
           \A x \in Reach({f}, e) : f[x] \in {NULL, t.left[x], t.right[x]}
    PROVE  /\ End(f, e) \in Reach({f}, e)
           /\ f[End(f, e)] = NULL
<1>1. {f} \in SUBSET [Entry -> Pointer] /\ e \in Pointer
  BY DEF Pointer
<1>2. e \in Reach({f}, e)
  BY <1>1, ReachIs, NullAssumption
<1>3. PICK x \in Reach({f}, e) : Reach({f}, e) \cap Subtree(t, x) = {x}
  BY <1>2, LowestExists
<1>4. f[x] = NULL
  <2>0. SUFFICES ASSUME f[x] # NULL PROVE FALSE
    OBVIOUS
  <2>1. f[x] \in Reach({f}, e)
    BY <1>1, <2>0, ReachIs DEF Closed
  <2>2. x \in InTree(t) /\ x \in Entry
    BY InTreeIs
  <2>3. f[x] \in Subtree(t, x)
    BY <2>0, <2>2, SubtreeIs, InTreeIs DEF Pointer
  <2>4. f[x] = x
    BY <1>3, <2>1, <2>3
  <2>5. x \in {t.left[x], t.right[x]}
    BY <2>0, <2>2, <2>4, NullAssumption
  <2> QED BY <2>2, <2>5, SortedFacts
<1> QED BY <1>3, <1>4 DEF End

-----------------------------------------------------------------------------
(* The search for a size.                                                  *)

LEMMA TowardIs ==
    ASSUME NEW t \in Tree, NEW n
    PROVE  /\ Toward(t, n) \in [Entry -> Pointer]
           /\ \A x \in Entry :
                /\ t.size[x] = n => Toward(t, n)[x] = NULL
                /\ t.size[x] # n /\ n > t.size[x] => Toward(t, n)[x] = t.right[x]
                /\ t.size[x] # n /\ ~ (n > t.size[x]) => Toward(t, n)[x] = t.left[x]
                /\ Toward(t, n)[x] \in {NULL, t.left[x], t.right[x]}
  BY DEF Toward, Tree, Pointer

\* The search passes by every entry above the one it has reached on the side
\* of that one, and no entry of the size it looks for, or of a greater size
\* unless it has seen a smaller one of these, is left behind.
LEMMA SearchPath ==
    ASSUME NEW t \in Tree, Sorted(t), NEW n \in Nat,
           NEW y \in Reach({Toward(t, n)}, t.root)
    PROVE  /\ y \in InTree(t)
           /\ \A x \in InTree(t) :
                 y \in Subtree(t, x) /\ y # x =>
                    /\ t.size[x] # n
                    /\ y \in Subtree(t, Toward(t, n)[x])
           /\ \A f \in InTree(t) :
                 \/ f \in Subtree(t, y)
                 \/ t.size[f] < n
                 \/ t.size[f] > n /\ \E h \in LeftTurns(t, n) : t.size[h] <= t.size[f]
<1> DEFINE g == Toward(t, n)
           P == Reach({g}, t.root)
           Sides(z) == \A x \in InTree(t) :
                          z \in Subtree(t, x) /\ z # x =>
                             t.size[x] # n /\ z \in Subtree(t, g[x])
           Ahead(z) == \A f \in InTree(t) :
                          \/ f \in Subtree(t, z)
                          \/ t.size[f] < n
                          \/ /\ t.size[f] > n
                             /\ \E h \in LeftTurns(t, n) : t.size[h] <= t.size[f]
           C == {z \in P : z \in InTree(t) /\ Sides(z) /\ Ahead(z)}
<1>1. g \in [Entry -> Pointer] /\ {g} \in SUBSET [Entry -> Pointer]
  BY TowardIs
<1>2. t.root \in Pointer /\ P \subseteq Entry
  BY <1>1, ReachIs DEF Tree
<1>3. ASSUME t.root # NULL PROVE t.root \in C
  <2>1. t.root \in P /\ t.root \in InTree(t) /\ t.root \in Entry
    BY <1>1, <1>2, <1>3, ReachIs, InTreeIs DEF Pointer
  <2>2. Ahead(t.root)
    BY DEF InTree
  <2>3. ASSUME NEW x \in InTree(t), t.root \in Subtree(t, x), t.root # x
        PROVE  FALSE
    <3>1. t.parent[t.root] \in Subtree(t, x)
      BY <2>3, ParentsBelow DEF Sorted
    <3>2. Subtree(t, x) \subseteq Entry
      BY InTreeIs
    <3> QED BY <1>3, <3>1, <3>2, NullAssumption DEF Sorted, Rooted
  <2> QED BY <2>1, <2>2, <2>3
<1>4. ASSUME NEW z \in C, g[z] # NULL PROVE g[z] \in C
  <2> DEFINE w == g[z]
  <2>1. z \in Entry /\ z \in InTree(t) /\ z \in P
    BY <1>2
  <2>2. w \in P
    BY <1>1, <1>2, <1>4, <2>1, ReachIs DEF Closed
  <2>3. t.size[z] # n /\ w \in {t.left[z], t.right[z]} /\ w \in InTree(t)
    BY <1>4, <2>1, TowardIs, InTreeIs
  <2>4. t.parent[w] = z /\ w \in Subtree(t, w)
    BY <1>4, <2>1, <2>3, InTreeIs DEF Sorted, ChildrenBack
  <2>5. Sides(w)
    <3> SUFFICES ASSUME NEW x \in InTree(t), w \in Subtree(t, x), w # x
                 PROVE  t.size[x] # n /\ w \in Subtree(t, g[x])
      OBVIOUS
    <3>1. z \in Subtree(t, x)
      BY <2>4, ParentsBelow DEF Sorted
    <3>2. CASE z = x
      BY <2>3, <2>4, <3>2
    <3>3. CASE z # x
      <4>1. t.size[x] # n /\ z \in Subtree(t, g[x])
        BY <3>1, <3>3
      <4>2. x \in Entry /\ g[x] \in Pointer
        BY <1>1, InTreeIs
      <4>3. t.left[z] \in Subtree(t, g[x]) \cup {NULL}
            /\ t.right[z] \in Subtree(t, g[x]) \cup {NULL}
        BY <4>1, <4>2, SubtreeIs
      <4> QED BY <1>4, <2>3, <4>1, <4>3
    <3> QED BY <3>2, <3>3
  <2>6. Ahead(w)
    <3> SUFFICES ASSUME NEW f \in InTree(t), f \in Subtree(t, z),
                        f \notin Subtree(t, w)
                 PROVE  \/ t.size[f] < n
                        \/ /\ t.size[f] > n
                           /\ \E h \in LeftTurns(t, n) : t.size[h] <= t.size[f]
      OBVIOUS
    <3>1. t.size[f] \in Nat /\ t.size[z] \in Nat
      BY <2>1, InTreeIs, SizesNat
    <3>2. t.size[z] > n => z \in LeftTurns(t, n)
      BY <2>1 DEF LeftTurns
    <3>3. /\ n > t.size[z] => w = t.right[z]
          /\ t.size[z] > n => w = t.left[z]
      BY <2>1, <3>1, TowardIs
    <3>4. \/ f = z
          \/ f \in Subtree(t, t.left[z])
          \/ f \in Subtree(t, t.right[z])
      BY <2>1, SubtreeSplit
    <3>5. CASE f = z
      BY <2>3, <3>1, <3>2, <3>5
    <3>6. CASE f \in Subtree(t, t.left[z])
      <4>1. t.size[f] < t.size[z] /\ w # t.left[z]
        BY <2>1, <3>6 DEF Sorted, Ordered
      <4> QED BY <2>3, <3>1, <3>3, <4>1
    <3>7. CASE f \in Subtree(t, t.right[z])
      <4>1. t.size[f] > t.size[z] /\ w # t.right[z]
        BY <2>1, <3>7 DEF Sorted, Ordered
      <4>2. t.size[z] > n
        BY <2>3, <3>1, <3>3, <4>1
      <4> QED BY <3>1, <3>2, <4>1, <4>2
    <3> QED BY <3>4, <3>5, <3>6, <3>7
  <2> QED BY <2>2, <2>3, <2>5, <2>6
<1>5. C \in SUBSET Entry /\ Closed({g}, C)
  BY <1>2, <1>4 DEF Closed
<1> HIDE DEF C
<1>6. P \subseteq C
  BY <1>1, <1>2, <1>3, <1>5, ReachIs
<1> QED BY <1>6 DEF C

\* The entry at which the search stops: that of the size, or one with room on
\* the side the size belongs to.
LEMMA StopIs ==
    ASSUME NEW t \in Tree, Sorted(t), NEW n \in Nat, t.root # NULL
    PROVE  /\ Stop(t, n) \in Reach({Toward(t, n)}, t.root)
           /\ Stop(t, n) \in InTree(t)
           /\ Toward(t, n)[Stop(t, n)] = NULL
<1>1. t.root \in Entry
  BY DEF Tree, Pointer
<1>2. Toward(t, n) \in [Entry -> Pointer]
  BY TowardIs
<1>3. Reach({Toward(t, n)}, t.root) \subseteq InTree(t)
  BY SearchPath
<1>4. \A x \in Reach({Toward(t, n)}, t.root) :
         Toward(t, n)[x] \in {NULL, t.left[x], t.right[x]}
  BY <1>3, InTreeIs, TowardIs
<1> QED BY <1>1, <1>2, <1>3, <1>4, EndReached DEF Stop

\* The search finds the size if it is there.
LEMMA ExactIs ==
    ASSUME NEW t \in Tree, Sorted(t), NEW n \in Nat
    PROVE  /\ Exact(t, n) = NULL => \A f \in InTree(t) : t.size[f] # n
           /\ Exact(t, n) # NULL =>
                 Exact(t, n) \in InTree(t) /\ t.size[Exact(t, n)] = n
<1>1. CASE t.root = NULL
  BY <1>1, InTreeIs DEF Exact
<1>2. CASE t.root # NULL
  <2> DEFINE s == Stop(t, n)
  <2>1. /\ s \in Reach({Toward(t, n)}, t.root) /\ s \in InTree(t)
        /\ Toward(t, n)[s] = NULL
    BY <1>2, StopIs
  <2>2. s \in Entry /\ s # NULL
    BY <2>1, InTreeIs, NullAssumption
  <2>3. CASE t.size[s] = n
    BY <1>2, <2>1, <2>2, <2>3 DEF Exact
  <2>4. ASSUME t.size[s] # n, NEW f \in InTree(t), t.size[f] = n PROVE FALSE
    <3>1. f \in Subtree(t, s)
      BY <2>1, <2>4, SearchPath
    <3>2. \/ f \in Subtree(t, t.left[s])
          \/ f \in Subtree(t, t.right[s])
      BY <2>2, <2>4, <3>1, SubtreeSplit
    <3>3. f \in Entry /\ t.size[s] \in Nat
      BY <2>2, InTreeIs, SizesNat
    <3>4. Subtree(t, NULL) = {}
      BY SubtreeIs DEF Pointer
    <3>5. f \in Subtree(t, t.left[s]) => t.left[s] # NULL /\ n < t.size[s]
      BY <2>1, <2>4, <3>4 DEF Sorted, Ordered
    <3>6. f \in Subtree(t, t.right[s]) => t.right[s] # NULL /\ n > t.size[s]
      BY <2>1, <2>4, <3>4 DEF Sorted, Ordered
    <3> QED BY <2>1, <2>2, <2>4, <3>2, <3>3, <3>5, <3>6, TowardIs
  <2>5. t.size[s] # n => Exact(t, n) = NULL
    BY DEF Exact
  <2> QED BY <2>3, <2>4, <2>5
<1> QED BY <1>1, <1>2

\* Everything that the search for n visits from an entry is below it.
LEMMA SearchBelow ==
    ASSUME NEW t \in Tree, NEW n, NEW e \in Pointer
    PROVE  Reach({Toward(t, n)}, e) \subseteq Subtree(t, e)
<1>1. /\ {Toward(t, n)} \in SUBSET [Entry -> Pointer]
      /\ Subtree(t, e) \in SUBSET Entry
      /\ e \in Subtree(t, e) \cup {NULL}
  BY TowardIs, SubtreeIs
<1>2. ASSUME NEW x \in Subtree(t, e)
      PROVE  Toward(t, n)[x] \in Subtree(t, e) \cup {NULL}
  <2>1. x \in Entry
    BY <1>1
  <2>2. /\ t.left[x] \in Subtree(t, e) \cup {NULL}
        /\ t.right[x] \in Subtree(t, e) \cup {NULL}
    BY SubtreeIs
  <2> QED BY <2>1, <2>2, TowardIs
<1>3. Closed({Toward(t, n)}, Subtree(t, e))
  BY <1>2 DEF Closed
<1> QED BY <1>1, <1>3, ReachIs

\* At a left turn the search goes on to the left.
LEMMA LeftTurnsIs ==
    ASSUME NEW t \in Tree, Sorted(t), NEW n \in Nat, NEW h \in LeftTurns(t, n)
    PROVE  /\ h \in InTree(t) /\ h \in Entry /\ t.size[h] \in Nat /\ n < t.size[h]
           /\ h \in Reach({Toward(t, n)}, t.root)
           /\ Toward(t, n)[h] = t.left[h]
           /\ \A z \in Reach({Toward(t, n)}, h) :
                 z = h \/ z \in Reach({Toward(t, n)}, t.left[h])
<1>1. h \in Reach({Toward(t, n)}, t.root) /\ n < t.size[h]
  BY DEF LeftTurns
<1>2. h \in InTree(t) /\ h \in Entry
  BY <1>1, SearchPath, InTreeIs
<1>3. t.size[h] \in Nat
  BY <1>2, SizesNat
<1>4. Toward(t, n)[h] = t.left[h]
  BY <1>1, <1>2, <1>3, TowardIs
<1> QED BY <1>1, <1>2, <1>3, <1>4, TowardIs, ReachSplit

\* The last left turn is the best fit if there is no exact one.
LEMMA CloseIs ==
    ASSUME NEW t \in Tree, Sorted(t), NEW n \in Nat
    PROVE  /\ Close(t, n) = NULL => \A f \in InTree(t) : t.size[f] < n
           /\ Close(t, n) # NULL =>
                 /\ Close(t, n) \in InTree(t)
                 /\ t.size[Close(t, n)] >= n
                 /\ \A f \in InTree(t) :
                       t.size[f] >= n => t.size[Close(t, n)] <= t.size[f]
<1> DEFINE g == Toward(t, n)
           P == Reach({g}, t.root)
           L == LeftTurns(t, n)
<1>0. \A f \in InTree(t) : f \in Entry /\ t.size[f] \in Nat
  BY InTreeIs, SizesNat
<1>1. CASE Exact(t, n) # NULL
  BY <1>0, <1>1, ExactIs DEF Close
<1>3. ASSUME NEW h \in LeftTurns(t, n)
      PROVE  /\ h \in P /\ h \in InTree(t) /\ h \in Entry
             /\ t.size[h] \in Nat /\ n < t.size[h]
             /\ \A z \in Reach({g}, h) : z = h \/ z \in Reach({g}, t.left[h])
  <2>1. /\ h \in InTree(t) /\ h \in Entry /\ t.size[h] \in Nat /\ n < t.size[h]
        /\ h \in Reach({Toward(t, n)}, t.root)
    BY LeftTurnsIs
  <2>2. \A z \in Reach({Toward(t, n)}, h) :
           z = h \/ z \in Reach({Toward(t, n)}, t.left[h])
    BY LeftTurnsIs
  <2> QED BY <2>1, <2>2
<1>2. CASE Exact(t, n) = NULL
  <2>1. ASSUME NEW f \in InTree(t), t.size[f] >= n
        PROVE  \E h \in L : t.size[h] <= t.size[f]
    <3>1. t.size[f] > n
      BY <1>0, <1>2, <2>1, ExactIs
    <3>2. t.root # NULL
      BY InTreeIs
    <3> DEFINE s == Stop(t, n)
    <3>3. s \in P /\ s \in InTree(t) /\ g[s] = NULL
      BY <3>2, StopIs
    <3>4. s \in Entry /\ t.size[s] \in Nat /\ t.size[s] # n
      BY <1>0, <1>2, <3>3, ExactIs
    <3>5. CASE f \notin Subtree(t, s)
      <4>1. \/ f \in Subtree(t, s)
            \/ t.size[f] < n
            \/ t.size[f] > n /\ \E h \in LeftTurns(t, n) : t.size[h] <= t.size[f]
        BY <3>3, SearchPath
      <4> QED BY <1>0, <3>1, <3>5, <4>1
    <3>6. CASE f \in Subtree(t, s)
      <4>1. \/ f = s
            \/ f \in Subtree(t, t.left[s])
            \/ f \in Subtree(t, t.right[s])
        BY <3>4, <3>6, SubtreeSplit
      <4>2. Subtree(t, NULL) = {}
        BY SubtreeIs DEF Pointer
      <4>3. f \in Subtree(t, t.right[s]) =>
               t.right[s] # NULL /\ t.size[f] > t.size[s]
        BY <3>3, <4>2 DEF Sorted, Ordered
      <4>4. f \in Subtree(t, t.left[s]) =>
               t.left[s] # NULL /\ t.size[f] < t.size[s]
        BY <3>3, <4>2 DEF Sorted, Ordered
      <4>5. t.size[s] > n /\ t.size[s] <= t.size[f]
        BY <1>0, <3>1, <3>3, <3>4, <4>1, <4>3, <4>4, TowardIs
      <4>6. s \in L
        BY <3>3, <4>5 DEF LeftTurns
      <4> QED BY <4>5, <4>6
    <3> QED BY <3>5, <3>6
  <2>2. CASE L = {}
    <3>1. Close(t, n) = NULL
      BY <1>2, <2>2 DEF Close
    <3> QED BY <1>0, <2>1, <2>2, <3>1
  <2>3. CASE L # {}
    <3>1. L \subseteq InTree(t)
      BY <1>3
    <3>2. PICK x \in L : L \cap Subtree(t, x) = {x}
      BY <2>3, <3>1, LowestExists
    <3>3. L \cap Reach({g}, t.left[x]) = {}
      <4>1. t.left[x] \in Pointer /\ x \in InTree(t) /\ x \in Entry
        BY <3>1, <1>0 DEF Tree
      <4>2. Reach({g}, t.left[x]) \subseteq Subtree(t, t.left[x])
        BY <4>1, SearchBelow
      <4>3. Subtree(t, t.left[x]) \subseteq Subtree(t, x) \ {x}
        BY <4>1, SubtreeSplit, SortedFacts
      <4> QED BY <3>2, <4>2, <4>3
    <3> DEFINE c == Close(t, n)
    <3>4. c \in L /\ L \cap Reach({g}, t.left[c]) = {}
      BY <1>2, <2>3, <3>2, <3>3 DEF Close
    <3>5. /\ c \in InTree(t) /\ c \in Entry /\ t.size[c] \in Nat /\ t.size[c] > n
          /\ \A z \in Reach({g}, c) : z = c \/ z \in Reach({g}, t.left[c])
      BY <3>4, <1>3
    <3>6. ASSUME NEW h \in L PROVE t.size[c] <= t.size[h]
      <4>1. /\ h \in P /\ h \in InTree(t) /\ h \in Entry /\ t.size[h] \in Nat
            /\ \A z \in Reach({g}, h) : z = h \/ z \in Reach({g}, t.left[h])
        BY <1>3
      <4>2. c \in P
        BY <3>4 DEF LeftTurns
      <4>3. c \in Reach({g}, h) \/ h \in Reach({g}, c)
        <5>1. g \in [Entry -> Pointer] /\ t.root \in Pointer
          BY TowardIs DEF Tree
        <5> QED BY <4>1, <4>2, <5>1, ReachLinear
      <4>4. h # c => c \in Reach({g}, t.left[h])
        BY <3>4, <3>5, <4>1, <4>3
      <4>5. t.left[h] \in Pointer
        BY <4>1 DEF Tree
      <4>6. h # c => c \in Subtree(t, t.left[h])
        BY <4>4, <4>5, SearchBelow
      <4> QED BY <3>5, <4>1, <4>6 DEF Sorted, Ordered
    <3>7. c # NULL
      BY <3>5, NullAssumption
    <3>8. \A f \in InTree(t) : t.size[f] >= n => t.size[c] <= t.size[f]
      <4> SUFFICES ASSUME NEW f \in InTree(t), t.size[f] >= n
                   PROVE  t.size[c] <= t.size[f]
        OBVIOUS
      <4>1. PICK h \in L : t.size[h] <= t.size[f]
        BY <2>1
      <4>2. t.size[h] \in Nat /\ t.size[c] <= t.size[h]
        BY <3>6, <1>3
      <4> QED BY <1>0, <3>5, <4>1, <4>2
    <3> QED BY <3>5, <3>7, <3>8
  <2> QED BY <2>2, <2>3
<1> QED BY <1>1, <1>2

\* The first entry of a subtree is the one of least size; the entry above it
\* has it on the left.
LEMMA LeftmostIs ==
    ASSUME NEW t \in Tree, Sorted(t), NEW r \in InTree(t)
    PROVE  LET m == Leftmost(t, r) IN
           /\ m \in Subtree(t, r) /\ m \in InTree(t) /\ t.left[m] = NULL
           /\ \A f \in Subtree(t, r) : f # m => t.size[f] > t.size[m]
           /\ m # r => /\ t.parent[m] \in Subtree(t, r)
                       /\ t.left[t.parent[m]] = m
<1> DEFINE P == Reach({t.left}, r)
           C == {y \in P : /\ y \in Subtree(t, r)
                           /\ \A f \in Subtree(t, r) :
                                 f \in Subtree(t, y) \/ t.size[f] > t.size[y]
                           /\ y # r => /\ t.parent[y] \in Subtree(t, r)
                                       /\ t.left[t.parent[y]] = y}
<1>1. t.left \in [Entry -> Pointer] /\ {t.left} \in SUBSET [Entry -> Pointer]
  BY DEF Tree
<1>2. r \in Entry /\ r \in Pointer /\ Subtree(t, r) \subseteq InTree(t)
  BY InTreeIs DEF Pointer
<1>3. r \in P /\ P \subseteq Entry
  BY <1>1, <1>2, ReachIs, NullAssumption
<1>4. r \in C
  BY <1>2, <1>3, InTreeIs
<1>5. ASSUME NEW y \in C, t.left[y] # NULL PROVE t.left[y] \in C
  <2> DEFINE w == t.left[y]
  <2>1. y \in P /\ y \in Entry /\ y \in InTree(t) /\ y \in Subtree(t, r)
    BY <1>2, InTreeIs
  <2>2. w \in P
    BY <1>1, <1>2, <1>5, <2>1, ReachIs DEF Closed
  <2>3. w \in Subtree(t, r) /\ t.parent[w] = y
    BY <1>2, <1>5, <2>1, SubtreeIs DEF Sorted, ChildrenBack
  <2>4. w \in Subtree(t, w) /\ w \in Entry
    BY <1>2, <2>3, InTreeIs
  <2>5. t.size[w] < t.size[y]
    BY <2>1, <2>4 DEF Sorted, Ordered
  <2>6. ASSUME NEW f \in Subtree(t, r)
        PROVE  f \in Subtree(t, w) \/ t.size[f] > t.size[w]
    <3>1. t.size[f] \in Nat /\ t.size[w] \in Nat /\ t.size[y] \in Nat
      BY <1>2, <2>1, <2>4, InTreeIs, SizesNat
    <3>2. CASE t.size[f] > t.size[y]
      BY <2>5, <3>1, <3>2
    <3>3. CASE f \in Subtree(t, y)
      <4>1. f = y \/ f \in Subtree(t, w) \/ f \in Subtree(t, t.right[y])
        BY <2>1, <3>3, SubtreeSplit
      <4>2. f \in Subtree(t, t.right[y]) => t.size[f] > t.size[y]
        BY <2>1 DEF Sorted, Ordered
      <4> QED BY <2>5, <3>1, <4>1, <4>2
    <3> QED BY <3>2, <3>3
  <2> QED BY <2>1, <2>2, <2>3, <2>6
<1>6. C \in SUBSET Entry /\ Closed({t.left}, C)
  BY <1>3, <1>5 DEF Closed
<1>7. P \subseteq C
  <2> HIDE DEF C
  <2> QED BY <1>1, <1>2, <1>4, <1>6, ReachIs
<1>8. \A x \in P : t.left[x] \in {NULL, t.left[x], t.right[x]}
  OBVIOUS
<1>9. P \subseteq InTree(t)
  BY <1>2, <1>7
<1> DEFINE m == Leftmost(t, r)
<1>10. m \in P /\ t.left[m] = NULL
  BY <1>1, <1>2, <1>8, <1>9, EndReached DEF Leftmost
<1>11. m \in C
  BY <1>7, <1>10
<1>12. m \in Entry /\ t.left[m] = NULL /\ m \in InTree(t)
  BY <1>2, <1>10, <1>11, InTreeIs
<1>13. \A f \in Subtree(t, r) : f # m => t.size[f] > t.size[m]
  <2> SUFFICES ASSUME NEW f \in Subtree(t, r), f # m, f \in Subtree(t, m)
               PROVE  t.size[f] > t.size[m]
    BY <1>11
  <2>1. Subtree(t, t.left[m]) = {}
    BY <1>12, SubtreeIs DEF Pointer
  <2>2. f \in Subtree(t, t.right[m])
    BY <1>12, <2>1, SubtreeSplit
  <2> QED BY <1>12, <2>2 DEF Sorted, Ordered
<1> QED BY <1>11, <1>12, <1>13

-----------------------------------------------------------------------------
(* What the calls do to each field.                                        *)

LEMMA ZeroedFields ==
    ASSUME NEW t \in Tree, NEW e \in Entry
    PROVE  LET u == Zeroed(t, e) IN
           /\ u \in Tree /\ u.root = t.root /\ u.length = t.length
           /\ \A y \in Entry :
                /\ u.size[y] = IF y = e THEN 0 ELSE t.size[y]
                /\ u.item[y] = IF y = e THEN NULL ELSE t.item[y]
                /\ u.next[y] = IF y = e THEN NULL ELSE t.next[y]
                /\ u.left[y] = IF y = e THEN NULL ELSE t.left[y]
                /\ u.right[y] = IF y = e THEN NULL ELSE t.right[y]
                /\ u.parent[y] = IF y = e THEN NULL ELSE t.parent[y]
  BY DEF Zeroed, Tree, Pointer

LEMMA AdoptFields ==
    ASSUME NEW t \in Tree, NEW e \in Entry
    PROVE  LET u == Adopt(t, e) IN
           /\ u \in Tree /\ u.root = t.root /\ u.length = t.length
           /\ u.size = t.size /\ u.item = t.item /\ u.next = t.next
           /\ u.left = t.left /\ u.right = t.right
           /\ \A y \in Entry :
                u.parent[y] = IF y \in {t.left[e], t.right[e]} THEN e ELSE t.parent[y]
<1>1. e \in Pointer /\ t.left[e] \in Pointer /\ t.right[e] \in Pointer
  BY DEF Tree, Pointer
<1>2. PICK v : v = SetParent(t, t.left[e], e)
  OBVIOUS
<1>3. PICK u : u = SetParent(v, t.right[e], e)
  OBVIOUS
<1>4. /\ v \in Tree /\ v.root = t.root /\ v.length = t.length
      /\ v.size = t.size /\ v.item = t.item /\ v.next = t.next
      /\ v.left = t.left /\ v.right = t.right
      /\ \A y \in Entry : v.parent[y] = IF y = t.left[e] THEN e ELSE t.parent[y]
  BY <1>1, <1>2, NullAssumption DEF SetParent, Tree, Pointer
<1>5. /\ u \in Tree /\ u.root = v.root /\ u.length = v.length
      /\ u.size = v.size /\ u.item = v.item /\ u.next = v.next
      /\ u.left = v.left /\ u.right = v.right
      /\ \A y \in Entry : u.parent[y] = IF y = t.right[e] THEN e ELSE v.parent[y]
  BY <1>1, <1>3, <1>4, NullAssumption DEF SetParent, Tree, Pointer
<1>6. u = Adopt(t, e)
  BY <1>2, <1>3, <1>4 DEF Adopt
<1> QED BY <1>4, <1>5, <1>6

\* One entry fewer.
Shorter(t) == [t EXCEPT !.length = @ - 1]

LEMMA ShorterFields ==
    ASSUME NEW t \in Tree, t.length > 0
    PROVE  LET u == Shorter(t) IN
           /\ u \in Tree /\ u.root = t.root /\ u.length = t.length - 1
           /\ u.size = t.size /\ u.item = t.item /\ u.next = t.next
           /\ u.left = t.left /\ u.right = t.right /\ u.parent = t.parent
  BY DEF Shorter, Tree

\* c is copied over e.
Copied(t, e, c) ==
    [t EXCEPT !.size[e] = t.size[c], !.item[e] = t.item[c],
              !.next[e] = t.next[c], !.left[e] = t.left[c],
              !.right[e] = t.right[c]]

LEMMA CopiedFields ==
    ASSUME NEW t \in Tree, NEW e \in Entry, NEW c \in Entry
    PROVE  LET u == Copied(t, e, c) IN
           /\ u \in Tree /\ u.root = t.root /\ u.length = t.length
           /\ u.parent = t.parent
           /\ \A y \in Entry :
                /\ u.size[y] = IF y = e THEN t.size[c] ELSE t.size[y]
                /\ u.item[y] = IF y = e THEN t.item[c] ELSE t.item[y]
                /\ u.next[y] = IF y = e THEN t.next[c] ELSE t.next[y]
                /\ u.left[y] = IF y = e THEN t.left[c] ELSE t.left[y]
                /\ u.right[y] = IF y = e THEN t.right[c] ELSE t.right[y]
  BY DEF Copied, Tree, Pointer

-----------------------------------------------------------------------------
(* An entry of the tree goes: g, whose contents are copied over e unless   *)
(* it is e itself.                                                         *)

\* What becomes of the links: whoever is left keeps its side of the tree; the
\* children of g go to its parent, or to the root of the tree.
CutLinks(t, u, e, g) ==
    /\ \A y \in InTree(t) \ {g} :
         /\ y # e => /\ u.left[y] \in (Subtree(t, t.left[y]) \ {g}) \cup {NULL}
                     /\ u.right[y] \in (Subtree(t, t.right[y]) \ {g}) \cup {NULL}
         /\ y = e => {u.left[y], u.right[y]} \subseteq
                        (Subtree(t, t.left[y]) \cup Subtree(t, t.right[y]) \cup {NULL})
                           \ {g}
         /\ {t.left[y], t.right[y]} \subseteq {g, NULL, u.left[y], u.right[y]}
         /\ u.left[y] # NULL => u.parent[u.left[y]] = y
         /\ u.right[y] # NULL => u.parent[u.right[y]] = y
    /\ g # t.root =>
         /\ {t.left[g], t.right[g]} \subseteq
               {NULL, u.left[t.parent[g]], u.right[t.parent[g]]}
         /\ u.root = t.root
    /\ g = t.root =>
         \/ t.left[g] = NULL /\ u.root = t.right[g]
         \/ t.right[g] = NULL /\ u.root = t.left[g]
    /\ u.root # NULL => u.parent[u.root] = NULL

\* The entry copied over e fits between the two sides that e has now.
CutOrder(t, u, e, g) ==
    e # g => /\ \A f \in Subtree(t, u.left[e]) \ {g} : t.size[f] < t.size[g]
             /\ \A f \in Subtree(t, u.right[e]) \ {g} : t.size[f] > t.size[g]

CutContents(t, u, e, g) ==
    \A y \in Entry :
        /\ u.size[y] = IF y = g THEN 0 ELSE IF y = e THEN t.size[g] ELSE t.size[y]
        /\ u.item[y] = IF y = g THEN NULL ELSE IF y = e THEN t.item[g] ELSE t.item[y]
        /\ u.next[y] = IF y = g THEN NULL ELSE IF y = e THEN t.next[g] ELSE t.next[y]

LEMMA CutSubtrees ==
    ASSUME NEW t \in Tree, Sorted(t), NEW u \in Tree,
           NEW e \in InTree(t), NEW g \in Subtree(t, e), CutLinks(t, u, e, g)
    PROVE  /\ \A y \in InTree(t) \ {g} : Subtree(u, y) = Subtree(t, y) \ {g}
           /\ InTree(u) = InTree(t) \ {g}
<1>0. g \in InTree(t) /\ g \in Entry /\ e \in Entry
  BY InTreeIs
<1>1. ASSUME NEW y \in InTree(t), y # g
      PROVE  Subtree(u, y) \subseteq Subtree(t, y) \ {g}
  <2> DEFINE C == Subtree(t, y) \ {g}
  <2>1. y \in C /\ C \in SUBSET Entry /\ y \in Pointer
    BY <1>1, InTreeIs DEF Pointer
  <2>2. ASSUME NEW x \in C
        PROVE  u.left[x] \in C \cup {NULL} /\ u.right[x] \in C \cup {NULL}
    <3>1. x \in InTree(t) \ {g} /\ x \in Entry
      BY <1>1, InTreeIs
    <3>2. Subtree(t, x) \subseteq Subtree(t, y)
      BY <2>1, SubtreeIs
    <3>3. /\ Subtree(t, t.left[x]) \subseteq Subtree(t, x)
          /\ Subtree(t, t.right[x]) \subseteq Subtree(t, x)
      BY <3>1, SubtreeSplit
    <3> QED BY <3>1, <3>2, <3>3, NullAssumption, <1>0 DEF CutLinks
  <2> HIDE DEF C
  <2>3. Subtree(u, y) \subseteq C
    BY <2>1, <2>2, SubtreeIs
  <2> QED BY <2>3 DEF C
<1>2. ASSUME NEW y \in InTree(t), y # g
      PROVE  Subtree(t, y) \ {g} \subseteq Subtree(u, y)
  <2> DEFINE C == {x \in Subtree(t, y) :
                      \/ x \in Subtree(u, y)
                      \/ x = g /\ t.parent[g] \in Subtree(u, y)}
  <2>1. y \in Pointer /\ C \in SUBSET Entry
    BY <1>2, InTreeIs DEF Pointer
  <2>2. y \in C
    <3>1. y \in Subtree(t, y) /\ y # NULL
      BY <1>2, InTreeIs, NullAssumption
    <3>2. y \in Subtree(u, y) \cup {NULL}
      BY <2>1, SubtreeIs
    <3>3. y \in Subtree(u, y)
      BY <3>1, <3>2
    <3> QED BY <3>1, <3>3
  <2>3. ASSUME NEW x \in C, NEW w \in {t.left[x], t.right[x]}, w # NULL
        PROVE  w \in C
    <3>1. x \in InTree(t) /\ x \in Entry /\ w \in Subtree(t, y) /\ t.parent[w] = x
      BY <1>2, <2>1, <2>3, InTreeIs, SubtreeIs DEF Sorted, ChildrenBack
    <3>2. CASE x # g
      <4>1. x \in Subtree(u, y)
        BY <3>2
      <4>2. w = g \/ w \in {u.left[x], u.right[x]}
        BY <2>3, <3>1, <3>2 DEF CutLinks
      <4>3. w \in {u.left[x], u.right[x]} => w \in Subtree(u, y)
        BY <2>1, <2>3, <4>1, SubtreeIs
      <4> QED BY <3>1, <4>1, <4>2, <4>3
    <3>3. CASE x = g
      <4>1. g # t.root
        <5>1. g \in Subtree(t, y) /\ y \in InTree(t)
          BY <1>2, <3>3
        <5>2. t.parent[g] \in Subtree(t, y)
          BY <5>1, <1>2, ParentsBelow DEF Sorted
        <5>3. t.parent[g] # NULL
          BY <5>2, <2>1, SubtreeIs, NullAssumption
        <5> QED BY <1>0, <5>3, SortedFacts
      <4>2. t.parent[g] \in InTree(t) \ {g}
        BY <1>0, <4>1, SortedFacts
      <4>3. g \notin Subtree(u, y)
        BY <1>1, <1>2
      <4>4. t.parent[g] \in Subtree(u, y)
        BY <3>3, <4>3
      <4>5. w \in {u.left[t.parent[g]], u.right[t.parent[g]]}
        BY <2>3, <3>3, <4>1 DEF CutLinks
      <4>6. w \in Subtree(u, y)
        BY <2>1, <2>3, <4>4, <4>5, SubtreeIs
      <4> QED BY <3>1, <4>6
    <3> QED BY <3>2, <3>3
  <2> HIDE DEF C
  <2>4. Subtree(t, y) \subseteq C
    BY <2>1, <2>2, <2>3, SubtreeIs
  <2> QED BY <2>4 DEF C
<1>3. \A y \in InTree(t) \ {g} : Subtree(u, y) = Subtree(t, y) \ {g}
  BY <1>1, <1>2
<1>4. InTree(u) = InTree(t) \ {g}
  <2>1. t.root \in InTree(t) /\ t.root \in Entry
    BY InTreeIs
  <2>2. CASE g # t.root
    BY <1>3, <2>1, <2>2 DEF CutLinks, InTree
  <2>3. CASE g = t.root
    <3>1. PICK c \in Pointer : /\ u.root = c
                              /\ InTree(t) = {g} \cup Subtree(t, c)
                              /\ c \in {t.left[g], t.right[g]}
      <4>1. Subtree(t, NULL) = {} /\ t.left[g] \in Pointer /\ t.right[g] \in Pointer
        BY <1>0, SubtreeIs DEF Tree, Pointer
      <4>2. InTree(t) = {g} \cup Subtree(t, t.left[g]) \cup Subtree(t, t.right[g])
        BY <1>0, <2>3, SubtreeSplit DEF InTree
      <4> QED BY <2>3, <4>1, <4>2 DEF CutLinks
    <3>2. g \notin Subtree(t, c)
      BY <1>0, <3>1, SortedFacts
    <3>3. CASE c = NULL
      <4>1. Subtree(t, c) = {} /\ Subtree(u, c) = {}
        BY <3>3, SubtreeIs
      <4> QED BY <3>1, <4>1 DEF InTree
    <3>4. CASE c # NULL
      <4>1. c \in Subtree(t, c)
        BY <3>4, SubtreeIs
      <4>2. c \in InTree(t) \ {g}
        BY <3>1, <3>2, <4>1
      <4> QED BY <1>3, <3>1, <3>2, <4>2 DEF InTree
    <3> QED BY <3>3, <3>4
  <2> QED BY <2>2, <2>3
<1> QED BY <1>3, <1>4

LEMMA CutSorted ==
    ASSUME NEW t \in Tree, Sorted(t), NEW u \in Tree,
           NEW e \in InTree(t), NEW g \in Subtree(t, e),
           CutLinks(t, u, e, g), CutOrder(t, u, e, g), CutContents(t, u, e, g)
    PROVE  Sorted(u)
<1>0. g \in InTree(t) /\ g \in Entry /\ e \in Entry
  BY InTreeIs
<1>1. /\ \A y \in InTree(t) \ {g} : Subtree(u, y) = Subtree(t, y) \ {g}
      /\ InTree(u) = InTree(t) \ {g}
  BY CutSubtrees
<1>2. Rooted(u)
  BY DEF Rooted, CutLinks
<1>3. ChildrenBack(u)
  BY <1>1 DEF ChildrenBack, CutLinks
<1>4. ASSUME NEW y \in InTree(u), NEW f \in Entry,
             NEW c \in {u.left[y], u.right[y]}, f \in Subtree(u, c)
      PROVE  /\ c \in InTree(t) \ {g} /\ f \in Subtree(t, c) \ {g}
             /\ f \in InTree(t)
             /\ y # e => /\ c = u.left[y] => f \in Subtree(t, t.left[y])
                         /\ c = u.right[y] => f \in Subtree(t, t.right[y])
  <2>1. y \in InTree(t) \ {g} /\ y \in Entry
    BY <1>1, InTreeIs
  <2>2. c # NULL
    BY <1>4, SubtreeIs DEF Pointer
  <2>3. t.left[y] \in Pointer /\ t.right[y] \in Pointer
    BY <2>1 DEF Tree
  <2>4. /\ Subtree(t, t.left[y]) \subseteq InTree(t)
        /\ Subtree(t, t.right[y]) \subseteq InTree(t)
    BY <2>1, SubtreeSplit, InTreeIs
  <2>5. c \in InTree(t) \ {g}
    BY <2>1, <2>2, <2>4 DEF CutLinks
  <2>6. f \in Subtree(t, c) \ {g} /\ f \in InTree(t)
    BY <1>1, <1>4, <2>5, InTreeIs
  <2>7. y # e => /\ c = u.left[y] => c \in Subtree(t, t.left[y])
                 /\ c = u.right[y] => c \in Subtree(t, t.right[y])
    BY <2>1, <2>2 DEF CutLinks
  <2> QED BY <2>3, <2>5, <2>6, <2>7, SubtreeIs
<1>5. ASSUME NEW y \in InTree(u), NEW f \in Entry,
             NEW c \in {u.left[y], u.right[y]}, f \in Subtree(u, c)
      PROVE  /\ c = u.left[y] => u.size[f] < u.size[y]
             /\ c = u.right[y] => u.size[f] > u.size[y]
  <2>1. /\ y \in InTree(t) /\ y # g /\ y \in Entry /\ f # g
        /\ c \in InTree(t) \ {g} /\ f \in Subtree(t, c)
    BY <1>1, <1>4, <1>5, InTreeIs
  <2>2. \A x \in Entry : t.size[x] \in Nat
    BY SizesNat
  <2>3. CASE y = e
    <3>1. f # e
      <4>1. \/ c \in Subtree(t, t.left[e])
            \/ c \in Subtree(t, t.right[e])
        BY <2>1, <2>3, NullAssumption, InTreeIs DEF CutLinks
      <4>2. t.left[e] \in Pointer /\ t.right[e] \in Pointer
        BY <1>0 DEF Tree
      <4>3. \/ f \in Subtree(t, t.left[e])
            \/ f \in Subtree(t, t.right[e])
        BY <2>1, <4>1, <4>2, SubtreeIs
      <4> QED BY <2>1, <2>3, <4>3, SortedFacts
    <3>2. u.size[f] = t.size[f] /\ u.size[e] = t.size[g]
      BY <1>0, <2>1, <2>3, <3>1 DEF CutContents
    <3> QED BY <2>1, <2>3, <3>2 DEF CutOrder
  <2>4. CASE y # e
    <3>1. u.size[y] = t.size[y]
      BY <2>1, <2>4 DEF CutContents
    <3>2. PICK h \in Entry : /\ u.size[f] = t.size[h]
                             /\ c = u.left[y] => h \in Subtree(t, t.left[y])
                             /\ c = u.right[y] => h \in Subtree(t, t.right[y])
      <4>1. CASE f # e
        BY <1>4, <1>5, <2>1, <2>4, <4>1 DEF CutContents
      <4>2. CASE f = e
        <5>1. u.size[f] = t.size[g]
          BY <1>0, <2>1, <4>2 DEF CutContents
        <5>2. t.left[y] \in Pointer /\ t.right[y] \in Pointer
          BY <2>1 DEF Tree
        <5>3. /\ c = u.left[y] => g \in Subtree(t, t.left[y])
              /\ c = u.right[y] => g \in Subtree(t, t.right[y])
          BY <1>4, <1>5, <2>4, <4>2, <5>2, SubtreeIs
        <5> QED BY <1>0, <5>1, <5>3
      <4> QED BY <4>1, <4>2
    <3> QED BY <2>1, <3>1, <3>2 DEF Sorted, Ordered
  <2> QED BY <2>3, <2>4
<1>6. Ordered(u)
  <2> SUFFICES ASSUME NEW y \in InTree(u)
               PROVE  /\ \A f \in Subtree(u, u.left[y]) : u.size[f] < u.size[y]
                      /\ \A f \in Subtree(u, u.right[y]) : u.size[f] > u.size[y]
    BY DEF Ordered
  <2>1. y \in Entry /\ u.left[y] \in Pointer /\ u.right[y] \in Pointer
    BY InTreeIs DEF Tree
  <2>2. Subtree(u, u.left[y]) \subseteq Entry /\ Subtree(u, u.right[y]) \subseteq Entry
    BY <2>1, SubtreeIs
  <2> QED BY <1>5, <2>2
<1> QED BY <1>2, <1>3, <1>6 DEF Sorted

-----------------------------------------------------------------------------
(* The invariant.                                                          *)

\* Only entries in the tree have children, and the pool's have no links at all.
Blank(t) ==
    \A e \in Entry : /\ e \notin InTree(t) => t.left[e] = NULL /\ t.right[e] = NULL
                     /\ e \notin Live(t) => t.next[e] = NULL /\ t.parent[e] = NULL

\* A list has entries of one size, none of which is in the tree, and no entry
\* is in two places of lists.
Listed(t) ==
    /\ \A e \in Entry : t.next[e] # NULL => /\ t.next[e] \in Live(t) \ InTree(t)
                                            /\ t.size[t.next[e]] = t.size[e]
    /\ \A d, e \in Entry : t.next[d] = t.next[e] /\ t.next[d] # NULL => d = e

\* Entries have the sizes of their items, and no item is stored twice.
Filled(t) ==
    /\ \A e \in Live(t) : t.size[e] = t.item[e].size
    /\ \A d, e \in Live(t) : t.item[d] = t.item[e] => d = e

\* What is reachable is what the pool handed out, and tree_length counts it.
Kept(t) ==
    /\ InTree(t) \subseteq Live(t) /\ Live(t) \subseteq Reachable(t)
    /\ t.length = Cardinality(Live(t))

Good(t) == t \in Tree /\ Sorted(t) /\ Blank(t) /\ Listed(t) /\ Filled(t) /\ Kept(t)

Items(t) == {t.item[e] : e \in Live(t)}

LEMMA ReachableIs ==
    ASSUME NEW t \in Tree
    PROVE  /\ Reachable(t) \subseteq Entry
           /\ t.root \in Reachable(t) \cup {NULL}
           /\ \A x \in Reachable(t) : /\ t.left[x] \in Reachable(t) \cup {NULL}
                                      /\ t.right[x] \in Reachable(t) \cup {NULL}
                                      /\ t.next[x] \in Reachable(t) \cup {NULL}
           /\ \A C \in SUBSET Entry :
                 /\ t.root \in C \cup {NULL}
                 /\ \A x \in C : /\ t.left[x] \in C \cup {NULL}
                                 /\ t.right[x] \in C \cup {NULL}
                                 /\ t.next[x] \in C \cup {NULL}
                 => Reachable(t) \subseteq C
           /\ InTree(t) \subseteq Reachable(t)
<1>1. {t.left, t.right, t.next} \in SUBSET [Entry -> Pointer] /\ t.root \in Pointer
  BY DEF Tree
<1>2. /\ Reachable(t) \subseteq Entry
      /\ t.root \in Reachable(t) \cup {NULL}
      /\ Closed({t.left, t.right, t.next}, Reachable(t))
      /\ \A C \in SUBSET Entry :
            t.root \in C \cup {NULL} /\ Closed({t.left, t.right, t.next}, C)
               => Reachable(t) \subseteq C
  BY <1>1, ReachIs DEF Reachable
<1>3. /\ \A x \in Reachable(t) : /\ t.left[x] \in Reachable(t) \cup {NULL}
                                 /\ t.right[x] \in Reachable(t) \cup {NULL}
                                 /\ t.next[x] \in Reachable(t) \cup {NULL}
      /\ \A C \in SUBSET Entry :
            /\ t.root \in C \cup {NULL}
            /\ \A x \in C : /\ t.left[x] \in C \cup {NULL}
                            /\ t.right[x] \in C \cup {NULL}
                            /\ t.next[x] \in C \cup {NULL}
            => Reachable(t) \subseteq C
  BY <1>2 DEF Closed
<1>4. InTree(t) \subseteq Reachable(t)
  BY <1>1, <1>2, <1>3, SubtreeIs DEF InTree
<1> QED BY <1>2, <1>3, <1>4

\* Nothing else is reachable.
LEMMA ReachableLive ==
    ASSUME NEW t, Good(t) PROVE Reachable(t) = Live(t)
<1>0. t \in Tree /\ Live(t) \in SUBSET Entry /\ InTree(t) \subseteq Live(t)
  BY DEF Good, Kept, Live
<1>1. t.root \in Live(t) \cup {NULL}
  BY <1>0, InTreeIs
<1>2. ASSUME NEW x \in Live(t)
      PROVE  /\ t.left[x] \in Live(t) \cup {NULL}
             /\ t.right[x] \in Live(t) \cup {NULL}
             /\ t.next[x] \in Live(t) \cup {NULL}
  <2>1. /\ t.left[x] \in InTree(t) \cup {NULL}
        /\ t.right[x] \in InTree(t) \cup {NULL}
    BY <1>0, InTreeIs DEF Good, Blank
  <2> QED BY <1>0, <2>1 DEF Good, Listed
<1> QED BY <1>0, <1>1, <1>2, ReachableIs DEF Good, Kept

\* Every size that is stored is the size of an entry in the tree.
LEMMA SizesInTree ==
    ASSUME NEW t, Good(t), NEW e \in Live(t)
    PROVE  \E f \in InTree(t) : t.size[f] = t.size[e]
<1> DEFINE C == {x \in Live(t) : \E f \in InTree(t) : t.size[f] = t.size[x]}
<1>0. t \in Tree /\ C \in SUBSET Entry /\ InTree(t) \subseteq Live(t)
  BY DEF Good, Kept, Live
<1>1. t.root \in C \cup {NULL}
  BY <1>0, InTreeIs
<1>2. ASSUME NEW x \in C
      PROVE  /\ t.left[x] \in C \cup {NULL}
             /\ t.right[x] \in C \cup {NULL}
             /\ t.next[x] \in C \cup {NULL}
  <2>1. /\ t.left[x] \in InTree(t) \cup {NULL}
        /\ t.right[x] \in InTree(t) \cup {NULL}
    BY <1>0, InTreeIs DEF Good, Blank
  <2>2. t.next[x] # NULL => t.next[x] \in Live(t) /\ t.size[t.next[x]] = t.size[x]
    BY <1>0 DEF Good, Listed
  <2> QED BY <1>0, <2>1, <2>2
<1> HIDE DEF C
<1>3. Reachable(t) \subseteq C
  BY <1>0, <1>1, <1>2, ReachableIs
<1> QED BY <1>3, ReachableLive DEF C

LEMMA LiveFinite ==
    ASSUME NEW t \in Tree
    PROVE  /\ IsFiniteSet(Live(t)) /\ Cardinality(Live(t)) \in Nat
           /\ Cardinality(Live(t)) <= Cardinality(Entry)
           /\ \A e \in Live(t) : /\ Cardinality(Live(t) \ {e}) = Cardinality(Live(t)) - 1
                                 /\ Cardinality(Live(t)) > 0
           /\ \A e \in Entry \ Live(t) :
                 Cardinality(Live(t) \cup {e}) = Cardinality(Live(t)) + 1
<1>1. Live(t) \in SUBSET Entry
  BY DEF Live
<1>2. IsFiniteSet(Live(t)) /\ Cardinality(Live(t)) <= Cardinality(Entry)
  BY <1>1, EntryAssumption, FS_Subset
<1>3. Cardinality(Live(t)) \in Nat
  BY <1>2, FS_CardinalityType
<1>4. \A e \in Live(t) : Cardinality(Live(t) \ {e}) = Cardinality(Live(t)) - 1
  BY <1>2, FS_RemoveElement
<1>5. \A e \in Live(t) : Cardinality(Live(t)) # 0
  BY <1>2, FS_EmptySet
<1>6. \A e \in Entry \ Live(t) :
         Cardinality(Live(t) \cup {e}) = Cardinality(Live(t)) + 1
  BY <1>2, FS_AddElement
<1> QED BY <1>2, <1>3, <1>4, <1>5, <1>6

LEMMA CutGood ==
    ASSUME NEW t, Good(t), NEW u \in Tree,
           NEW e \in InTree(t), NEW g \in Subtree(t, e), t.next[e] = NULL,
           CutLinks(t, u, e, g), CutOrder(t, u, e, g), CutContents(t, u, e, g),
           \A y \in Entry : y = g \/ y \notin InTree(t) =>
                               u.left[y] = NULL /\ u.right[y] = NULL,
           \A y \in Entry : y = g \/ y \notin Live(t) => u.parent[y] = NULL,
           u.length = t.length - 1
    PROVE  Good(u) /\ Items(u) = Items(t) \ {t.item[e]}
<1>0. /\ t \in Tree /\ Sorted(t) /\ Live(t) \in SUBSET Entry
      /\ InTree(t) \subseteq Live(t)
  BY DEF Good, Kept, Live
<1>1. g \in InTree(t) /\ g \in Entry /\ e \in Entry /\ g \in Live(t) /\ e \in Live(t)
  BY <1>0, InTreeIs
<1>2. /\ \A y \in InTree(t) \ {g} : Subtree(u, y) = Subtree(t, y) \ {g}
      /\ InTree(u) = InTree(t) \ {g}
  BY <1>0, CutSubtrees
<1>3. Sorted(u)
  BY <1>0, CutSorted
<1>4. Live(u) = Live(t) \ {g}
  <2>1. \A y \in Entry : u.item[y] # NULL <=> t.item[y] # NULL /\ y # g
    BY <1>1 DEF CutContents, Live
  <2> QED BY <2>1 DEF Live
<1>5. t.item[e] \notin {t.item[y] : y \in Live(t) \ {e}}
  BY <1>1 DEF Good, Filled
<1>6. Items(u) = Items(t) \ {t.item[e]}
  <2>1. ASSUME NEW y \in Live(u)
        PROVE  u.item[y] \in Items(t) \ {t.item[e]}
    <3>1. y \in Live(t) \ {g} /\ y \in Entry
      BY <1>0, <1>4
    <3>2. CASE y = e
      <4>1. u.item[y] = t.item[g] /\ g \in Live(t) \ {e}
        BY <1>1, <3>1, <3>2 DEF CutContents
      <4> QED BY <1>5, <4>1 DEF Items
    <3>3. CASE y # e
      <4>1. u.item[y] = t.item[y] /\ y \in Live(t) \ {e}
        BY <3>1, <3>3 DEF CutContents
      <4> QED BY <1>5, <4>1 DEF Items
    <3> QED BY <3>2, <3>3
  <2>2. ASSUME NEW y \in Live(t), t.item[y] # t.item[e]
        PROVE  t.item[y] \in Items(u)
    <3>1. y # e /\ y \in Entry
      BY <1>0, <2>2
    <3>2. CASE y = g
      <4>1. u.item[e] = t.item[y] /\ e \in Live(u)
        BY <1>1, <1>4, <3>1, <3>2 DEF CutContents
      <4> QED BY <4>1 DEF Items
    <3>3. CASE y # g
      <4>1. u.item[y] = t.item[y] /\ y \in Live(u)
        BY <1>4, <3>1, <3>3 DEF CutContents
      <4> QED BY <4>1 DEF Items
    <3> QED BY <3>2, <3>3
  <2> QED BY <2>1, <2>2 DEF Items
<1>7. Blank(u)
  <2> SUFFICES ASSUME NEW y \in Entry
               PROVE  /\ y \notin InTree(u) => u.left[y] = NULL /\ u.right[y] = NULL
                      /\ y \notin Live(u) => u.next[y] = NULL /\ u.parent[y] = NULL
    BY DEF Blank
  <2>1. y \notin Live(u) => u.next[y] = NULL /\ u.parent[y] = NULL
    BY <1>1, <1>4 DEF CutContents, Good, Blank
  <2> QED BY <1>2, <2>1
<1>8. Listed(u)
  <2>1. \A y \in Entry : t.next[y] # NULL => /\ t.next[y] \in Live(t) \ InTree(t)
                                             /\ t.size[t.next[y]] = t.size[y]
    BY DEF Good, Listed
  <2>2. \A d, y \in Entry : t.next[d] = t.next[y] /\ t.next[d] # NULL => d = y
    BY DEF Good, Listed
  <2>3. \A y \in Entry : u.next[y] # NULL =>
                  /\ y # g
                  /\ \E x \in Entry : /\ u.next[y] = t.next[x] /\ u.size[y] = t.size[x]
                                      /\ IF y = e THEN x = g ELSE x = y
    BY <1>1 DEF CutContents
  <2>4. ASSUME NEW y \in Entry, u.next[y] # NULL
        PROVE  /\ u.next[y] \in Live(u) \ InTree(u)
               /\ u.size[u.next[y]] = u.size[y]
    <3>1. PICK x \in Entry : u.next[y] = t.next[x] /\ u.size[y] = t.size[x]
      BY <2>3, <2>4
    <3>2. u.next[y] \in Live(t) \ InTree(t) /\ t.size[u.next[y]] = t.size[x]
      BY <2>1, <2>4, <3>1
    <3>3. u.next[y] \in Entry /\ u.next[y] # g /\ u.next[y] # e
      BY <1>0, <1>1, <3>2
    <3>4. u.size[u.next[y]] = t.size[u.next[y]]
      BY <3>3 DEF CutContents
    <3> QED BY <1>2, <1>4, <3>1, <3>2, <3>3, <3>4
  <2>5. ASSUME NEW d \in Entry, NEW y \in Entry,
               u.next[d] = u.next[y], u.next[d] # NULL
        PROVE  d = y
    <3>1. PICK x \in Entry : u.next[d] = t.next[x] /\ (IF d = e THEN x = g ELSE x = d)
      BY <2>3, <2>5
    <3>2. PICK z \in Entry : u.next[y] = t.next[z] /\ (IF y = e THEN z = g ELSE z = y)
      BY <2>3, <2>5
    <3>3. t.next[x] = t.next[z] /\ t.next[x] # NULL
      BY <2>5, <3>1, <3>2
    <3>4. x = z
      BY <2>2, <3>3
    <3>5. d # g /\ y # g
      BY <2>3, <2>5
    <3> QED BY <3>1, <3>2, <3>4, <3>5
  <2> QED BY <2>4, <2>5 DEF Listed
<1>9. Filled(u)
  <2>1. \A y \in Live(u) : \E x \in Live(t) :
           /\ u.item[y] = t.item[x] /\ u.size[y] = t.size[x]
           /\ IF y = e THEN x = g ELSE x = y
    BY <1>0, <1>1, <1>4 DEF CutContents
  <2>2. ASSUME NEW d \in Live(u), NEW y \in Live(u), u.item[d] = u.item[y]
        PROVE  d = y
    <3>1. PICK x \in Live(t) : u.item[d] = t.item[x] /\ (IF d = e THEN x = g ELSE x = d)
      BY <2>1
    <3>2. PICK z \in Live(t) : u.item[y] = t.item[z] /\ (IF y = e THEN z = g ELSE z = y)
      BY <2>1
    <3>3. x = z
      BY <2>2, <3>1, <3>2 DEF Good, Filled
    <3> QED BY <1>4, <3>1, <3>2, <3>3
  <2> QED BY <2>1, <2>2 DEF Good, Filled
<1>10. Kept(u)
  <2>1. InTree(u) \subseteq Live(u)
    BY <1>0, <1>2, <1>4
  <2>2. u.length = Cardinality(Live(u))
    BY <1>0, <1>1, <1>4, LiveFinite DEF Good, Kept
  <2> DEFINE C == Reachable(u) \cup {g}
  <2>3. InTree(t) \subseteq C /\ C \in SUBSET Entry
    BY <1>1, <1>2, ReachableIs
  <2>4. t.root \in C \cup {NULL}
    BY <1>0, <2>3, InTreeIs
  <2>5. ASSUME NEW x \in C
        PROVE  /\ t.left[x] \in C \cup {NULL}
               /\ t.right[x] \in C \cup {NULL}
               /\ t.next[x] \in C \cup {NULL}
    <3>1. /\ t.left[x] \in InTree(t) \cup {NULL}
          /\ t.right[x] \in InTree(t) \cup {NULL}
      BY <1>0, <2>3, InTreeIs DEF Good, Blank
    <3>2. CASE x # g /\ x # e
      <4>1. x \in Entry /\ x \in Reachable(u) /\ u.next[x] = t.next[x]
        BY <2>3, <3>2 DEF CutContents
      <4>2. t.next[x] \in Reachable(u) \cup {NULL}
        BY <4>1, ReachableIs
      <4> QED BY <2>3, <3>1, <4>2
    <3>3. CASE x = e
      BY <2>3, <3>1, <3>3
    <3>4. CASE x = g /\ x # e
      <4>1. e \in InTree(u) /\ u.next[e] = t.next[g]
        BY <1>1, <1>2, <3>4 DEF CutContents
      <4>2. t.next[g] \in Reachable(u) \cup {NULL}
        BY <4>1, ReachableIs
      <4> QED BY <2>3, <3>1, <3>4, <4>2
    <3> QED BY <3>2, <3>3, <3>4
  <2> HIDE DEF C
  <2>6. Reachable(t) \subseteq C
    BY <1>0, <2>3, <2>4, <2>5, ReachableIs
  <2> QED BY <1>4, <2>1, <2>2, <2>6 DEF Good, Kept, C
<1> QED BY <1>3, <1>6, <1>7, <1>8, <1>9, <1>10 DEF Good

-----------------------------------------------------------------------------
(* Removal.                                                                *)

LEMMA ChildFacts ==
    ASSUME NEW t \in Tree, Sorted(t), NEW y \in InTree(t)
    PROVE  /\ y \in Entry /\ y # NULL
           /\ t.left[y] # NULL =>
                 /\ t.left[y] \in InTree(t) /\ t.left[y] \in Entry
                 /\ t.left[y] \in Subtree(t, t.left[y])
                 /\ t.left[y] \in Subtree(t, y)
                 /\ t.parent[t.left[y]] = y /\ t.left[y] # y /\ t.left[y] # t.root
                 /\ t.left[y] # t.right[y]
           /\ t.right[y] # NULL =>
                 /\ t.right[y] \in InTree(t) /\ t.right[y] \in Entry
                 /\ t.right[y] \in Subtree(t, t.right[y])
                 /\ t.right[y] \in Subtree(t, y)
                 /\ t.parent[t.right[y]] = y /\ t.right[y] # y /\ t.right[y] # t.root
<1>1. y \in Entry /\ y # NULL /\ t.root # NULL
  BY InTreeIs, NullAssumption
<1>2. /\ t.left[y] \in InTree(t) \cup {NULL}
      /\ t.right[y] \in InTree(t) \cup {NULL}
      /\ t.left[y] \in Subtree(t, y) \cup {NULL}
      /\ t.right[y] \in Subtree(t, y) \cup {NULL}
  BY <1>1, InTreeIs, SubtreeIs DEF Pointer
<1>3. \A x \in InTree(t) : x \in Entry /\ x \in Subtree(t, x)
  BY InTreeIs
<1> QED BY <1>1, <1>2, <1>3, SortedFacts DEF Sorted, ChildrenBack

LEMMA GoodShorter ==
    ASSUME NEW t, Good(t), NEW e \in InTree(t)
    PROVE  /\ t \in Tree /\ Sorted(t) /\ e \in Entry /\ e \in Live(t)
           /\ t.length > 0 /\ t.length \in Nat
           /\ Subtree(t, NULL) = {}
           /\ \A y \in Entry \ InTree(t) : t.left[y] = NULL /\ t.right[y] = NULL
<1>1. t \in Tree /\ e \in Entry /\ e \in Live(t)
  BY InTreeIs DEF Good, Kept
<1>2. t.length > 0 /\ t.length \in Nat
  BY <1>1, LiveFinite DEF Good, Kept
<1> QED BY <1>1, <1>2, SubtreeIs DEF Good, Blank, Pointer

\* An entry without children goes.
LEMMA DropLeafGood ==
    ASSUME NEW t, Good(t), NEW e \in InTree(t), t.next[e] = NULL,
           t.left[e] = NULL, t.right[e] = NULL,
           NEW u, u = DropLeaf(Shorter(t), e)
    PROVE  Good(u) /\ Items(u) = Items(t) \ {t.item[e]}
<1> DEFINE p == t.parent[e]
<1>0. /\ t \in Tree /\ Sorted(t) /\ e \in Entry /\ t.length > 0
      /\ \A y \in Entry \ InTree(t) : t.left[y] = NULL /\ t.right[y] = NULL
  BY GoodShorter
<1>1. IF e = t.root THEN p = NULL
      ELSE p \in InTree(t) \ {e} /\ p \in Entry /\ e \in {t.left[p], t.right[p]}
  BY <1>0, SortedFacts, InTreeIs
<1>2. /\ u \in Tree /\ u.length = t.length - 1
      /\ u.root = IF e = t.root THEN NULL ELSE t.root
      /\ \A y \in Entry :
           /\ u.size[y] = IF y = e THEN 0 ELSE t.size[y]
           /\ u.item[y] = IF y = e THEN NULL ELSE t.item[y]
           /\ u.next[y] = IF y = e THEN NULL ELSE t.next[y]
           /\ u.left[y] = IF y = e \/ (y = p /\ t.left[y] = e) THEN NULL ELSE t.left[y]
           /\ u.right[y] = IF y = e \/ (y = p /\ t.right[y] = e) THEN NULL ELSE t.right[y]
           /\ u.parent[y] = IF y = e THEN NULL ELSE t.parent[y]
  <2> DEFINE s == Shorter(t)
  <2>1. /\ s \in Tree /\ s.root = t.root /\ s.length = t.length - 1
        /\ s.size = t.size /\ s.item = t.item /\ s.next = t.next
        /\ s.left = t.left /\ s.right = t.right /\ s.parent = t.parent
    BY <1>0, ShorterFields
  <2> HIDE DEF s
  <2>2. CASE e = t.root
    <3> DEFINE v == [s EXCEPT !.root = NULL]
    <3>1. /\ v \in Tree /\ v.root = NULL /\ v.length = t.length - 1
          /\ v.size = t.size /\ v.item = t.item /\ v.next = t.next
          /\ v.left = t.left /\ v.right = t.right /\ v.parent = t.parent
      BY <2>1 DEF Tree, Pointer
    <3>2. u = Zeroed(v, e)
      BY <1>1, <2>1, <2>2 DEF DropLeaf, s
    <3> HIDE DEF v
    <3>3. \A y \in Entry : y # p
      BY <1>1, <2>2, NullAssumption
    <3> QED BY <1>0, <2>2, <3>1, <3>2, <3>3, ZeroedFields
  <2>3. CASE e # t.root
    <3> DEFINE v == [s EXCEPT !.left[p]  = IF @ = e THEN NULL ELSE @,
                              !.right[p] = IF @ = e THEN NULL ELSE @]
    <3>1. /\ v \in Tree /\ v.root = t.root /\ v.length = t.length - 1
          /\ v.size = t.size /\ v.item = t.item /\ v.next = t.next
          /\ v.parent = t.parent
          /\ \A y \in Entry :
               /\ v.left[y] = IF y = p /\ t.left[y] = e THEN NULL ELSE t.left[y]
               /\ v.right[y] = IF y = p /\ t.right[y] = e THEN NULL ELSE t.right[y]
      BY <1>1, <2>1, <2>3 DEF Tree, Pointer
    <3>2. u = Zeroed(v, e)
      BY <1>1, <2>1, <2>3, NullAssumption DEF DropLeaf, s
    <3> HIDE DEF v
    <3> QED BY <1>0, <2>3, <3>1, <3>2, ZeroedFields
  <2> QED BY <2>2, <2>3
<1>3. e \in Subtree(t, e)
  BY <1>0, InTreeIs
<1>4. CutLinks(t, u, e, e)
  <2>1. ASSUME NEW y \in InTree(t) \ {e}
        PROVE  /\ u.left[y] \in (Subtree(t, t.left[y]) \ {e}) \cup {NULL}
               /\ u.right[y] \in (Subtree(t, t.right[y]) \ {e}) \cup {NULL}
               /\ {t.left[y], t.right[y]} \subseteq {e, NULL, u.left[y], u.right[y]}
               /\ u.left[y] # NULL => u.parent[u.left[y]] = y
               /\ u.right[y] # NULL => u.parent[u.right[y]] = y
    <3>1. y \in Entry /\ (t.left[y] = e => y = p) /\ (t.right[y] = e => y = p)
      BY <1>0, ChildFacts
    <3>2. /\ u.left[y] = IF t.left[y] = e THEN NULL ELSE t.left[y]
          /\ u.right[y] = IF t.right[y] = e THEN NULL ELSE t.right[y]
      BY <1>2, <3>1
    <3> QED BY <1>0, <1>2, <3>1, <3>2, ChildFacts
  <2>2. u.root # NULL => u.parent[u.root] = NULL
    <3>1. t.root # NULL => t.root \in Entry
      BY <1>0 DEF Tree, Pointer
    <3> QED BY <1>0, <1>2, <3>1 DEF Sorted, Rooted
  <2> QED BY <1>2, <2>1, <2>2 DEF CutLinks
<1>5. CutOrder(t, u, e, e) /\ CutContents(t, u, e, e)
  BY <1>0, <1>2 DEF CutOrder, CutContents
<1>6. \A y \in Entry : y = e \/ y \notin Live(t) => u.parent[y] = NULL
  BY <1>2 DEF Good, Blank
<1> QED BY <1>0, <1>2, <1>3, <1>4, <1>5, <1>6, CutGood

\* The root goes, whose only child c becomes the root.
LEMMA LiftRootGood ==
    ASSUME NEW t, Good(t), NEW e \in InTree(t), t.next[e] = NULL, e = t.root,
           NEW c \in Entry,
           \/ t.left[e] = NULL /\ t.right[e] = c
           \/ t.right[e] = NULL /\ t.left[e] = c,
           NEW u, u = Lift(Shorter(t), e, c)
    PROVE  Good(u) /\ Items(u) = Items(t) \ {t.item[e]}
<1>0. /\ t \in Tree /\ Sorted(t) /\ e \in Entry /\ t.length > 0
      /\ \A y \in Entry \ InTree(t) : t.left[y] = NULL /\ t.right[y] = NULL
  BY GoodShorter
<1>1. /\ t.parent[e] = NULL
      /\ c \in InTree(t) /\ c # e /\ t.parent[c] = e
      /\ c \in Subtree(t, c)
  BY <1>0, SortedFacts, ChildFacts, NullAssumption
<1>2. /\ u \in Tree /\ u.length = t.length - 1 /\ u.root = c
      /\ \A y \in Entry :
           /\ u.size[y] = IF y = e THEN 0 ELSE t.size[y]
           /\ u.item[y] = IF y = e THEN NULL ELSE t.item[y]
           /\ u.next[y] = IF y = e THEN NULL ELSE t.next[y]
           /\ u.left[y] = IF y = e THEN NULL ELSE t.left[y]
           /\ u.right[y] = IF y = e THEN NULL ELSE t.right[y]
           /\ u.parent[y] = IF y \in {t.left[c], t.right[c]} THEN c
                            ELSE IF y \in {c, e} THEN NULL ELSE t.parent[y]
  <2> DEFINE s == Shorter(t)
             v == [s EXCEPT !.parent[c] = NULL, !.root = c]
             w == Zeroed(v, e)
  <2>1. /\ s \in Tree /\ s.root = t.root /\ s.length = t.length - 1
        /\ s.size = t.size /\ s.item = t.item /\ s.next = t.next
        /\ s.left = t.left /\ s.right = t.right /\ s.parent = t.parent
    BY <1>0, ShorterFields
  <2>2. u = Adopt(w, c)
    BY <1>1, <2>1 DEF Lift
  <2> HIDE DEF s
  <2>3. /\ v \in Tree /\ v.root = c /\ v.length = t.length - 1
        /\ v.size = t.size /\ v.item = t.item /\ v.next = t.next
        /\ v.left = t.left /\ v.right = t.right
        /\ \A y \in Entry : v.parent[y] = IF y = c THEN NULL ELSE t.parent[y]
    BY <2>1 DEF Tree, Pointer
  <2> HIDE DEF v
  <2>4. /\ w \in Tree /\ w.root = c /\ w.length = t.length - 1
        /\ \A y \in Entry :
             /\ w.size[y] = IF y = e THEN 0 ELSE t.size[y]
             /\ w.item[y] = IF y = e THEN NULL ELSE t.item[y]
             /\ w.next[y] = IF y = e THEN NULL ELSE t.next[y]
             /\ w.left[y] = IF y = e THEN NULL ELSE t.left[y]
             /\ w.right[y] = IF y = e THEN NULL ELSE t.right[y]
             /\ w.parent[y] = IF y \in {c, e} THEN NULL ELSE t.parent[y]
    <3>1. /\ w \in Tree /\ w.root = v.root /\ w.length = v.length
          /\ \A y \in Entry :
               /\ w.size[y] = IF y = e THEN 0 ELSE v.size[y]
               /\ w.item[y] = IF y = e THEN NULL ELSE v.item[y]
               /\ w.next[y] = IF y = e THEN NULL ELSE v.next[y]
               /\ w.left[y] = IF y = e THEN NULL ELSE v.left[y]
               /\ w.right[y] = IF y = e THEN NULL ELSE v.right[y]
               /\ w.parent[y] = IF y = e THEN NULL ELSE v.parent[y]
      <4>1. v \in Tree /\ e \in Entry
        BY <1>0, <2>3
      <4> QED BY <4>1, ZeroedFields
    <3> QED BY <2>3, <3>1
  <2> HIDE DEF w
  <2>5. w.left[c] = t.left[c] /\ w.right[c] = t.right[c]
    BY <1>1, <2>4
  <2>6. /\ u \in Tree /\ u.root = w.root /\ u.length = w.length
        /\ u.size = w.size /\ u.item = w.item /\ u.next = w.next
        /\ u.left = w.left /\ u.right = w.right
        /\ \A y \in Entry :
             u.parent[y] = IF y \in {w.left[c], w.right[c]} THEN c ELSE w.parent[y]
    <3>1. w \in Tree /\ c \in Entry
      BY <2>4
    <3> QED BY <2>2, <3>1, AdoptFields
  <2> QED BY <2>4, <2>5, <2>6
<1>3. e \in Subtree(t, e)
  BY <1>0, InTreeIs
<1>4. CutLinks(t, u, e, e)
  <2>1. ASSUME NEW y \in InTree(t) \ {e}
        PROVE  /\ u.left[y] \in (Subtree(t, t.left[y]) \ {e}) \cup {NULL}
               /\ u.right[y] \in (Subtree(t, t.right[y]) \ {e}) \cup {NULL}
               /\ {t.left[y], t.right[y]} \subseteq {e, NULL, u.left[y], u.right[y]}
               /\ u.left[y] # NULL => u.parent[u.left[y]] = y
               /\ u.right[y] # NULL => u.parent[u.right[y]] = y
    <3>1. y \in Entry /\ u.left[y] = t.left[y] /\ u.right[y] = t.right[y]
      BY <1>0, <1>2, ChildFacts
    <3>2. ASSUME NEW z \in {t.left[y], t.right[y]}, z # NULL
          PROVE  /\ u.parent[z] = y /\ z # e /\ z \in Entry
                 /\ z = t.left[y] => z \in Subtree(t, t.left[y])
                 /\ z = t.right[y] => z \in Subtree(t, t.right[y])
      <4>1. z \in Entry /\ z # e /\ t.parent[z] = y /\ z # c
        BY <1>0, <1>1, <3>2, ChildFacts
      <4>2. z \in {t.left[c], t.right[c]} => y = c
        BY <1>0, <1>1, <3>2, <4>1, ChildFacts
      <4> QED BY <1>0, <1>2, <3>2, <4>1, <4>2, ChildFacts
    <3> QED BY <3>1, <3>2
  <2>2. u.parent[c] = NULL
    BY <1>0, <1>1, <1>2, ChildFacts
  <2>3. \/ t.left[e] = NULL /\ u.root = t.right[e]
        \/ t.right[e] = NULL /\ u.root = t.left[e]
    BY <1>2
  <2> QED BY <1>2, <2>1, <2>2, <2>3 DEF CutLinks
<1>5. CutOrder(t, u, e, e) /\ CutContents(t, u, e, e)
  BY <1>0, <1>2 DEF CutOrder, CutContents
<1>6. \A y \in Entry : y = e \/ y \notin Live(t) => u.parent[y] = NULL
  <2>1. /\ t.left[c] \in InTree(t) \cup {NULL} /\ t.left[c] # e
        /\ t.right[c] \in InTree(t) \cup {NULL} /\ t.right[c] # e
    BY <1>0, <1>1, ChildFacts, NullAssumption
  <2> QED BY <1>0, <1>2, <2>1, NullAssumption DEF Good, Blank, Kept
<1> QED BY <1>0, <1>2, <1>3, <1>4, <1>5, <1>6, CutGood

\* The only child c of another entry is copied over it.
LEMMA LiftCopyGood ==
    ASSUME NEW t, Good(t), NEW e \in InTree(t), t.next[e] = NULL, e # t.root,
           NEW c \in Entry,
           \/ t.left[e] = NULL /\ t.right[e] = c
           \/ t.right[e] = NULL /\ t.left[e] = c,
           NEW u, u = Lift(Shorter(t), e, c)
    PROVE  Good(u) /\ Items(u) = Items(t) \ {t.item[e]}
<1>0. /\ t \in Tree /\ Sorted(t) /\ e \in Entry /\ t.length > 0
      /\ \A y \in Entry \ InTree(t) : t.left[y] = NULL /\ t.right[y] = NULL
  BY GoodShorter
<1>1. /\ c \in InTree(t) /\ c # e /\ t.parent[c] = e /\ c # t.root
      /\ c \in Subtree(t, e) /\ t.left[c] # e /\ t.right[c] # e
      /\ t.left[c] # c /\ t.right[c] # c
  <2>1. /\ c \in InTree(t) /\ c # e /\ t.parent[c] = e /\ c # t.root
        /\ c \in Subtree(t, e) /\ c \in Subtree(t, c)
    BY <1>0, ChildFacts, NullAssumption
  <2>2. e \notin Subtree(t, c)
    BY <1>0, SortedFacts
  <2>3. /\ t.left[c] \in Subtree(t, c) \cup {NULL}
        /\ t.right[c] \in Subtree(t, c) \cup {NULL}
    BY <1>0, <2>1, SubtreeIs DEF Pointer
  <2> QED BY <1>0, <2>1, <2>2, <2>3, SortedFacts, NullAssumption
<1>2. t.parent[e] # NULL
  BY <1>0, SortedFacts, InTreeIs, NullAssumption
<1>3. /\ u \in Tree /\ u.length = t.length - 1 /\ u.root = t.root
      /\ \A y \in Entry :
           /\ u.size[y] = IF y = c THEN 0 ELSE IF y = e THEN t.size[c] ELSE t.size[y]
           /\ u.item[y] = IF y = c THEN NULL ELSE IF y = e THEN t.item[c] ELSE t.item[y]
           /\ u.next[y] = IF y = c THEN NULL ELSE IF y = e THEN t.next[c] ELSE t.next[y]
           /\ u.left[y] = IF y = c THEN NULL ELSE IF y = e THEN t.left[c] ELSE t.left[y]
           /\ u.right[y] = IF y = c THEN NULL
                           ELSE IF y = e THEN t.right[c] ELSE t.right[y]
           /\ u.parent[y] = IF y \in {t.left[c], t.right[c]} THEN e
                            ELSE IF y = c THEN NULL ELSE t.parent[y]
  <2> DEFINE s == Shorter(t)
             v == Copied(s, e, c)
             w == Zeroed(v, c)
  <2>1. /\ s \in Tree /\ s.root = t.root /\ s.length = t.length - 1
        /\ s.size = t.size /\ s.item = t.item /\ s.next = t.next
        /\ s.left = t.left /\ s.right = t.right /\ s.parent = t.parent
    BY <1>0, ShorterFields
  <2>2. u = Adopt(w, e)
    BY <1>2, <2>1 DEF Lift, Copied
  <2> HIDE DEF s
  <2>3. /\ v \in Tree /\ v.root = t.root /\ v.length = t.length - 1
        /\ v.parent = t.parent
        /\ \A y \in Entry :
             /\ v.size[y] = IF y = e THEN t.size[c] ELSE t.size[y]
             /\ v.item[y] = IF y = e THEN t.item[c] ELSE t.item[y]
             /\ v.next[y] = IF y = e THEN t.next[c] ELSE t.next[y]
             /\ v.left[y] = IF y = e THEN t.left[c] ELSE t.left[y]
             /\ v.right[y] = IF y = e THEN t.right[c] ELSE t.right[y]
    <3>0. s \in Tree /\ e \in Entry /\ c \in Entry
      BY <1>0, <2>1
    <3>1. /\ v \in Tree /\ v.root = s.root /\ v.length = s.length
          /\ v.parent = s.parent
          /\ \A y \in Entry :
               /\ v.size[y] = IF y = e THEN s.size[c] ELSE s.size[y]
               /\ v.item[y] = IF y = e THEN s.item[c] ELSE s.item[y]
               /\ v.next[y] = IF y = e THEN s.next[c] ELSE s.next[y]
               /\ v.left[y] = IF y = e THEN s.left[c] ELSE s.left[y]
               /\ v.right[y] = IF y = e THEN s.right[c] ELSE s.right[y]
      BY <3>0, CopiedFields
    <3> QED BY <2>1, <3>1
  <2> HIDE DEF v
  <2>4. /\ w \in Tree /\ w.root = t.root /\ w.length = t.length - 1
        /\ \A y \in Entry :
             /\ w.size[y] = IF y = c THEN 0 ELSE v.size[y]
             /\ w.item[y] = IF y = c THEN NULL ELSE v.item[y]
             /\ w.next[y] = IF y = c THEN NULL ELSE v.next[y]
             /\ w.left[y] = IF y = c THEN NULL ELSE v.left[y]
             /\ w.right[y] = IF y = c THEN NULL ELSE v.right[y]
             /\ w.parent[y] = IF y = c THEN NULL ELSE t.parent[y]
    BY <2>3, ZeroedFields
  <2> HIDE DEF w
  <2>5. w.left[e] = t.left[c] /\ w.right[e] = t.right[c]
    BY <1>0, <1>1, <2>3, <2>4
  <2>6. /\ u \in Tree /\ u.root = w.root /\ u.length = w.length
        /\ u.size = w.size /\ u.item = w.item /\ u.next = w.next
        /\ u.left = w.left /\ u.right = w.right
        /\ \A y \in Entry :
             u.parent[y] = IF y \in {t.left[c], t.right[c]} THEN e ELSE w.parent[y]
    <3>1. /\ u \in Tree /\ u.root = w.root /\ u.length = w.length
          /\ u.size = w.size /\ u.item = w.item /\ u.next = w.next
          /\ u.left = w.left /\ u.right = w.right
          /\ \A y \in Entry :
               u.parent[y] = IF y \in {w.left[e], w.right[e]} THEN e ELSE w.parent[y]
      <4>1. w \in Tree /\ e \in Entry
        BY <1>0, <2>4
      <4> QED BY <2>2, <4>1, AdoptFields
    <3> QED BY <2>5, <3>1
  <2> QED BY <2>3, <2>4, <2>6
<1>4. CutLinks(t, u, e, c)
  <2>1. ASSUME NEW y \in InTree(t) \ {c}, y # e
        PROVE  /\ u.left[y] \in (Subtree(t, t.left[y]) \ {c}) \cup {NULL}
               /\ u.right[y] \in (Subtree(t, t.right[y]) \ {c}) \cup {NULL}
               /\ {t.left[y], t.right[y]} \subseteq {c, NULL, u.left[y], u.right[y]}
               /\ u.left[y] # NULL => u.parent[u.left[y]] = y
               /\ u.right[y] # NULL => u.parent[u.right[y]] = y
    <3>1. y \in Entry /\ u.left[y] = t.left[y] /\ u.right[y] = t.right[y]
      BY <1>0, <1>3, <2>1, ChildFacts
    <3>2. ASSUME NEW z \in {t.left[y], t.right[y]}, z # NULL
          PROVE  /\ u.parent[z] = y /\ z # c /\ z \in Entry
                 /\ z = t.left[y] => z \in Subtree(t, t.left[y])
                 /\ z = t.right[y] => z \in Subtree(t, t.right[y])
      <4>1. z \in Entry /\ t.parent[z] = y /\ z # c
        BY <1>0, <1>1, <2>1, <3>2, ChildFacts
      <4>2. z \notin {t.left[c], t.right[c]}
        BY <1>0, <1>1, <2>1, <3>2, <4>1, ChildFacts
      <4> QED BY <1>0, <1>3, <2>1, <3>2, <4>1, <4>2, ChildFacts
    <3> QED BY <3>1, <3>2
  <2>2. /\ u.left[e] = t.left[c] /\ u.right[e] = t.right[c]
        /\ {t.left[e], t.right[e]} = {c, NULL}
    BY <1>0, <1>1, <1>3
  <2>3. /\ Subtree(t, c) \subseteq Subtree(t, t.left[e]) \cup Subtree(t, t.right[e])
        /\ {t.left[c], t.right[c]} \subseteq Subtree(t, c) \cup {NULL}
    <3>1. c \in Pointer /\ c \in Subtree(t, c)
      BY <1>0, <1>1, InTreeIs DEF Pointer
    <3> QED BY <1>0, <3>1, SubtreeIs
  <2>4. /\ {u.left[e], u.right[e]} \subseteq
              (Subtree(t, t.left[e]) \cup Subtree(t, t.right[e]) \cup {NULL}) \ {c}
        /\ {t.left[e], t.right[e]} \subseteq {c, NULL, u.left[e], u.right[e]}
    BY <1>1, <2>2, <2>3, NullAssumption
  <2>5. /\ u.left[e] # NULL => u.parent[u.left[e]] = e
        /\ u.right[e] # NULL => u.parent[u.right[e]] = e
    BY <1>0, <1>1, <1>3, <2>2, ChildFacts
  <2>6. u.root # NULL => u.parent[u.root] = NULL
    <3>1. t.root \in Entry /\ t.parent[t.root] = NULL
      BY <1>0, InTreeIs, NullAssumption DEF Sorted, Rooted
    <3>2. t.root \notin {t.left[c], t.right[c]}
      BY <1>0, <1>1, <3>1, NullAssumption, ChildFacts
    <3> QED BY <1>3, <3>1, <3>2
  <2> QED BY <1>1, <1>3, <2>1, <2>2, <2>4, <2>5, <2>6 DEF CutLinks
<1>5. CutOrder(t, u, e, c)
  <2>1. u.left[e] = t.left[c] /\ u.right[e] = t.right[c]
    BY <1>0, <1>1, <1>3
  <2>2. /\ \A f \in Subtree(t, t.left[c]) : t.size[f] < t.size[c]
        /\ \A f \in Subtree(t, t.right[c]) : t.size[f] > t.size[c]
    BY <1>0, <1>1 DEF Sorted, Ordered
  <2> QED BY <2>1, <2>2 DEF CutOrder
<1>6. CutContents(t, u, e, c)
  BY <1>3 DEF CutContents
<1>7. \A y \in Entry : y = c \/ y \notin InTree(t) =>
                          u.left[y] = NULL /\ u.right[y] = NULL
  BY <1>0, <1>3
<1>8. \A y \in Entry : y = c \/ y \notin Live(t) => u.parent[y] = NULL
  <2>1. /\ t.left[c] \in InTree(t) \cup {NULL} /\ t.right[c] \in InTree(t) \cup {NULL}
    BY <1>0, <1>1, ChildFacts
  <2> QED BY <1>1, <1>3, <2>1, NullAssumption DEF Good, Blank, Kept
<1> QED BY <1>1, <1>3, <1>4, <1>5, <1>6, <1>7, <1>8, CutGood

\* An entry with two children gets the contents of the first entry on its
\* right, and that entry's parent gets its right child.
LEMMA SwapFields ==
    ASSUME NEW t \in Tree, Sorted(t), t.length > 0, NEW e \in InTree(t),
           t.right[e] # NULL, NEW m, m = Leftmost(t, t.right[e]),
           NEW u, u = Swap(Shorter(t), e)
    PROVE  /\ u \in Tree /\ u.length = t.length - 1 /\ u.root = t.root
           /\ \A y \in Entry :
                /\ u.size[y] = IF y = m THEN 0 ELSE IF y = e THEN t.size[m] ELSE t.size[y]
                /\ u.item[y] = IF y = m THEN NULL
                               ELSE IF y = e THEN t.item[m] ELSE t.item[y]
                /\ u.next[y] = IF y = m THEN NULL
                               ELSE IF y = e THEN t.next[m] ELSE t.next[y]
                /\ u.left[y] = IF y = m THEN NULL
                               ELSE IF m # t.right[e] /\ y = t.parent[m] THEN t.right[m]
                               ELSE t.left[y]
                /\ u.right[y] = IF y = m THEN NULL
                                ELSE IF m = t.right[e] /\ y = e THEN t.right[m]
                                ELSE t.right[y]
                /\ u.parent[y] = IF y = m THEN NULL
                                 ELSE IF y = t.right[m] THEN t.parent[m] ELSE t.parent[y]
<1> DEFINE s == Shorter(t)
           q == t.parent[m]
           r == t.right[m]
           v == [s EXCEPT !.size[e] = t.size[m], !.item[e] = t.item[m],
                          !.next[e] = t.next[m]]
           x == IF t.right[e] = m THEN [v EXCEPT !.right[e] = r]
                ELSE [v EXCEPT !.left[q] = r]
           w == SetParent(x, r, q)
<1>0. e \in Entry /\ t.right[e] \in InTree(t)
  BY ChildFacts
<1>1. m \in Entry /\ m \in InTree(t) /\ q \in Entry /\ (m = t.right[e] => q = e)
  <2>1. m \in InTree(t) /\ (m # t.right[e] => q \in Subtree(t, t.right[e]))
    BY <1>0, LeftmostIs
  <2>2. m = t.right[e] => q = e
    BY ChildFacts
  <2>3. m \in Entry /\ Subtree(t, t.right[e]) \subseteq Entry
    BY <1>0, <2>1, InTreeIs
  <2> QED BY <1>0, <2>1, <2>2, <2>3
<1>2. /\ s \in Tree /\ s.root = t.root /\ s.length = t.length - 1
      /\ s.size = t.size /\ s.item = t.item /\ s.next = t.next
      /\ s.left = t.left /\ s.right = t.right /\ s.parent = t.parent
  BY ShorterFields
<1>3. u = Zeroed(w, m)
  <2>1. Leftmost(s, s.right[e]) = m
    BY <1>2 DEF Leftmost
  <2>2. CASE t.right[e] = m
    BY <1>1, <1>2, <2>1, <2>2 DEF Swap
  <2>3. CASE t.right[e] # m
    BY <1>1, <1>2, <2>1, <2>3 DEF Swap
  <2> QED BY <2>2, <2>3
<1> HIDE DEF s
<1>4. /\ v \in Tree /\ v.root = t.root /\ v.length = t.length - 1
      /\ v.left = t.left /\ v.right = t.right /\ v.parent = t.parent
      /\ \A y \in Entry :
           /\ v.size[y] = IF y = e THEN t.size[m] ELSE t.size[y]
           /\ v.item[y] = IF y = e THEN t.item[m] ELSE t.item[y]
           /\ v.next[y] = IF y = e THEN t.next[m] ELSE t.next[y]
  BY <1>0, <1>1, <1>2 DEF Tree, Pointer
<1> HIDE DEF v
<1>5. r \in Pointer
  BY <1>1 DEF Tree
<1> HIDE DEF r, q
<1>6. /\ x \in Tree /\ x.root = t.root /\ x.length = t.length - 1
      /\ x.size = v.size /\ x.item = v.item /\ x.next = v.next /\ x.parent = t.parent
      /\ \A y \in Entry :
           /\ x.left[y] = IF m # t.right[e] /\ y = q THEN r ELSE t.left[y]
           /\ x.right[y] = IF m = t.right[e] /\ y = e THEN r ELSE t.right[y]
  <2>1. CASE t.right[e] = m
    BY <1>0, <1>4, <1>5, <2>1 DEF Tree
  <2>2. CASE t.right[e] # m
    BY <1>1, <1>4, <1>5, <2>2 DEF Tree
  <2> QED BY <2>1, <2>2
<1> HIDE DEF x
<1>7. /\ w \in Tree /\ w.root = x.root /\ w.length = x.length
      /\ w.size = x.size /\ w.item = x.item /\ w.next = x.next
      /\ w.left = x.left /\ w.right = x.right
      /\ \A y \in Entry : w.parent[y] = IF y = r THEN q ELSE x.parent[y]
  BY <1>1, <1>5, <1>6, NullAssumption DEF SetParent, Tree, Pointer
<1> HIDE DEF w
<1>8. /\ u \in Tree /\ u.root = w.root /\ u.length = w.length
      /\ \A y \in Entry :
           /\ u.size[y] = IF y = m THEN 0 ELSE w.size[y]
           /\ u.item[y] = IF y = m THEN NULL ELSE w.item[y]
           /\ u.next[y] = IF y = m THEN NULL ELSE w.next[y]
           /\ u.left[y] = IF y = m THEN NULL ELSE w.left[y]
           /\ u.right[y] = IF y = m THEN NULL ELSE w.right[y]
           /\ u.parent[y] = IF y = m THEN NULL ELSE w.parent[y]
  <2>1. w \in Tree /\ m \in Entry
    BY <1>1, <1>7
  <2> QED BY <1>3, <2>1, ZeroedFields
<1>9. /\ u \in Tree /\ u.length = t.length - 1 /\ u.root = t.root
      /\ \A y \in Entry :
           /\ u.size[y] = IF y = m THEN 0 ELSE v.size[y]
           /\ u.item[y] = IF y = m THEN NULL ELSE v.item[y]
           /\ u.next[y] = IF y = m THEN NULL ELSE v.next[y]
           /\ u.left[y] = IF y = m THEN NULL
                          ELSE IF m # t.right[e] /\ y = q THEN r ELSE t.left[y]
           /\ u.right[y] = IF y = m THEN NULL
                           ELSE IF m = t.right[e] /\ y = e THEN r ELSE t.right[y]
           /\ u.parent[y] = IF y = m THEN NULL
                            ELSE IF y = r THEN q ELSE t.parent[y]
  BY <1>6, <1>7, <1>8
<1> QED BY <1>4, <1>9 DEF q, r

LEMMA SwapGood ==
    ASSUME NEW t, Good(t), NEW e \in InTree(t), t.next[e] = NULL,
           t.left[e] # NULL, t.right[e] # NULL,
           NEW u, u = Swap(Shorter(t), e)
    PROVE  Good(u) /\ Items(u) = Items(t) \ {t.item[e]}
<1>0. /\ t \in Tree /\ Sorted(t) /\ e \in Entry /\ t.length > 0
      /\ \A y \in Entry \ InTree(t) : t.left[y] = NULL /\ t.right[y] = NULL
  BY GoodShorter
<1>1. PICK m : m = Leftmost(t, t.right[e])
  OBVIOUS
<1>2. /\ u \in Tree /\ u.length = t.length - 1 /\ u.root = t.root
      /\ \A y \in Entry :
           /\ u.size[y] = IF y = m THEN 0 ELSE IF y = e THEN t.size[m] ELSE t.size[y]
           /\ u.item[y] = IF y = m THEN NULL ELSE IF y = e THEN t.item[m] ELSE t.item[y]
           /\ u.next[y] = IF y = m THEN NULL ELSE IF y = e THEN t.next[m] ELSE t.next[y]
           /\ u.left[y] = IF y = m THEN NULL
                          ELSE IF m # t.right[e] /\ y = t.parent[m] THEN t.right[m]
                          ELSE t.left[y]
           /\ u.right[y] = IF y = m THEN NULL
                           ELSE IF m = t.right[e] /\ y = e THEN t.right[m]
                           ELSE t.right[y]
           /\ u.parent[y] = IF y = m THEN NULL
                            ELSE IF y = t.right[m] THEN t.parent[m] ELSE t.parent[y]
  BY <1>0, <1>1, SwapFields
<1> DEFINE q == t.parent[m]
           r == t.right[m]
<1>3. /\ t.right[e] \in InTree(t) /\ t.right[e] \in Entry /\ t.parent[t.right[e]] = e
      /\ t.right[e] # t.root /\ t.right[e] # e
      /\ t.left[e] \in InTree(t) /\ t.left[e] \in Entry
      /\ t.left[e] \in Subtree(t, t.left[e])
      /\ e \notin Subtree(t, t.right[e])
      /\ Subtree(t, t.left[e]) \cap Subtree(t, t.right[e]) = {}
      /\ Subtree(t, t.right[e]) \subseteq Subtree(t, e)
  BY <1>0, ChildFacts, SortedFacts, SubtreeSplit
<1>4. /\ m \in Subtree(t, t.right[e]) /\ m \in InTree(t) /\ t.left[m] = NULL
      /\ \A f \in Subtree(t, t.right[e]) : f # m => t.size[f] > t.size[m]
      /\ m # t.right[e] => q \in Subtree(t, t.right[e]) /\ t.left[q] = m
      /\ m \in Entry /\ m # e /\ m \in Subtree(t, e)
  <2>1. /\ m \in Subtree(t, t.right[e]) /\ m \in InTree(t) /\ t.left[m] = NULL
        /\ \A f \in Subtree(t, t.right[e]) : f # m => t.size[f] > t.size[m]
        /\ m # t.right[e] => q \in Subtree(t, t.right[e]) /\ t.left[q] = m
    BY <1>0, <1>1, <1>3, LeftmostIs
  <2> QED BY <1>0, <1>3, <2>1, InTreeIs
<1>5. /\ q \in InTree(t) /\ q \in Entry /\ q # m
      /\ m = t.right[e] => q = e
      /\ m # t.right[e] => q # e /\ t.left[q] = m /\ t.right[q] # m
      /\ m # t.root
  <2>1. m = t.right[e] => q = e /\ m # t.root
    BY <1>0, <1>3
  <2>2. m # t.right[e] => q \in InTree(t) /\ q # e /\ t.left[q] = m
    BY <1>0, <1>3, <1>4, InTreeIs
  <2>3. q \in InTree(t) /\ q \in Entry
    BY <1>0, <2>1, <2>2, InTreeIs
  <2>4. m # t.right[e] => t.right[q] # m /\ m # t.root
    BY <1>0, <1>4, <2>2, <2>3, NullAssumption, ChildFacts
  <2>5. q # m
    BY <1>0, <1>4, <2>1, <2>2, NullAssumption, ChildFacts
  <2> QED BY <2>1, <2>2, <2>3, <2>4, <2>5
<1>6. r # NULL => /\ r \in Entry /\ r \in Subtree(t, m) /\ r # m /\ t.parent[r] = m
                  /\ r # t.root
  BY <1>0, <1>4, ChildFacts
<1>7. CutLinks(t, u, e, m)
  <2>1. ASSUME NEW y \in InTree(t) \ {m}
        PROVE  /\ u.left[y] = IF m # t.right[e] /\ y = q THEN r ELSE t.left[y]
               /\ u.right[y] = IF m = t.right[e] /\ y = e THEN r ELSE t.right[y]
               /\ y \in Entry
               /\ t.left[y] = m => y = q /\ m # t.right[e]
               /\ t.right[y] = m => y = q /\ m = t.right[e]
    <3>1. y \in Entry /\ (t.left[y] = m => y = q) /\ (t.right[y] = m => y = q)
      BY <1>0, <1>4, NullAssumption, ChildFacts
    <3>2. t.left[y] = m => m # t.right[e]
      BY <1>0, <1>3, <1>4, <1>5, <3>1
    <3>3. t.right[y] = m => m = t.right[e]
      BY <1>5, <3>1
    <3> QED BY <1>2, <3>1, <3>2, <3>3
  <2>2. ASSUME NEW y \in InTree(t) \ {m}
        PROVE  /\ {t.left[y], t.right[y]} \subseteq {m, NULL, u.left[y], u.right[y]}
               /\ u.left[y] # NULL => u.parent[u.left[y]] = y
               /\ u.right[y] # NULL => u.parent[u.right[y]] = y
    <3>1. {t.left[y], t.right[y]} \subseteq {m, NULL, u.left[y], u.right[y]}
      BY <1>5, <2>1
    <3>2. r # NULL => u.parent[r] = q
      BY <1>2, <1>6
    <3>3. ASSUME NEW z \in {t.left[y], t.right[y]}, z # NULL, z # m
          PROVE  u.parent[z] = y
      <4>1. z \in Entry /\ t.parent[z] = y /\ z # r
        BY <1>0, <1>6, <3>3, ChildFacts
      <4> QED BY <1>2, <3>3, <4>1
    <3> QED BY <1>5, <2>1, <3>1, <3>2, <3>3
  <2>3. ASSUME NEW y \in InTree(t) \ {m}, y # e
        PROVE  /\ u.left[y] \in (Subtree(t, t.left[y]) \ {m}) \cup {NULL}
               /\ u.right[y] \in (Subtree(t, t.right[y]) \ {m}) \cup {NULL}
    <3>1. /\ t.left[y] \in Subtree(t, t.left[y]) \cup {NULL}
          /\ t.right[y] \in Subtree(t, t.right[y]) \cup {NULL}
      BY <1>0, ChildFacts
    <3>2. y = q => t.left[y] = m
      BY <1>5, <2>3
    <3> QED BY <1>5, <1>6, <2>1, <2>3, <3>1, <3>2
  <2>4. {u.left[e], u.right[e]} \subseteq
           (Subtree(t, t.left[e]) \cup Subtree(t, t.right[e]) \cup {NULL}) \ {m}
    <3>1. u.left[e] = t.left[e] /\ u.right[e] = IF m = t.right[e] THEN r ELSE t.right[e]
      BY <1>0, <1>4, <1>5, <2>1
    <3>2. t.left[e] \in Subtree(t, t.left[e]) /\ t.left[e] # m
      BY <1>3, <1>4
    <3>3. m = t.right[e] => r \in (Subtree(t, t.right[e]) \cup {NULL}) \ {m}
      BY <1>4, <1>6, NullAssumption
    <3>4. t.right[e] \in Subtree(t, t.right[e])
      BY <1>0, ChildFacts
    <3> QED BY <3>1, <3>2, <3>3, <3>4
  <2>5. {t.left[m], t.right[m]} \subseteq {NULL, u.left[q], u.right[q]}
    BY <1>4, <1>5, <2>1
  <2>6. u.root # NULL => u.parent[u.root] = NULL
    <3>1. t.root \in Entry /\ t.parent[t.root] = NULL
      BY <1>0, InTreeIs, NullAssumption DEF Sorted, Rooted
    <3> QED BY <1>2, <1>5, <1>6, <3>1, NullAssumption
  <2> QED BY <1>2, <1>5, <2>2, <2>3, <2>4, <2>5, <2>6 DEF CutLinks
<1>8. CutOrder(t, u, e, m)
  <2>1. u.left[e] = t.left[e] /\ u.right[e] = IF m = t.right[e] THEN r ELSE t.right[e]
    BY <1>0, <1>2, <1>4, <1>5
  <2>2. \A f \in Subtree(t, t.left[e]) : t.size[f] < t.size[m]
    <3> SUFFICES ASSUME NEW f \in Subtree(t, t.left[e]) PROVE t.size[f] < t.size[m]
      OBVIOUS
    <3>1. f \in Entry
      BY <1>3, InTreeIs, <1>0
    <3>2. t.size[f] < t.size[e] /\ t.size[m] > t.size[e]
      BY <1>0, <1>4 DEF Sorted, Ordered
    <3> QED BY <1>0, <1>4, <3>1, <3>2, SizesNat
  <2>3. \A f \in Subtree(t, u.right[e]) \ {m} : f \in Subtree(t, t.right[e])
    BY <1>0, <1>4, <2>1, SubtreeSplit
  <2> QED BY <1>4, <2>1, <2>2, <2>3 DEF CutOrder
<1>9. CutContents(t, u, e, m)
  BY <1>2 DEF CutContents
<1>10. \A y \in Entry : y = m \/ y \notin InTree(t) =>
                           u.left[y] = NULL /\ u.right[y] = NULL
  BY <1>0, <1>2, <1>5
<1>11. \A y \in Entry : y = m \/ y \notin Live(t) => u.parent[y] = NULL
  <2>1. r \in InTree(t) \cup {NULL}
    BY <1>0, <1>4, ChildFacts
  <2> QED BY <1>2, <2>1, NullAssumption DEF Good, Blank, Kept
<1> QED BY <1>2, <1>4, <1>7, <1>8, <1>9, <1>10, <1>11, CutGood

\* If left, right and root stay, so does the tree.
LEMMA SameTree ==
    ASSUME NEW t \in Tree, NEW u \in Tree, u.root = t.root,
           \A y \in Entry : u.left[y] = t.left[y] /\ u.right[y] = t.right[y]
    PROVE  /\ u.left = t.left /\ u.right = t.right
           /\ \A y : Subtree(u, y) = Subtree(t, y)
           /\ InTree(u) = InTree(t)
<1>1. u.left = t.left /\ u.right = t.right
  BY DEF Tree
<1> QED BY <1>1 DEF Subtree, InTree

\* The tree without x, the next in the list of e.
Unlisted(t, e, x) == Zeroed([t EXCEPT !.next[e] = t.next[x]], x)

UnlistedIs(t, u, e, x) ==
    /\ u \in Tree /\ u.root = t.root /\ u.length = t.length
    /\ \A y \in Entry :
         /\ u.size[y] = IF y = x THEN 0 ELSE t.size[y]
         /\ u.item[y] = IF y = x THEN NULL ELSE t.item[y]
         /\ u.next[y] = IF y = x THEN NULL
                        ELSE IF y = e THEN t.next[x] ELSE t.next[y]
         /\ u.left[y] = IF y = x THEN NULL ELSE t.left[y]
         /\ u.right[y] = IF y = x THEN NULL ELSE t.right[y]
         /\ u.parent[y] = IF y = x THEN NULL ELSE t.parent[y]

LEMMA UnlistedFields ==
    ASSUME NEW t \in Tree, NEW e \in Entry, NEW x \in Entry
    PROVE  UnlistedIs(t, Unlisted(t, e, x), e, x)
<1> DEFINE v == [t EXCEPT !.next[e] = t.next[x]]
<1>1. /\ v \in Tree /\ v.root = t.root /\ v.length = t.length
      /\ v.size = t.size /\ v.item = t.item
      /\ v.left = t.left /\ v.right = t.right /\ v.parent = t.parent
      /\ \A y \in Entry : v.next[y] = IF y = e THEN t.next[x] ELSE t.next[y]
  BY DEF Tree
<1> HIDE DEF v
<1>2. v \in Tree
  BY <1>1
<1>3. LET u == Zeroed(v, x) IN
      /\ u \in Tree /\ u.root = v.root /\ u.length = v.length
      /\ \A y \in Entry :
           /\ u.size[y] = IF y = x THEN 0 ELSE v.size[y]
           /\ u.item[y] = IF y = x THEN NULL ELSE v.item[y]
           /\ u.next[y] = IF y = x THEN NULL ELSE v.next[y]
           /\ u.left[y] = IF y = x THEN NULL ELSE v.left[y]
           /\ u.right[y] = IF y = x THEN NULL ELSE v.right[y]
           /\ u.parent[y] = IF y = x THEN NULL ELSE v.parent[y]
  BY <1>2, ZeroedFields
<1>4. Zeroed(v, x) = Unlisted(t, e, x)
  BY DEF Unlisted, v
<1> QED BY <1>1, <1>3, <1>4 DEF UnlistedIs


\* The entry listed behind e goes.
LEMMA TakeListedGood ==
    ASSUME NEW t, Good(t), NEW e \in InTree(t), NEW x, x = t.next[e], x # NULL,
           NEW u, u = Unlisted(Shorter(t), e, x)
    PROVE  Good(u) /\ Items(u) = Items(t) \ {t.item[x]}
<1>0. /\ t \in Tree /\ Sorted(t) /\ e \in Entry /\ e \in Live(t) /\ t.length > 0
      /\ \A y \in Entry \ InTree(t) : t.left[y] = NULL /\ t.right[y] = NULL
  BY GoodShorter
<1>1. /\ \A y \in Entry : t.next[y] # NULL => /\ t.next[y] \in Live(t) \ InTree(t)
                                              /\ t.size[t.next[y]] = t.size[y]
      /\ \A d, y \in Entry : t.next[d] = t.next[y] /\ t.next[d] # NULL => d = y
  BY DEF Good, Listed
<1>2. /\ x \in Live(t) /\ x \notin InTree(t) /\ x \in Entry /\ x # e
      /\ t.size[x] = t.size[e] /\ t.next[x] # x
      /\ \A y \in Entry : t.next[y] = x => y = e
  <2>1. x \in Live(t) /\ x \notin InTree(t) /\ x # e /\ t.size[x] = t.size[e]
    BY <1>0, <1>1
  <2>2. x \in Entry
    BY <2>1 DEF Live
  <2> QED BY <1>0, <1>1, <2>1, <2>2
<1>3. /\ u \in Tree /\ u.root = t.root /\ u.length = t.length - 1
      /\ \A y \in Entry :
           /\ u.size[y] = IF y = x THEN 0 ELSE t.size[y]
           /\ u.item[y] = IF y = x THEN NULL ELSE t.item[y]
           /\ u.next[y] = IF y = x THEN NULL
                          ELSE IF y = e THEN t.next[x] ELSE t.next[y]
           /\ u.left[y] = IF y = x THEN NULL ELSE t.left[y]
           /\ u.right[y] = IF y = x THEN NULL ELSE t.right[y]
           /\ u.parent[y] = IF y = x THEN NULL ELSE t.parent[y]
  <2> DEFINE s == Shorter(t)
  <2>1. /\ s \in Tree /\ s.root = t.root /\ s.length = t.length - 1
        /\ s.size = t.size /\ s.item = t.item /\ s.next = t.next
        /\ s.left = t.left /\ s.right = t.right /\ s.parent = t.parent
    BY <1>0, ShorterFields
  <2> HIDE DEF s
  <2>2. s \in Tree /\ e \in Entry /\ x \in Entry
    BY <1>0, <1>2, <2>1
  <2>3. UnlistedIs(s, u, e, x)
    BY <2>2, UnlistedFields DEF s
  <2> QED BY <2>1, <2>3 DEF UnlistedIs
<1>4. \A y \in Entry : u.left[y] = t.left[y] /\ u.right[y] = t.right[y]
  BY <1>0, <1>2, <1>3
<1>5. /\ u.left = t.left /\ u.right = t.right /\ InTree(u) = InTree(t)
      /\ \A y : Subtree(u, y) = Subtree(t, y)
  BY <1>0, <1>3, <1>4, SameTree
<1>6. /\ InTree(t) \subseteq Live(t) /\ Live(t) \in SUBSET Entry
      /\ Live(u) = Live(t) \ {x}
  <2>1. InTree(t) \subseteq Live(t) /\ Live(t) \in SUBSET Entry
    BY DEF Good, Kept, Live
  <2> QED BY <1>2, <1>3, <2>1 DEF Live
<1>7. \A y \in InTree(t) : /\ y \in Entry /\ y # x
                           /\ u.parent[y] = t.parent[y] /\ u.size[y] = t.size[y]
  BY <1>2, <1>3, <1>6
<1>8. Sorted(u)
  <2>1. Rooted(u)
    BY <1>0, <1>3, <1>7, InTreeIs DEF Sorted, Rooted
  <2>2. ChildrenBack(u)
    BY <1>0, <1>5, <1>7, InTreeIs DEF Sorted, ChildrenBack
  <2>3. Ordered(u)
    <3>1. ASSUME NEW y \in InTree(t)
          PROVE  /\ Subtree(t, t.left[y]) \subseteq InTree(t)
                 /\ Subtree(t, t.right[y]) \subseteq InTree(t)
      BY <1>0, InTreeIs, SubtreeSplit
    <3> QED BY <1>0, <1>5, <1>7, <3>1 DEF Sorted, Ordered
  <2> QED BY <2>1, <2>2, <2>3 DEF Sorted
<1>9. Blank(u)
  BY <1>3, <1>5, <1>6 DEF Good, Blank
<1>10. Listed(u)
  <2>1. \A y \in Entry : u.next[y] # NULL =>
           /\ y # x
           /\ \E z \in Entry : /\ u.next[y] = t.next[z] /\ t.size[y] = t.size[z]
                               /\ IF y = e THEN z = x ELSE z = y
    BY <1>2, <1>3
  <2>2. ASSUME NEW y \in Entry, u.next[y] # NULL
        PROVE  /\ u.next[y] \in Live(u) \ InTree(u)
               /\ u.size[u.next[y]] = u.size[y]
    <3>1. PICK z \in Entry : /\ u.next[y] = t.next[z] /\ t.size[y] = t.size[z]
                             /\ IF y = e THEN z = x ELSE z = y
      BY <2>1, <2>2
    <3>2. u.next[y] \in Live(t) \ InTree(t) /\ t.size[u.next[y]] = t.size[y]
      BY <1>1, <2>2, <3>1
    <3>3. u.next[y] \in Entry /\ u.next[y] # x /\ y # x
      BY <1>2, <1>6, <2>1, <2>2, <3>1, <3>2
    <3> QED BY <1>3, <1>5, <1>6, <3>2, <3>3
  <2>3. ASSUME NEW d \in Entry, NEW y \in Entry,
               u.next[d] = u.next[y], u.next[d] # NULL
        PROVE  d = y
    <3>1. PICK z \in Entry : u.next[d] = t.next[z] /\ (IF d = e THEN z = x ELSE z = d)
      BY <2>1, <2>3
    <3>2. PICK w \in Entry : u.next[y] = t.next[w] /\ (IF y = e THEN w = x ELSE w = y)
      BY <2>1, <2>3
    <3>3. t.next[z] = t.next[w] /\ t.next[z] # NULL
      BY <2>3, <3>1, <3>2
    <3>4. z = w
      BY <1>1, <3>3
    <3>5. d # x /\ y # x
      BY <2>1, <2>3
    <3> QED BY <3>1, <3>2, <3>4, <3>5
  <2> QED BY <2>2, <2>3 DEF Listed
<1>11. Filled(u)
  BY <1>3, <1>6 DEF Good, Filled
<1>12. Kept(u)
  <2>1. u.length = Cardinality(Live(u))
    BY <1>0, <1>2, <1>3, <1>6, LiveFinite DEF Good, Kept
  <2> DEFINE C == Reachable(u) \cup {x}
  <2>2. C \in SUBSET Entry /\ t.root \in C \cup {NULL} /\ e \in Reachable(u)
    BY <1>2, <1>3, <1>5, ReachableIs
  <2>3. ASSUME NEW y \in C
        PROVE  /\ t.left[y] \in C \cup {NULL}
               /\ t.right[y] \in C \cup {NULL}
               /\ t.next[y] \in C \cup {NULL}
    <3>1. CASE y = x
      <4>1. t.left[x] = NULL /\ t.right[x] = NULL /\ t.next[x] = u.next[e]
        BY <1>0, <1>2, <1>3
      <4>2. u.next[e] \in Reachable(u) \cup {NULL}
        BY <1>3, <2>2, ReachableIs
      <4>3. t.left[y] = NULL /\ t.right[y] = NULL /\ t.next[y] \in C \cup {NULL}
        BY <3>1, <4>1, <4>2
      <4> QED BY <4>3
    <3>2. CASE y # x
      <4>1. /\ t.left[y] \in Reachable(u) \cup {NULL}
            /\ t.right[y] \in Reachable(u) \cup {NULL}
            /\ u.next[y] \in Reachable(u) \cup {NULL}
        BY <1>3, <1>5, <3>2, ReachableIs
      <4>2. y # e => u.next[y] = t.next[y]
        BY <1>3, <2>2, <3>2
      <4>3. t.next[e] \in C
        OBVIOUS
      <4>4. t.next[y] \in C \cup {NULL}
        <5>1. CASE y = e
          BY <4>3, <5>1
        <5>2. CASE y # e
          BY <4>1, <4>2, <5>2
        <5> QED BY <5>1, <5>2
      <4> QED BY <4>1, <4>4
    <3> QED BY <3>1, <3>2
  <2> HIDE DEF C
  <2>4. Reachable(t) \subseteq C
    BY <1>0, <2>2, <2>3, ReachableIs
  <2>5. Live(t) \subseteq C
    BY <2>4 DEF Good, Kept
  <2> QED BY <1>2, <1>5, <1>6, <2>1, <2>5 DEF Kept, C
<1>13. Items(u) = Items(t) \ {t.item[x]}
  BY <1>2, <1>3, <1>6 DEF Items, Good, Filled
<1> QED BY <1>3, <1>8, <1>9, <1>10, <1>11, <1>12, <1>13 DEF Good

\* Every case of lexbor_bst_remove_by_pointer.
LEMMA RemovedGood ==
    ASSUME NEW t, Good(t), NEW e \in InTree(t)
    PROVE  /\ Good(Removed(t, e))
           /\ Items(Removed(t, e)) =
                 Items(t) \ {t.item[IF t.next[e] = NULL THEN e ELSE t.next[e]]}
<1> DEFINE s == Shorter(t)
<1>0. /\ t \in Tree /\ Sorted(t) /\ e \in Entry /\ t.length > 0
      /\ t.left[e] # NULL => t.left[e] \in Entry
      /\ t.right[e] # NULL => t.right[e] \in Entry
  BY GoodShorter, ChildFacts
<1>1. CASE t.next[e] # NULL
  <2>1. s.next = t.next
    BY <1>0, ShorterFields
  <2>2. Removed(t, e) = Unlisted(s, e, t.next[e])
    BY <1>1, <2>1 DEF Removed, Shorter, Unlisted
  <2> QED BY <1>1, <2>2, TakeListedGood
<1>2. CASE t.next[e] = NULL /\ t.left[e] = NULL /\ t.right[e] = NULL
  <2>1. Removed(t, e) = DropLeaf(s, e)
    BY <1>2 DEF Removed, Shorter
  <2> QED BY <1>2, <2>1, DropLeafGood
<1>3. CASE t.next[e] = NULL /\ t.left[e] = NULL /\ t.right[e] # NULL
  <2>1. Removed(t, e) = Lift(s, e, t.right[e])
    BY <1>3 DEF Removed, Shorter
  <2>2. CASE e = t.root
    BY <1>0, <1>3, <2>1, <2>2, LiftRootGood
  <2>3. CASE e # t.root
    BY <1>0, <1>3, <2>1, <2>3, LiftCopyGood
  <2> QED BY <2>2, <2>3
<1>4. CASE t.next[e] = NULL /\ t.left[e] # NULL /\ t.right[e] = NULL
  <2>1. Removed(t, e) = Lift(s, e, t.left[e])
    BY <1>4 DEF Removed, Shorter
  <2>2. CASE e = t.root
    BY <1>0, <1>4, <2>1, <2>2, LiftRootGood
  <2>3. CASE e # t.root
    BY <1>0, <1>4, <2>1, <2>3, LiftCopyGood
  <2> QED BY <2>2, <2>3
<1>5. CASE t.next[e] = NULL /\ t.left[e] # NULL /\ t.right[e] # NULL
  <2>1. Removed(t, e) = Swap(s, e)
    BY <1>5 DEF Removed, Shorter
  <2> QED BY <1>5, <2>1, SwapGood
<1> QED BY <1>1, <1>2, <1>3, <1>4, <1>5

-----------------------------------------------------------------------------
(* Insertion.                                                              *)

LEMMA LeastExists ==
    ASSUME NEW S \in SUBSET Entry, S # {}
    PROVE  \E m \in S : \A k \in S : m <= k
<1> DEFINE Upto(m) == {k \in S : k <= m}
           R == StrictSubsetOrdering(Entry)
           D == {Upto(m) : m \in S}
<1>1. \A m \in S : m \in Nat
  BY EntryAssumption
<1>2. D \subseteq FiniteSubsetsOf(Entry) /\ D # {}
  <2>1. ASSUME NEW m \in S PROVE Upto(m) \in FiniteSubsetsOf(Entry)
    <3>1. Upto(m) \in SUBSET Entry
      OBVIOUS
    <3> HIDE DEF Upto
    <3> QED BY <3>1, FS_Subset, EntryAssumption DEF FiniteSubsetsOf
  <2> HIDE DEF Upto
  <2> QED BY <2>1
<1>3. IsWellFoundedOn(R, FiniteSubsetsOf(Entry))
  BY FS_StrictSubsetOrderingWellFounded
<1>4. PICK d \in D : \A c \in D : ~ (<<c, d>> \in R)
  <2> HIDE DEF D, R
  <2> QED BY <1>2, <1>3, WFMin
<1>5. PICK m \in S : d = Upto(m)
  OBVIOUS
<1>6. ASSUME NEW k \in S, ~ (m <= k) PROVE FALSE
  <2>1. k < m /\ k \in Nat /\ m \in Nat
    BY <1>1, <1>6
  <2>2. ASSUME NEW j \in Upto(k) PROVE j \in Upto(m)
    <3>1. j \in S /\ j <= k /\ j \in Nat
      BY <1>1
    <3>2. j <= m
      BY <2>1, <3>1
    <3> QED BY <3>1, <3>2
  <2>3. m \in Upto(m) /\ m \notin Upto(k)
    BY <2>1
  <2>4. <<Upto(k), Upto(m)>> \in R
    BY <2>2, <2>3 DEF StrictSubsetOrdering
  <2> QED BY <1>4, <1>5, <2>4
<1> QED BY <1>6

LEMMA FirstFreeIs ==
    ASSUME NEW t, Live(t) # Entry
    PROVE  FirstFree(t) \in Entry \ Live(t)
<1>1. Entry \ Live(t) # {} /\ Entry \ Live(t) \in SUBSET Entry
  BY DEF Live
<1>2. \E e \in Entry \ Live(t) : \A f \in Entry \ Live(t) : e <= f
  BY <1>1, LeastExists
<1> QED BY <1>2 DEF FirstFree

\* What the new entry e of every insertion has, and the contents of the others.
NewEntry(t, u, e, i) ==
    /\ u.length = t.length + 1
    /\ \A y \in Entry :
         /\ u.size[y] = IF y = e THEN i.size ELSE t.size[y]
         /\ u.item[y] = IF y = e THEN i ELSE t.item[y]
         /\ y # e => u.parent[y] = t.parent[y]

LEMMA NewEntryIs ==
    ASSUME NEW t, Good(t), NEW e \in Entry \ Live(t),
           NEW i \in Item, i \notin Items(t), NEW u \in Tree, NewEntry(t, u, e, i)
    PROVE  /\ Live(u) = Live(t) \cup {e} /\ Items(u) = Items(t) \cup {i}
           /\ Filled(u) /\ u.length = Cardinality(Live(u))
           /\ t \in Tree /\ Sorted(t) /\ e \notin InTree(t) /\ i # NULL
           /\ t.left[e] = NULL /\ t.right[e] = NULL /\ t.next[e] = NULL
           /\ InTree(t) \subseteq Live(t) /\ Live(t) \in SUBSET Entry
           /\ \A y \in Entry : t.next[y] # e
           /\ \A y \in InTree(t) : y \in Entry /\ y # e
<1>1. /\ t \in Tree /\ Sorted(t) /\ InTree(t) \subseteq Live(t)
      /\ Live(t) \in SUBSET Entry /\ i # NULL
  BY NullAssumption DEF Good, Kept, Live
<1>2. Live(u) = Live(t) \cup {e}
  BY <1>1 DEF Live, NewEntry
<1>3. Items(u) = Items(t) \cup {i}
  <2>1. \A y \in Live(t) : y \in Entry /\ y # e /\ u.item[y] = t.item[y]
    BY <1>1 DEF NewEntry
  <2>2. u.item[e] = i
    BY DEF NewEntry
  <2> QED BY <1>2, <2>1, <2>2 DEF Items
<1>4. Filled(u)
  <2>1. \A y \in Live(t) : /\ y # e /\ u.item[y] = t.item[y] /\ u.item[y] # i
                           /\ u.size[y] = t.size[y]
    BY <1>1 DEF NewEntry, Items
  <2>2. u.item[e] = i /\ u.size[e] = i.size
    BY DEF NewEntry
  <2> QED BY <1>2, <2>1, <2>2 DEF Good, Filled
<1>5. u.length = Cardinality(Live(u))
  BY <1>1, <1>2, LiveFinite DEF Good, Kept, NewEntry
<1>6. /\ e \notin InTree(t) /\ t.left[e] = NULL /\ t.right[e] = NULL
      /\ t.next[e] = NULL
  BY <1>1 DEF Good, Blank
<1>7. \A y \in Entry : t.next[y] # e
  BY NullAssumption DEF Good, Listed
<1> QED BY <1>1, <1>2, <1>3, <1>4, <1>5, <1>6, <1>7

\* The first entry of a tree.
LEMMA InsertRootGood ==
    ASSUME NEW t, Good(t), NEW e \in Entry \ Live(t),
           NEW i \in Item, i \notin Items(t), NEW u \in Tree, NewEntry(t, u, e, i),
           t.root = NULL, u.root = e, u.parent[e] = NULL,
           u.left = t.left, u.right = t.right, u.next = t.next
    PROVE  Good(u) /\ Items(u) = Items(t) \cup {i}
<1>0. /\ Live(u) = Live(t) \cup {e} /\ Items(u) = Items(t) \cup {i}
      /\ Filled(u) /\ u.length = Cardinality(Live(u)) /\ t \in Tree
      /\ t.left[e] = NULL /\ t.right[e] = NULL /\ t.next[e] = NULL
  BY NewEntryIs
<1>1. InTree(t) = {} /\ Live(t) = {}
  BY <1>0, InTreeIs, SizesInTree
<1>2. Live(u) = {e}
  BY <1>0, <1>1
<1>3. Subtree(t, NULL) = {} /\ Subtree(u, NULL) = {}
  BY <1>0, SubtreeIs DEF Pointer
<1>4. InTree(u) = {e}
  <2>1. Subtree(u, e) = {e} \cup Subtree(u, u.left[e]) \cup Subtree(u, u.right[e])
    BY SubtreeSplit
  <2> QED BY <1>0, <1>3, <2>1 DEF InTree
<1>5. Sorted(u)
  BY <1>0, <1>3, <1>4 DEF Sorted, Rooted, ChildrenBack, Ordered
<1>6. Blank(u) /\ Listed(u)
  BY <1>0, <1>1, <1>2, <1>4 DEF Blank, Listed, Good, NewEntry
<1>7. Kept(u)
  BY <1>0, <1>2, <1>4, ReachableIs DEF Kept
<1> QED BY <1>0, <1>5, <1>6, <1>7 DEF Good

\* An entry of the same size is in the tree: e is listed behind it.
LEMMA InsertListedGood ==
    ASSUME NEW t, Good(t), NEW e \in Entry \ Live(t),
           NEW i \in Item, i \notin Items(t), NEW u \in Tree, NewEntry(t, u, e, i),
           NEW s \in InTree(t), t.size[s] = i.size,
           u.root = t.root, u.left = t.left, u.right = t.right,
           \A y \in Entry : u.next[y] = IF y = e THEN t.next[s]
                                        ELSE IF y = s THEN e ELSE t.next[y]
    PROVE  Good(u) /\ Items(u) = Items(t) \cup {i}
<1>0. /\ Live(u) = Live(t) \cup {e} /\ Items(u) = Items(t) \cup {i}
      /\ Filled(u) /\ u.length = Cardinality(Live(u))
      /\ t \in Tree /\ Sorted(t) /\ e \notin InTree(t)
      /\ t.left[e] = NULL /\ t.right[e] = NULL /\ t.next[e] = NULL
      /\ InTree(t) \subseteq Live(t) /\ Live(t) \in SUBSET Entry
      /\ \A y \in Entry : t.next[y] # e
      /\ \A y \in InTree(t) : y \in Entry /\ y # e
  BY NewEntryIs
<1>1. InTree(u) = InTree(t) /\ \A y : Subtree(u, y) = Subtree(t, y)
  BY <1>0, SameTree
<1>2. \A y \in InTree(t) : u.parent[y] = t.parent[y] /\ u.size[y] = t.size[y]
  BY <1>0 DEF NewEntry
<1>3. Sorted(u)
  <2>1. Rooted(u)
    BY <1>0, <1>2, InTreeIs DEF Sorted, Rooted
  <2>2. ChildrenBack(u)
    BY <1>0, <1>1, <1>2, InTreeIs DEF Sorted, ChildrenBack
  <2>3. Ordered(u)
    <3>1. ASSUME NEW y \in InTree(t)
          PROVE  /\ Subtree(t, t.left[y]) \subseteq InTree(t)
                 /\ Subtree(t, t.right[y]) \subseteq InTree(t)
      BY <1>0, InTreeIs, SubtreeSplit
    <3> QED BY <1>0, <1>1, <1>2, <3>1 DEF Sorted, Ordered
  <2> QED BY <2>1, <2>2, <2>3 DEF Sorted
<1>4. Blank(u)
  BY <1>0, <1>1 DEF Good, Blank, NewEntry
<1>5. Listed(u)
  <2>1. /\ \A y \in Entry : t.next[y] # NULL => /\ t.next[y] \in Live(t) \ InTree(t)
                                                /\ t.size[t.next[y]] = t.size[y]
        /\ \A d, y \in Entry : t.next[d] = t.next[y] /\ t.next[d] # NULL => d = y
    BY DEF Good, Listed
  <2>2. ASSUME NEW y \in Entry, u.next[y] # NULL
        PROVE  /\ u.next[y] \in Live(u) \ InTree(u)
               /\ u.size[u.next[y]] = u.size[y]
    <3>1. CASE y = s
      BY <1>0, <1>1, <3>1 DEF NewEntry
    <3>2. CASE y = e
      <4>1. /\ u.next[e] = t.next[s] /\ u.next[e] \in Live(t) \ InTree(t)
            /\ t.size[u.next[e]] = i.size
        BY <1>0, <2>1, <2>2, <3>2
      <4>2. u.size[u.next[e]] = t.size[u.next[e]] /\ u.size[e] = i.size
        BY <1>0, <4>1 DEF NewEntry
      <4> QED BY <1>0, <1>1, <3>2, <4>1, <4>2
    <3>3. CASE y # s /\ y # e
      <4>1. /\ u.next[y] = t.next[y] /\ u.next[y] \in Live(t) \ InTree(t)
            /\ t.size[u.next[y]] = t.size[y]
        BY <2>1, <2>2, <3>3
      <4>2. u.size[u.next[y]] = t.size[u.next[y]] /\ u.size[y] = t.size[y]
        BY <1>0, <3>3, <4>1 DEF NewEntry
      <4> QED BY <1>0, <1>1, <4>1, <4>2
    <3> QED BY <3>1, <3>2, <3>3
  <2>3. ASSUME NEW d \in Entry, NEW y \in Entry,
               u.next[d] = u.next[y], u.next[d] # NULL
        PROVE  d = y
    BY <1>0, <2>1, <2>3
  <2> QED BY <2>2, <2>3 DEF Listed
<1>6. Kept(u)
  <2>1. Reachable(u) \in SUBSET Entry /\ t.root \in Reachable(u) \cup {NULL}
    BY ReachableIs
  <2>2. ASSUME NEW y \in Reachable(u)
        PROVE  /\ t.left[y] \in Reachable(u) \cup {NULL}
               /\ t.right[y] \in Reachable(u) \cup {NULL}
               /\ t.next[y] \in Reachable(u) \cup {NULL}
    <3>1. /\ t.left[y] \in Reachable(u) \cup {NULL}
          /\ t.right[y] \in Reachable(u) \cup {NULL}
          /\ u.next[y] \in Reachable(u) \cup {NULL}
      BY ReachableIs
    <3>2. CASE y = s
      <4>1. u.next[s] = e /\ t.next[s] = u.next[e] /\ e \in Reachable(u)
        BY <1>0, <3>1, <3>2, NullAssumption
      <4> QED BY <3>1, <3>2, <4>1, ReachableIs
    <3>3. CASE y = e
      BY <1>0, <3>1, <3>3
    <3>4. CASE y # s /\ y # e
      BY <2>1, <3>1, <3>4
    <3> QED BY <3>2, <3>3, <3>4
  <2>3. Reachable(t) \subseteq Reachable(u)
    BY <1>0, <2>1, <2>2, ReachableIs
  <2>4. s \in Reachable(u) /\ u.next[s] = e
    BY <1>0, <1>1, ReachableIs
  <2>5. e \in Reachable(u)
    BY <2>4, NullAssumption, ReachableIs
  <2>6. Live(t) \subseteq Reachable(u)
    BY <2>3 DEF Good, Kept
  <2> QED BY <1>0, <1>1, <2>5, <2>6 DEF Kept
<1> QED BY <1>0, <1>3, <1>4, <1>5, <1>6 DEF Good

\* e hangs below s on a side where s had no child.
Grown(t, u, s, e) ==
    /\ u.root = t.root
    /\ \A y \in Entry \ {s} : u.left[y] = t.left[y] /\ u.right[y] = t.right[y]
    /\ \/ t.left[s] = NULL /\ u.left[s] = e /\ u.right[s] = t.right[s]
       \/ t.right[s] = NULL /\ u.right[s] = e /\ u.left[s] = t.left[s]

LEMMA GrownSubtrees ==
    ASSUME NEW t \in Tree, NEW u \in Tree, NEW s \in InTree(t),
           NEW e \in Entry \ InTree(t), t.left[e] = NULL, t.right[e] = NULL,
           Grown(t, u, s, e)
    PROVE  /\ \A y \in Entry : Subtree(t, y) \subseteq Subtree(u, y)
           /\ \A y \in Entry : s \in Subtree(t, y) => e \in Subtree(u, y)
           /\ \A y \in Entry : \A f \in Subtree(u, y) :
                 f \in Subtree(t, y) \/ f = e
           /\ \A y \in InTree(t) : e \in Subtree(u, y) => s \in Subtree(t, y)
           /\ Subtree(u, e) = {e}
           /\ InTree(u) = InTree(t) \cup {e}
<1>0. /\ s \in Entry /\ s # e /\ e \in Entry /\ e # NULL
      /\ InTree(t) \subseteq Entry
  BY InTreeIs, NullAssumption
<1>1. \A y \in Entry : /\ t.left[y] \in {NULL, u.left[y]}
                       /\ t.right[y] \in {NULL, u.right[y]}
  BY DEF Grown
<1>2. \A y \in Entry : y # s => u.left[y] = t.left[y] /\ u.right[y] = t.right[y]
  BY DEF Grown
<1>3. /\ u.left[s] \in {e, t.left[s]} /\ u.right[s] \in {e, t.right[s]}
      /\ e \in {u.left[s], u.right[s]}
  BY DEF Grown
<1>4. u.left[e] = NULL /\ u.right[e] = NULL
  BY <1>0, <1>2
<1>5. ASSUME NEW y \in Entry PROVE Subtree(t, y) \subseteq Subtree(u, y)
  <2> DEFINE C == Subtree(u, y)
  <2>1. y \in Pointer /\ C \in SUBSET Entry /\ y \in C \cup {NULL}
    BY SubtreeIs DEF Pointer
  <2>2. ASSUME NEW x \in C
        PROVE  t.left[x] \in C \cup {NULL} /\ t.right[x] \in C \cup {NULL}
    <3>1. x \in Entry /\ u.left[x] \in C \cup {NULL} /\ u.right[x] \in C \cup {NULL}
      BY <2>1, SubtreeIs
    <3> QED BY <1>1, <3>1
  <2> HIDE DEF C
  <2>3. Subtree(t, y) \subseteq C
    BY <2>1, <2>2, SubtreeIs
  <2> QED BY <2>3 DEF C
<1>6. ASSUME NEW y \in Entry, s \in Subtree(t, y) PROVE e \in Subtree(u, y)
  <2>1. y \in Pointer /\ s \in Subtree(u, y)
    BY <1>5, <1>6 DEF Pointer
  <2>2. /\ u.left[s] \in Subtree(u, y) \cup {NULL}
        /\ u.right[s] \in Subtree(u, y) \cup {NULL}
    BY <2>1, SubtreeIs
  <2> QED BY <1>0, <1>3, <2>2
<1>7. ASSUME NEW y \in Entry
      PROVE  \A f \in Subtree(u, y) :
                \/ f \in Subtree(t, y)
                \/ f = e /\ (s \in Subtree(t, y) \/ y = e)
  <2> DEFINE C == {f \in Entry : \/ f \in Subtree(t, y)
                                 \/ f = e /\ (s \in Subtree(t, y) \/ y = e)}
  <2>1. y \in Pointer /\ C \in SUBSET Entry
    BY DEF Pointer
  <2>2. y \in C \cup {NULL}
    BY <2>1, SubtreeIs
  <2>3. ASSUME NEW x \in C
        PROVE  u.left[x] \in C \cup {NULL} /\ u.right[x] \in C \cup {NULL}
    <3>1. CASE x = e
      BY <1>4, <3>1
    <3>2. CASE x # e
      <4>1. x \in Subtree(t, y) /\ x \in Entry
        BY <3>2
      <4>2. /\ t.left[x] \in Subtree(t, y) \cup {NULL}
            /\ t.right[x] \in Subtree(t, y) \cup {NULL}
            /\ Subtree(t, y) \subseteq Entry
        BY <2>1, <4>1, SubtreeIs
      <4>3. t.left[x] \in C \cup {NULL} /\ t.right[x] \in C \cup {NULL}
        BY <4>2
      <4>4. x = s => e \in C
        BY <1>0, <4>1
      <4> HIDE DEF C
      <4> QED BY <1>2, <1>3, <4>1, <4>3, <4>4
    <3> QED BY <3>1, <3>2
  <2> HIDE DEF C
  <2>4. Subtree(u, y) \subseteq C
    BY <2>1, <2>2, <2>3, SubtreeIs
  <2> QED BY <2>4 DEF C
<1>8. ASSUME NEW y \in InTree(t), e \in Subtree(u, y) PROVE s \in Subtree(t, y)
  <2>1. e \notin Subtree(t, y) /\ y # e /\ y \in Entry
    BY <1>0, InTreeIs
  <2> QED BY <1>7, <1>8, <2>1
<1>9. Subtree(u, e) = {e}
  <2>1. Subtree(u, NULL) = {}
    BY SubtreeIs DEF Pointer
  <2> QED BY <1>0, <1>4, <2>1, SubtreeSplit
<1>10. InTree(u) = InTree(t) \cup {e}
  <2>1. t.root # NULL
    BY InTreeIs
  <2>2. t.root \in Entry /\ u.root = t.root
    BY <2>1 DEF Tree, Pointer, Grown
  <2>3. e \in InTree(u) /\ InTree(t) \subseteq InTree(u)
    BY <1>5, <1>6, <2>2 DEF InTree
  <2>4. InTree(u) \subseteq InTree(t) \cup {e}
    BY <1>7, <2>2 DEF InTree
  <2> QED BY <2>3, <2>4
<1> QED BY <1>5, <1>6, <1>7, <1>8, <1>9, <1>10

\* The search for the size ends at s, whose child on that side e becomes.
LEMMA InsertLeafGood ==
    ASSUME NEW t, Good(t), NEW e \in Entry \ Live(t),
           NEW i \in Item, i \notin Items(t), NEW u \in Tree, NewEntry(t, u, e, i),
           NEW s, s = Stop(t, i.size), t.root # NULL,
           Grown(t, u, s, e), u.parent[e] = s, u.next = t.next,
           u.left[s] = e => i.size < t.size[s],
           u.right[s] = e => i.size > t.size[s]
    PROVE  Good(u) /\ Items(u) = Items(t) \cup {i}
<1> DEFINE n == i.size
<1>0. /\ Live(u) = Live(t) \cup {e} /\ Items(u) = Items(t) \cup {i}
      /\ Filled(u) /\ u.length = Cardinality(Live(u))
      /\ t \in Tree /\ Sorted(t) /\ e \notin InTree(t)
      /\ t.left[e] = NULL /\ t.right[e] = NULL /\ t.next[e] = NULL
      /\ InTree(t) \subseteq Live(t) /\ Live(t) \in SUBSET Entry
      /\ \A y \in Entry : t.next[y] # e
      /\ \A y \in InTree(t) : y \in Entry /\ y # e
  BY NewEntryIs
<1>1. n \in Nat
  BY ItemAssumption, SizeAssumption
<1>2. s \in InTree(t) /\ s \in Reach({Toward(t, n)}, t.root) /\ s \in Entry /\ s # e
  BY <1>0, <1>1, StopIs
<1>3. /\ \A y \in Entry : Subtree(t, y) \subseteq Subtree(u, y)
      /\ \A y \in Entry : \A f \in Subtree(u, y) :
            f \in Subtree(t, y) \/ f = e
      /\ \A y \in InTree(t) : e \in Subtree(u, y) => s \in Subtree(t, y)
      /\ Subtree(u, e) = {e}
      /\ InTree(u) = InTree(t) \cup {e}
  BY <1>0, <1>2, GrownSubtrees
<1>4. /\ u.root = t.root
      /\ \A y \in Entry : y # s => u.left[y] = t.left[y] /\ u.right[y] = t.right[y]
      /\ u.left[s] \in {e, t.left[s]} /\ u.right[s] \in {e, t.right[s]}
      /\ e \in {u.left[s], u.right[s]}
      /\ t.left[s] \in {NULL, u.left[s]} /\ t.right[s] \in {NULL, u.right[s]}
      /\ u.left[e] = NULL /\ u.right[e] = NULL
  BY <1>0, <1>2 DEF Grown
<1>5. \A y \in Entry : y # e => u.parent[y] = t.parent[y] /\ u.size[y] = t.size[y]
  BY DEF NewEntry
<1>6. u.size[e] = n /\ \A y \in Entry : t.size[y] \in Nat
  BY <1>0, SizesNat DEF NewEntry
<1>7. Subtree(u, NULL) = {} /\ Subtree(t, NULL) = {}
  BY <1>0, SubtreeIs DEF Pointer
<1>8. Rooted(u)
  <2>1. t.root \in InTree(t) /\ t.parent[t.root] = NULL
    BY <1>0, InTreeIs DEF Sorted, Rooted
  <2> QED BY <1>0, <1>4, <1>5, <2>1 DEF Rooted
<1>9. ChildrenBack(u)
  <2> SUFFICES ASSUME NEW y \in InTree(u)
               PROVE  /\ u.left[y] # NULL => u.parent[u.left[y]] = y
                      /\ u.right[y] # NULL => u.parent[u.right[y]] = y
    BY DEF ChildrenBack
  <2>1. CASE y = e
    BY <1>4, <2>1
  <2>2. CASE y # e
    <3>1. y \in InTree(t) /\ y \in Entry
      BY <1>0, <1>3, <2>2
    <3>2. /\ t.left[y] # NULL => /\ t.left[y] \in Entry /\ t.left[y] # e
                                 /\ t.parent[t.left[y]] = y
          /\ t.right[y] # NULL => /\ t.right[y] \in Entry /\ t.right[y] # e
                                  /\ t.parent[t.right[y]] = y
      BY <1>0, <3>1, InTreeIs DEF Sorted, ChildrenBack
    <3>3. /\ u.left[y] = t.left[y] \/ (u.left[y] = e /\ y = s)
          /\ u.right[y] = t.right[y] \/ (u.right[y] = e /\ y = s)
      BY <1>4, <3>1
    <3> QED BY <1>5, <3>2, <3>3
  <2> QED BY <2>1, <2>2
<1>10. ASSUME NEW y \in InTree(t)
       PROVE  /\ s \in Subtree(t, t.left[y]) => n < t.size[y]
              /\ s \in Subtree(t, t.right[y]) => n > t.size[y]
  <2>1. /\ y \in Entry /\ t.size[y] \in Nat
        /\ y \notin Subtree(t, t.left[y]) /\ y \notin Subtree(t, t.right[y])
        /\ Subtree(t, t.left[y]) \cap Subtree(t, t.right[y]) = {}
    BY <1>0, <1>6, SortedFacts
  <2>2. Subtree(t, y) = {y} \cup Subtree(t, t.left[y]) \cup Subtree(t, t.right[y])
    BY <1>0, <2>1, SubtreeSplit
  <2>3. s \in Subtree(t, y) /\ s # y =>
           t.size[y] # n /\ s \in Subtree(t, Toward(t, n)[y])
    BY <1>0, <1>1, <1>2, SearchPath
  <2>4. /\ t.size[y] # n /\ n > t.size[y] => Toward(t, n)[y] = t.right[y]
        /\ t.size[y] # n /\ ~ (n > t.size[y]) => Toward(t, n)[y] = t.left[y]
    BY <1>0, <2>1, TowardIs
  <2>5. CASE n > t.size[y]
    BY <1>1, <2>1, <2>2, <2>3, <2>4, <2>5
  <2>6. CASE ~ (n > t.size[y])
    BY <1>1, <2>1, <2>2, <2>3, <2>4, <2>6
  <2> QED BY <2>5, <2>6
<1>11. Ordered(u)
  <2> SUFFICES ASSUME NEW y \in InTree(u)
               PROVE  /\ \A f \in Subtree(u, u.left[y]) : u.size[f] < u.size[y]
                      /\ \A f \in Subtree(u, u.right[y]) : u.size[f] > u.size[y]
    BY DEF Ordered
  <2>1. CASE y = e
    BY <1>4, <1>7, <2>1
  <2>2. CASE y # e
    <3>1. y \in InTree(t) /\ y \in Entry /\ u.size[y] = t.size[y]
      BY <1>0, <1>3, <1>5, <2>2
    <3>2. /\ u.left[y] = t.left[y] \/ (u.left[y] = e /\ y = s)
          /\ u.right[y] = t.right[y] \/ (u.right[y] = e /\ y = s)
      BY <1>4, <3>1
    <3>3. /\ t.left[y] \in InTree(t) \cup {NULL}
          /\ t.right[y] \in InTree(t) \cup {NULL}
      BY <1>0, <3>1, InTreeIs
    <3>4. ASSUME NEW f \in Subtree(u, u.left[y]) PROVE u.size[f] < u.size[y]
      <4>1. CASE u.left[y] = e /\ y = s
        <5>1. f = e
          BY <1>3, <3>4, <4>1
        <5> QED BY <1>6, <3>1, <4>1, <5>1
      <4>2. CASE u.left[y] = t.left[y]
        <5>1. t.left[y] \in InTree(t) /\ t.left[y] \in Entry
          BY <1>0, <1>7, <3>3, <3>4, <4>2
        <5>2. CASE f = e
          <6>1. s \in Subtree(t, t.left[y])
            BY <1>3, <3>4, <4>2, <5>1, <5>2
          <6> QED BY <1>6, <1>10, <3>1, <5>2, <6>1
        <5>3. CASE f # e
          <6>1. f \in Subtree(t, t.left[y]) /\ f \in Entry
            BY <1>0, <1>3, <3>4, <4>2, <5>1, <5>3, InTreeIs
          <6> QED BY <1>0, <1>5, <3>1, <5>3, <6>1 DEF Sorted, Ordered
        <5> QED BY <5>2, <5>3
      <4> QED BY <3>2, <4>1, <4>2
    <3>5. ASSUME NEW f \in Subtree(u, u.right[y]) PROVE u.size[f] > u.size[y]
      <4>1. CASE u.right[y] = e /\ y = s
        <5>1. f = e
          BY <1>3, <3>5, <4>1
        <5> QED BY <1>6, <3>1, <4>1, <5>1
      <4>2. CASE u.right[y] = t.right[y]
        <5>1. t.right[y] \in InTree(t) /\ t.right[y] \in Entry
          BY <1>0, <1>7, <3>3, <3>5, <4>2
        <5>2. CASE f = e
          <6>1. s \in Subtree(t, t.right[y])
            BY <1>3, <3>5, <4>2, <5>1, <5>2
          <6> QED BY <1>6, <1>10, <3>1, <5>2, <6>1
        <5>3. CASE f # e
          <6>1. f \in Subtree(t, t.right[y]) /\ f \in Entry
            BY <1>0, <1>3, <3>5, <4>2, <5>1, <5>3, InTreeIs
          <6> QED BY <1>0, <1>5, <3>1, <5>3, <6>1 DEF Sorted, Ordered
        <5> QED BY <5>2, <5>3
      <4> QED BY <3>2, <4>1, <4>2
    <3> QED BY <3>4, <3>5
  <2> QED BY <2>1, <2>2
<1>12. Blank(u)
  <2>1. ASSUME NEW y \in Entry, y \notin InTree(u)
        PROVE  u.left[y] = NULL /\ u.right[y] = NULL
    <3>1. y \notin InTree(t) /\ y # s
      BY <1>2, <1>3, <2>1
    <3> QED BY <1>4, <3>1 DEF Good, Blank
  <2>2. ASSUME NEW y \in Entry, y \notin Live(u)
        PROVE  u.next[y] = NULL /\ u.parent[y] = NULL
    BY <1>0, <1>5, <2>2 DEF Good, Blank
  <2> QED BY <2>1, <2>2 DEF Blank
<1>13. Listed(u)
  <2>1. /\ \A y \in Entry : t.next[y] # NULL => /\ t.next[y] \in Live(t) \ InTree(t)
                                                /\ t.size[t.next[y]] = t.size[y]
        /\ \A d, y \in Entry : t.next[d] = t.next[y] /\ t.next[d] # NULL => d = y
    BY DEF Good, Listed
  <2>2. ASSUME NEW y \in Entry, u.next[y] # NULL
        PROVE  /\ u.next[y] \in Live(u) \ InTree(u)
               /\ u.size[u.next[y]] = u.size[y]
    <3>1. /\ u.next[y] = t.next[y] /\ t.next[y] \in Live(t) \ InTree(t)
          /\ t.size[t.next[y]] = t.size[y] /\ t.next[y] # e /\ y # e
          /\ t.next[y] \in Entry
      BY <1>0, <2>1, <2>2
    <3>2. u.next[y] \in Live(u) \ InTree(u)
      BY <1>0, <1>3, <3>1
    <3> QED BY <1>5, <3>1, <3>2
  <2> QED BY <2>1, <2>2 DEF Listed
<1>14. Kept(u)
  <2>1. Reachable(u) \in SUBSET Entry /\ t.root \in Reachable(u) \cup {NULL}
    BY <1>4, ReachableIs
  <2>2. ASSUME NEW y \in Reachable(u)
        PROVE  /\ t.left[y] \in Reachable(u) \cup {NULL}
               /\ t.right[y] \in Reachable(u) \cup {NULL}
               /\ t.next[y] \in Reachable(u) \cup {NULL}
    <3>1. /\ u.left[y] \in Reachable(u) \cup {NULL}
          /\ u.right[y] \in Reachable(u) \cup {NULL}
          /\ u.next[y] \in Reachable(u) \cup {NULL}
      BY ReachableIs
    <3>2. y \in Entry
      BY <2>1
    <3> QED BY <1>4, <3>1, <3>2
  <2>3. Reachable(t) \subseteq Reachable(u)
    BY <1>0, <2>1, <2>2, ReachableIs
  <2>4. e \in Reachable(u) /\ InTree(u) = InTree(t) \cup {e}
    BY <1>3, ReachableIs
  <2>5. Live(t) \subseteq Reachable(u)
    BY <2>3 DEF Good, Kept
  <2> QED BY <1>0, <2>4, <2>5 DEF Kept
<1> QED BY <1>0, <1>8, <1>9, <1>11, <1>12, <1>13, <1>14 DEF Good, Sorted


\* The entry as insertion fills it, before it is linked.
Filling(t, e, i) == [t EXCEPT !.size[e] = i.size, !.item[e] = i, !.length = @ + 1]

LEMMA FillingFields ==
    ASSUME NEW t \in Tree, NEW e \in Entry, NEW i \in Item
    PROVE  LET v == Filling(t, e, i) IN
           /\ v \in Tree /\ v.root = t.root /\ v.length = t.length + 1
           /\ v.next = t.next /\ v.left = t.left /\ v.right = t.right
           /\ v.parent = t.parent
           /\ \A y \in Entry :
                /\ v.size[y] = IF y = e THEN i.size ELSE t.size[y]
                /\ v.item[y] = IF y = e THEN i ELSE t.item[y]
<1>1. i.size \in Size \cup {0} /\ i \in Item \cup {NULL} /\ t.length + 1 \in Nat
  BY ItemAssumption DEF Tree
<1>2. PICK n, l : n = i.size /\ l = t.length + 1
  OBVIOUS
<1> DEFINE v == [t EXCEPT !.size[e] = n, !.item[e] = i, !.length = l]
<1>3. v = Filling(t, e, i)
  BY <1>2 DEF Filling
<1>4. v \in Tree
  BY <1>1, <1>2 DEF Tree
<1>5. /\ v.root = t.root /\ v.length = l /\ v.next = t.next
      /\ v.left = t.left /\ v.right = t.right /\ v.parent = t.parent
  BY DEF Tree
<1>6. \A y \in Entry : /\ v.size[y] = IF y = e THEN n ELSE t.size[y]
                       /\ v.item[y] = IF y = e THEN i ELSE t.item[y]
  BY DEF Tree
<1> HIDE DEF v
<1> QED BY <1>2, <1>3, <1>4, <1>5, <1>6

\* Every case of lexbor_bst_insert.
LEMMA InsertedGood ==
    ASSUME NEW t, Good(t), Live(t) # Entry, NEW i \in Item, i \notin Items(t)
    PROVE  Good(Inserted(t, i)) /\ Items(Inserted(t, i)) = Items(t) \cup {i}
<1> DEFINE u == Inserted(t, i)
<1>0. PICK e, v, s : e = FirstFree(t) /\ v = Filling(t, e, i) /\ s = Stop(t, i.size)
  OBVIOUS
<1>1. /\ t \in Tree /\ Sorted(t) /\ e \in Entry \ Live(t) /\ i.size \in Nat
      /\ t.parent[e] = NULL /\ InTree(t) \subseteq Live(t)
  BY <1>0, FirstFreeIs, ItemAssumption, SizeAssumption DEF Good, Blank, Kept
<1>2. /\ v \in Tree /\ v.root = t.root /\ v.length = t.length + 1
      /\ v.next = t.next /\ v.left = t.left /\ v.right = t.right
      /\ v.parent = t.parent
      /\ \A y \in Entry :
           /\ v.size[y] = IF y = e THEN i.size ELSE t.size[y]
           /\ v.item[y] = IF y = e THEN i ELSE t.item[y]
  BY <1>0, <1>1, FillingFields
<1>3. u = IF t.root = NULL THEN [v EXCEPT !.root = e]
          ELSE IF t.size[s] = i.size
          THEN [v EXCEPT !.next[e] = t.next[s], !.next[s] = e,
                         !.parent[e] = t.parent[s]]
          ELSE IF i.size > t.size[s] THEN [v EXCEPT !.right[s] = e, !.parent[e] = s]
          ELSE [v EXCEPT !.left[s] = e, !.parent[e] = s]
  BY <1>0 DEF Inserted, Filling
<1> HIDE DEF u
<1>4. CASE t.root = NULL
  <2>1. /\ u \in Tree /\ u.root = e /\ u.length = t.length + 1
        /\ u.next = t.next /\ u.left = t.left /\ u.right = t.right
        /\ u.parent = t.parent /\ u.size = v.size /\ u.item = v.item
    BY <1>1, <1>2, <1>3, <1>4 DEF Tree, Pointer
  <2>2. NewEntry(t, u, e, i)
    BY <1>2, <2>1 DEF NewEntry
  <2>3. Good(u) /\ Items(u) = Items(t) \cup {i}
    BY <1>1, <1>4, <2>1, <2>2, InsertRootGood
  <2> QED BY <2>3 DEF u
<1>5. ASSUME t.root # NULL
      PROVE  /\ s \in InTree(t) /\ s \in Entry /\ s # e /\ t.size[s] \in Nat
             /\ Toward(t, i.size)[s] = NULL
             /\ t.next[s] \in Pointer /\ t.parent[s] \in Pointer
  <2>1. s \in InTree(t) /\ Toward(t, i.size)[s] = NULL
    BY <1>0, <1>1, <1>5, StopIs
  <2>2. s \in Entry /\ s # e
    BY <1>1, <2>1, InTreeIs
  <2> QED BY <1>1, <2>1, <2>2, SizesNat DEF Tree
<1>6. CASE t.root # NULL /\ t.size[s] = i.size
  <2>1. u = [v EXCEPT !.next[e] = t.next[s], !.next[s] = e,
                      !.parent[e] = t.parent[s]]
    BY <1>3, <1>6
  <2>2. /\ u \in Tree /\ u.root = t.root /\ u.length = t.length + 1
        /\ u.left = t.left /\ u.right = t.right
        /\ u.size = v.size /\ u.item = v.item
        /\ \A y \in Entry :
             /\ u.next[y] = IF y = e THEN t.next[s] ELSE IF y = s THEN e ELSE t.next[y]
             /\ y # e => u.parent[y] = t.parent[y]
    BY <1>1, <1>2, <1>5, <1>6, <2>1 DEF Tree, Pointer
  <2>3. NewEntry(t, u, e, i)
    BY <1>2, <2>2 DEF NewEntry
  <2>4. Good(u) /\ Items(u) = Items(t) \cup {i}
    BY <1>1, <1>5, <1>6, <2>2, <2>3, InsertListedGood
  <2> QED BY <2>4 DEF u
<1>7. CASE t.root # NULL /\ t.size[s] # i.size /\ i.size > t.size[s]
  <2>1. u = [v EXCEPT !.right[s] = e, !.parent[e] = s]
    BY <1>3, <1>7
  <2>2. /\ u \in Tree /\ u.root = t.root /\ u.length = t.length + 1
        /\ u.left = t.left /\ u.next = t.next
        /\ u.size = v.size /\ u.item = v.item /\ u.parent[e] = s
        /\ \A y \in Entry : /\ u.right[y] = IF y = s THEN e ELSE t.right[y]
                            /\ y # e => u.parent[y] = t.parent[y]
    BY <1>1, <1>2, <1>5, <1>7, <2>1 DEF Tree, Pointer
  <2>3. NewEntry(t, u, e, i)
    BY <1>2, <2>2 DEF NewEntry
  <2>4. t.right[s] = NULL
    BY <1>1, <1>5, <1>7, TowardIs
  <2>5. Grown(t, u, s, e)
    BY <1>5, <1>7, <2>2, <2>4 DEF Grown
  <2>6. u.left[s] # e
    <3>1. t.left[s] \in InTree(t) \cup {NULL}
      BY <1>1, <1>5, <1>7, InTreeIs
    <3> QED BY <1>1, <2>2, <3>1, NullAssumption
  <2>7. Good(u) /\ Items(u) = Items(t) \cup {i}
    BY <1>0, <1>1, <1>7, <2>2, <2>3, <2>5, <2>6, InsertLeafGood
  <2> QED BY <2>7 DEF u
<1>8. CASE t.root # NULL /\ t.size[s] # i.size /\ ~ (i.size > t.size[s])
  <2>1. u = [v EXCEPT !.left[s] = e, !.parent[e] = s]
    BY <1>3, <1>8
  <2>2. /\ u \in Tree /\ u.root = t.root /\ u.length = t.length + 1
        /\ u.right = t.right /\ u.next = t.next
        /\ u.size = v.size /\ u.item = v.item /\ u.parent[e] = s
        /\ \A y \in Entry : /\ u.left[y] = IF y = s THEN e ELSE t.left[y]
                            /\ y # e => u.parent[y] = t.parent[y]
    BY <1>1, <1>2, <1>5, <1>8, <2>1 DEF Tree, Pointer
  <2>3. NewEntry(t, u, e, i)
    BY <1>2, <2>2 DEF NewEntry
  <2>4. t.left[s] = NULL
    BY <1>1, <1>5, <1>8, TowardIs
  <2>5. Grown(t, u, s, e)
    BY <1>5, <1>8, <2>2, <2>4 DEF Grown
  <2>6. u.right[s] # e
    <3>1. t.right[s] \in InTree(t) \cup {NULL}
      BY <1>1, <1>5, <1>8, InTreeIs
    <3> QED BY <1>1, <2>2, <3>1, NullAssumption
  <2>7. i.size < t.size[s]
    BY <1>1, <1>5, <1>8
  <2>8. Good(u) /\ Items(u) = Items(t) \cup {i}
    BY <1>0, <1>1, <1>8, <2>2, <2>3, <2>5, <2>6, <2>7, InsertLeafGood
  <2> QED BY <2>8 DEF u
<1> QED BY <1>4, <1>6, <1>7, <1>8

LEMMA EmptyGood == Good(Empty) /\ Items(Empty) = {}
<1>1. /\ Empty \in Tree /\ Empty.root = NULL /\ Empty.length = 0
      /\ \A e \in Entry : /\ Empty.item[e] = NULL /\ Empty.next[e] = NULL
                          /\ Empty.left[e] = NULL /\ Empty.right[e] = NULL
                          /\ Empty.parent[e] = NULL
  BY DEF Empty, Tree, Pointer
<1> HIDE DEF Empty
<1>2. Live(Empty) = {} /\ InTree(Empty) = {}
  BY <1>1, InTreeIs DEF Live
<1>3. Sorted(Empty) /\ Blank(Empty) /\ Listed(Empty) /\ Filled(Empty)
  BY <1>1, <1>2 DEF Sorted, Rooted, ChildrenBack, Ordered, Blank, Listed, Filled
<1>4. Kept(Empty)
  BY <1>1, <1>2, FS_EmptySet DEF Kept
<1> QED BY <1>1, <1>2, <1>3, <1>4 DEF Good, Items

-----------------------------------------------------------------------------
(* The invariant and what follows from it.                                 *)

LastOK ==
    last \in [call : {"insert", "remove", "remove_close", "clean"},
              asked : Size \cup {0}, item : Item \cup {NULL}]

IInv == Good(tree) /\ LastOK

\* The item that a removal at e returns: that of e or of the next in its list.
Taken(t, e) == t.item[IF t.next[e] = NULL THEN e ELSE t.next[e]]

LEMMA TakenIs ==
    ASSUME NEW t, Good(t), NEW e \in InTree(t)
    PROVE  /\ Taken(t, e) \in Items(t) /\ Taken(t, e) \in Item
           /\ Taken(t, e).size = t.size[e]
<1>1. PICK x : x = IF t.next[e] = NULL THEN e ELSE t.next[e]
  OBVIOUS
<1>2. t \in Tree /\ e \in Live(t) /\ e \in Entry
  BY DEF Good, Kept, Live
<1>3. x \in Live(t) /\ x \in Entry /\ t.size[x] = t.size[e]
  BY <1>1, <1>2 DEF Good, Listed, Live
<1>4. t.item[x] \in Item
  BY <1>2, <1>3 DEF Tree, Live
<1> QED BY <1>1, <1>3, <1>4 DEF Taken, Items, Good, Filled

LEMMA ItemSizes ==
    ASSUME NEW t, Good(t), NEW j \in Items(t)
    PROVE  j.size \in Nat /\ \E f \in InTree(t) : t.size[f] = j.size
<1>1. PICK y \in Live(t) : j = t.item[y]
  BY DEF Items
<1>2. t.size[y] = j.size /\ y \in Entry /\ t \in Tree
  BY <1>1 DEF Good, Filled, Live
<1>3. \E f \in InTree(t) : t.size[f] = t.size[y]
  BY SizesInTree
<1>4. t.size[y] \in Nat
  BY <1>2, SizesNat
<1> QED BY <1>2, <1>3, <1>4

\* What the three calls do to a tree that meets the invariant.
LEMMA RemoveInv ==
    ASSUME IInv, NEW n \in Size, NEW e, e = NULL \/ e \in InTree(tree),
           NEW name \in {"remove", "remove_close"}, RemoveByPointer(name, n, e)
    PROVE  IInv'
<1>1. CASE e = NULL
  BY <1>1 DEF RemoveByPointer, IInv, LastOK, Call
<1>2. CASE e # NULL
  <2>1. /\ tree' = Removed(tree, e) /\ last' = Call(name, n, Taken(tree, e))
    BY <1>2 DEF RemoveByPointer, Taken
  <2>2. Good(Removed(tree, e)) /\ Taken(tree, e) \in Item
    BY <1>2, RemovedGood, TakenIs DEF IInv
  <2> QED BY <2>1, <2>2 DEF IInv, LastOK, Call
<1> QED BY <1>1, <1>2

LEMMA InsertInv ==
    ASSUME IInv, NEW i \in Item, Insert(i)
    PROVE  IInv' /\ i \notin Items(tree) /\ Items(tree)' = Items(tree) \cup {i}
<1>1. /\ Live(tree) # Entry /\ i \notin Items(tree) /\ tree' = Inserted(tree, i)
      /\ last' = Call("insert", i.size, NULL)
  BY DEF Insert, Items
<1>2. /\ Good(Inserted(tree, i)) /\ i.size \in Size
      /\ Items(Inserted(tree, i)) = Items(tree) \cup {i}
  BY <1>1, InsertedGood, ItemAssumption DEF IInv
<1> QED BY <1>1, <1>2 DEF IInv, LastOK, Call

LEMMA InitIInv == Init => IInv
  BY EmptyGood DEF Init, IInv, LastOK, Call

\* A search ends at an entry of the tree or with none.
LEMMA FoundIs ==
    ASSUME IInv, NEW n \in Size
    PROVE  /\ n \in Nat /\ tree \in Tree /\ Sorted(tree)
           /\ Exact(tree, n) = NULL \/ Exact(tree, n) \in InTree(tree)
           /\ Close(tree, n) = NULL \/ Close(tree, n) \in InTree(tree)
<1>1. n \in Nat /\ tree \in Tree /\ Sorted(tree)
  BY SizeAssumption DEF IInv, Good
<1> QED BY <1>1, ExactIs, CloseIs

LEMMA NextIInv == IInv /\ [Next]_vars => IInv'
<1> SUFFICES ASSUME IInv, [Next]_vars PROVE IInv'
  OBVIOUS
<1>1. ASSUME NEW i \in Item, Insert(i) PROVE IInv'
  BY <1>1, InsertInv
<1>2. ASSUME NEW n \in Size, Remove(n) PROVE IInv'
  <2>1. RemoveByPointer("remove", n, Exact(tree, n))
    BY <1>2 DEF Remove
  <2> QED BY <2>1, FoundIs, RemoveInv
<1>3. ASSUME NEW n \in Size, RemoveClose(n) PROVE IInv'
  <2>1. RemoveByPointer("remove_close", n, Close(tree, n))
    BY <1>3 DEF RemoveClose
  <2> QED BY <2>1, FoundIs, RemoveInv
<1>4. CASE Clean
  BY <1>4, EmptyGood DEF Clean, IInv, LastOK, Call
<1>5. CASE UNCHANGED vars
  BY <1>5 DEF vars, IInv, LastOK
<1> QED BY <1>1, <1>2, <1>3, <1>4, <1>5 DEF Next

\* The inductive invariant: the tree is sorted and points back, the lists hang
\* behind entries of their size, what the pool has back is blank, and every
\* entry that is handed out can be reached.
THEOREM BstInvariance == Spec => []IInv
  BY InitIInv, NextIInv, PTL DEF Spec

\* Every link of an entry points to an entry of the pool or nowhere, and
\* tree_length never exceeds the pool nor drops below zero, whatever is inserted
\* and removed.
THEOREM BstTypes == Spec => []TypeOK
<1>1. IInv => TypeOK
  <2> SUFFICES ASSUME IInv PROVE TypeOK
    OBVIOUS
  <2>1. tree \in Tree /\ tree.length = Cardinality(Live(tree))
    BY DEF IInv, Good, Kept
  <2>2. tree.length \in 0 .. Cardinality(Entry)
    <3>1. Cardinality(Entry) \in Nat
      BY FS_CardinalityType, EntryAssumption
    <3> QED BY <2>1, <3>1, LiveFinite
  <2> QED BY <2>1, <2>2 DEF TypeOK, Tree, IInv, LastOK
<1> QED BY <1>1, BstInvariance, PTL

\* After any history of calls of bst.c, for any sizes and any pool, the links
\* are those of a search tree and no list of equals has an entry of another
\* size or one that the tree has too.
THEOREM BstStaysSorted == Spec => []SearchTree
<1>1. IInv => SearchTree
  <2> SUFFICES ASSUME IInv PROVE SearchTree
    OBVIOUS
  <2>1. /\ tree \in Tree /\ Sorted(tree) /\ InTree(tree) \subseteq Entry
        /\ Live(tree) \in SUBSET Entry
    BY InTreeIs DEF IInv, Good, Live
  <2>2. ASSUME NEW e \in InTree(tree), NEW f \in Reach({tree.next}, tree.next[e])
        PROVE  tree.size[f] = tree.size[e] /\ f \notin InTree(tree)
    <3> DEFINE C == {y \in Live(tree) : /\ y \notin InTree(tree)
                                        /\ tree.size[y] = tree.size[e]}
    <3>1. {tree.next} \in SUBSET [Entry -> Pointer] /\ tree.next[e] \in Pointer
      BY <2>1 DEF Tree
    <3>2. C \in SUBSET Entry /\ tree.next[e] \in C \cup {NULL}
      BY <2>1 DEF IInv, Good, Listed
    <3>3. Closed({tree.next}, C)
      BY <2>1 DEF Closed, IInv, Good, Listed
    <3> HIDE DEF C
    <3>4. f \in C
      BY <3>1, <3>2, <3>3, ReachIs
    <3> QED BY <3>4 DEF C
  <2>3. tree.root # NULL => tree.parent[tree.root] = NULL
    BY <2>1 DEF Sorted, Rooted
  <2>4. ASSUME NEW e \in InTree(tree)
        PROVE  /\ \A f \in {tree.left[e], tree.right[e]} \ {NULL} : tree.parent[f] = e
               /\ \A f \in Subtree(tree, tree.left[e]) : tree.size[f] < tree.size[e]
               /\ \A f \in Subtree(tree, tree.right[e]) : tree.size[f] > tree.size[e]
    BY <2>1 DEF Sorted, ChildrenBack, Ordered
  <2> QED BY <2>2, <2>3, <2>4 DEF SearchTree, InTree
<1> QED BY <1>1, BstInvariance, PTL

\* tree_length counts the entries, and all that the pool has handed out can be
\* reached from the root, so that no removal of bst.c loses a block.
THEOREM BstLosesNothing == Spec => []NoneLost
<1>1. IInv => NoneLost
  BY ReachableLive DEF IInv, Good, Kept, NoneLost
<1> QED BY <1>1, BstInvariance, PTL

-----------------------------------------------------------------------------
(* The tree implements the cache.                                          *)

Held == {tree.item[e] : e \in Reachable(tree)}

LEMMA HeldIs ==
    ASSUME NEW t, Good(t) PROVE {t.item[e] : e \in Reachable(t)} = Items(t)
  BY ReachableLive DEF Items

\* The entry of the size asked for holds an item of that size, if any is there.
LEMMA ExactFits ==
    ASSUME IInv, NEW n \in Size
    PROVE  /\ Exact(tree, n) = NULL => Cache!Exact(Items(tree), n) = {}
           /\ Exact(tree, n) # NULL =>
                 Taken(tree, Exact(tree, n)) \in Cache!Exact(Items(tree), n)
<1>1. n \in Nat /\ tree \in Tree /\ Sorted(tree) /\ Good(tree)
  BY FoundIs DEF IInv
<1>2. CASE Exact(tree, n) = NULL
  <2>1. \A f \in InTree(tree) : tree.size[f] # n
    BY <1>1, <1>2, ExactIs
  <2>2. \A j \in Items(tree) : j.size # n
    BY <1>1, <2>1, ItemSizes
  <2> QED BY <1>2, <2>2 DEF Cache!Exact
<1>3. CASE Exact(tree, n) # NULL
  <2>1. Exact(tree, n) \in InTree(tree) /\ tree.size[Exact(tree, n)] = n
    BY <1>1, <1>3, ExactIs
  <2>2. /\ Taken(tree, Exact(tree, n)) \in Items(tree)
        /\ Taken(tree, Exact(tree, n)).size = n
    BY <1>1, <2>1, TakenIs
  <2> QED BY <1>3, <2>2 DEF Cache!Exact
<1> QED BY <1>2, <1>3

\* The closest entry holds an item of the least size that is large enough.
LEMMA CloseFits ==
    ASSUME IInv, NEW n \in Size
    PROVE  /\ Close(tree, n) = NULL => Cache!Closest(Items(tree), n) = {}
           /\ Close(tree, n) # NULL =>
                 Taken(tree, Close(tree, n)) \in Cache!Closest(Items(tree), n)
<1>1. n \in Nat /\ tree \in Tree /\ Sorted(tree) /\ Good(tree)
  BY FoundIs DEF IInv
<1>2. CASE Close(tree, n) = NULL
  <2>1. \A f \in InTree(tree) : tree.size[f] < n
    BY <1>1, <1>2, CloseIs
  <2>2. \A j \in Items(tree) : j.size \in Nat /\ j.size < n
    BY <1>1, <2>1, ItemSizes
  <2>3. \A j \in Items(tree) : ~ (j.size >= n)
    BY <1>1, <2>2
  <2> QED BY <1>2, <2>3 DEF Cache!Closest
<1>3. CASE Close(tree, n) # NULL
  <2>1. PICK c : c = Close(tree, n)
    OBVIOUS
  <2>2. /\ c \in InTree(tree) /\ tree.size[c] >= n
        /\ \A f \in InTree(tree) : tree.size[f] >= n => tree.size[c] <= tree.size[f]
    BY <1>1, <1>3, <2>1, CloseIs
  <2>3. Taken(tree, c) \in Items(tree) /\ Taken(tree, c).size = tree.size[c]
    BY <1>1, <2>2, TakenIs
  <2>4. ASSUME NEW j \in Items(tree), j.size >= n PROVE tree.size[c] <= j.size
    BY <1>1, <2>2, <2>4, ItemSizes
  <2>5. Taken(tree, c) \in Cache!Closest(Items(tree), n)
    BY <2>2, <2>3, <2>4 DEF Cache!Closest
  <2> QED BY <1>3, <2>1, <2>5
<1> QED BY <1>2, <1>3

\* What a removal finds is what the cache takes.
LEMMA RemoveTakes ==
    ASSUME IInv, IInv', NEW n \in Size, NEW e, NEW fit,
           e = NULL => fit = {},
           e # NULL => e \in InTree(tree) /\ Taken(tree, e) \in fit,
           NEW name, RemoveByPointer(name, n, e)
    PROVE  Cache!Take(name, n, fit)
<1>1. Held = Items(tree) /\ Held' = Items(tree)'
  BY HeldIs DEF IInv, Held
<1>2. CASE e = NULL
  <2>1. tree' = tree /\ last' = Call(name, n, NULL) /\ fit = {}
    BY <1>2 DEF RemoveByPointer
  <2>2. Held' = Held
    BY <2>1 DEF Held
  <2> QED BY <2>1, <2>2 DEF Cache!Take, Cache!Call, Call, Held
<1>3. CASE e # NULL
  <2>1. /\ tree' = Removed(tree, e) /\ last' = Call(name, n, Taken(tree, e))
        /\ Taken(tree, e) \in fit
    BY <1>3 DEF RemoveByPointer, Taken
  <2>2. Items(Removed(tree, e)) = Items(tree) \ {Taken(tree, e)}
    BY <1>3, RemovedGood DEF IInv, Taken
  <2>3. Held' = Held \ {Taken(tree, e)}
    BY <1>1, <2>1, <2>2
  <2> QED BY <2>1, <2>3 DEF Cache!Take, Cache!Call, Call, Held
<1> QED BY <1>2, <1>3

LEMMA NextCache == IInv /\ IInv' /\ [Next]_vars => [Cache!Next]_<<Held, last>>
<1> SUFFICES ASSUME IInv, IInv', [Next]_vars PROVE [Cache!Next]_<<Held, last>>
  OBVIOUS
<1>0. Held = Items(tree) /\ Held' = Items(tree)'
  BY HeldIs DEF IInv, Held
<1>1. ASSUME NEW i \in Item, Insert(i) PROVE Cache!Put(i)
  <2>1. /\ i \notin Held /\ Held' = Held \cup {i}
        /\ last' = Call("insert", i.size, NULL)
    BY <1>0, <1>1, InsertInv DEF Insert
  <2> QED BY <2>1 DEF Cache!Put, Cache!Call, Call, Held
<1>2. ASSUME NEW n \in Size, Remove(n)
      PROVE  Cache!Take("remove", n, Cache!Exact(Held, n))
  <2>1. RemoveByPointer("remove", n, Exact(tree, n))
    BY <1>2 DEF Remove
  <2>2. PICK e, fit : e = Exact(tree, n) /\ fit = Cache!Exact(Items(tree), n)
    OBVIOUS
  <2>3. /\ e = NULL => fit = {}
        /\ e # NULL => e \in InTree(tree) /\ Taken(tree, e) \in fit
    BY <2>2, FoundIs, ExactFits
  <2>4. Cache!Take("remove", n, fit)
    BY <2>1, <2>2, <2>3, RemoveTakes
  <2> QED BY <1>0, <2>2, <2>4 DEF Cache!Take
<1>3. ASSUME NEW n \in Size, RemoveClose(n)
      PROVE  Cache!Take("remove_close", n, Cache!Closest(Held, n))
  <2>1. RemoveByPointer("remove_close", n, Close(tree, n))
    BY <1>3 DEF RemoveClose
  <2>2. PICK e, fit : e = Close(tree, n) /\ fit = Cache!Closest(Items(tree), n)
    OBVIOUS
  <2>3. /\ e = NULL => fit = {}
        /\ e # NULL => e \in InTree(tree) /\ Taken(tree, e) \in fit
    BY <2>2, FoundIs, CloseFits
  <2>4. Cache!Take("remove_close", n, fit)
    BY <2>1, <2>2, <2>3, RemoveTakes
  <2> QED BY <1>0, <2>2, <2>4 DEF Cache!Take
<1>4. CASE Clean
  <2>1. tree' = Empty /\ last' = Call("clean", 0, NULL) /\ Items(Empty) = {}
    BY <1>4, EmptyGood DEF Clean
  <2>2. Held' = {}
    BY <1>0, <2>1
  <2>3. Cache!Clean
    BY <2>1, <2>2 DEF Cache!Clean, Cache!Call, Call, Held
  <2> QED BY <2>3 DEF Cache!Next
<1>5. CASE UNCHANGED vars
  <2>1. UNCHANGED <<Held, last>>
    BY <1>5 DEF vars, Held
  <2> QED BY <2>1
<1>6. ASSUME NEW i \in Item, Insert(i) PROVE Cache!Next
  BY <1>1, <1>6 DEF Cache!Next
<1>7. ASSUME NEW n \in Size, Remove(n) \/ RemoveClose(n) PROVE Cache!Next
  BY <1>2, <1>3, <1>7 DEF Cache!Next, Held
<1> QED BY <1>4, <1>5, <1>6, <1>7 DEF Next

LEMMA InitCache == Init => Cache!Init
<1> SUFFICES ASSUME Init PROVE Cache!Init
  OBVIOUS
<1>1. IInv /\ tree = Empty /\ last = Call("clean", 0, NULL)
  BY InitIInv DEF Init
<1>2. Held = {}
  BY <1>1, HeldIs, EmptyGood DEF IInv, Held
<1> QED BY <1>1, <1>2 DEF Cache!Init, Cache!Call, Call, Held

\* The tree of bst.c keeps exactly what it was given and did not hand out, and
\* hands out an item of the size asked for, or one of the least size that is
\* large enough: it implements SizeCache.
THEOREM BstIsACache == Spec => ImplementsCache
<1>1. IInv /\ IInv' /\ [Next]_vars
         => [Cache!Next]_<<{tree.item[e] : e \in Reachable(tree)}, last>>
  BY NextCache DEF Held
<1> QED BY <1>1, InitCache, BstInvariance, PTL DEF Spec, ImplementsCache, Cache!Spec

==============================================================================
