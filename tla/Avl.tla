-------------------------------- MODULE Avl --------------------------------
(***************************************************************************)
(* The AVL tree of lexbor/core/avl.c: nodes with left, right and parent    *)
(* links and a stored height, rebalanced on the way up, and the walk that  *)
(* lets its callback change the tree.  A node is named by its type, which  *)
(* is the search key.                                                      *)
(***************************************************************************)
EXTENDS Integers, FiniteSets

CONSTANTS
    Key,        \* the types in use, numbers
    Value,      \* what callers store
    NULL,       \* the null pointer
    TypeLimit   \* types are computed modulo this (SIZE_MAX + 1)

ASSUME KeyAssumption  == Key \subseteq 0 .. TypeLimit - 1 /\ TypeLimit \in Nat \ {0}
ASSUME NullAssumption == NULL \notin Key

VARIABLES
    tree,   \* left, right, parent and height of every node; the caller's root
    value,  \* what each node stores
    live,   \* the nodes that the pool has handed out
    walk    \* the foreach in progress

vars == <<tree, value, live, walk>>

-----------------------------------------------------------------------------
(* Reading the tree.  t[s][n] is the child of n on side s.                 *)

Pointer == Key \cup {NULL}
Other == [left |-> "right", right |-> "left"]

Tree == [left : [Key -> Pointer], right : [Key -> Pointer],
         parent : [Key -> Pointer], height : [Key -> Nat], root : Pointer]

\* On which side of n the search for k goes on.
Toward(k, n) == IF k < n THEN "left" ELSE "right"

\* The node at or below n at which the search for k stops.
Stop(t, n, k) ==
    LET stop[m \in Key] ==
            IF m = k \/ t[Toward(k, m)][m] = NULL THEN m
            ELSE stop[t[Toward(k, m)][m]]
    IN  stop[n]

Found(t, k) == t.root # NULL /\ Stop(t, t.root, k) = k

Utmost(t, n, s) ==
    LET utmost[m \in Pointer] ==
            IF m = NULL \/ t[s][m] = NULL THEN m ELSE utmost[t[s][m]]
    IN  utmost[n]

\* The first node at or behind k: "best" is where the search last turned left.
SearchGE(t, k) ==
    LET ge[x \in [node : Pointer, best : Pointer]] ==
            IF x.node = NULL THEN x.best
            ELSE IF x.node = k THEN k
            ELSE ge[[node |-> t[Toward(k, x.node)][x.node],
                     best |-> IF k < x.node THEN x.node ELSE x.best]]
    IN  ge[[node |-> t.root, best |-> NULL]]

NodesBelow(t, n) ==
    LET below[m \in Pointer] ==
            IF m = NULL THEN {} ELSE {m} \cup below[t.left[m]] \cup below[t.right[m]]
    IN  below[n]

Nodes(t) == NodesBelow(t, t.root)

-----------------------------------------------------------------------------
(* Rotations and rebalancing.                                              *)

Height(t, n) == IF n = NULL THEN 0 ELSE t.height[n]

SetHeight(t, n) ==
    LET l == Height(t, t.left[n])
        r == Height(t, t.right[n])
    IN  [t EXCEPT !.height[n] = (IF l > r THEN l ELSE r) + 1]

SetParent(t, n, p) == IF n = NULL THEN t ELSE [t EXCEPT !.parent[n] = p]

\* The parent p of n, or the scope, points at m instead.
SetLink(t, p, n, m) ==
    IF p = NULL THEN [t EXCEPT !.root = m]
    ELSE [t EXCEPT ![IF t.left[p] = n THEN "left" ELSE "right"][p] = m]

\* Mutant of Rotate: the inner subtree is not handed over.
RotateDropsInner(t, pos, s) ==
    LET o == Other[s]
        n == t[s][pos]
        v == [t EXCEPT !.parent[n] = t.parent[pos], ![s][pos] = NULL,
                       !.parent[pos] = n, ![o][n] = pos]
    IN  SetHeight(SetHeight(v, pos), n)

\* Rotate the child of pos on side s up into its place.
Rotate(t, pos, s) ==
    LET o == Other[s]
        n == t[s][pos]
        u == SetParent([t EXCEPT !.parent[n] = t.parent[pos]], t[o][n], pos)
        v == [u EXCEPT ![s][pos] = t[o][n], !.parent[pos] = n, ![o][n] = pos]
    IN  SetHeight(SetHeight(v, pos), n)

\* The child of n on side s is the higher one by two.
Straighten(t, n, s) ==
    LET c == t[s][n]
        o == Other[s]
        u == IF Height(t, t[o][c]) > Height(t, t[s][c])
             THEN [Rotate(t, c, o) EXCEPT ![s][n] = t[o][c]]
             ELSE t
        p == t.parent[n]
        v == Rotate(u, n, s)
    IN  [tree |-> IF p = NULL THEN v ELSE SetLink(v, p, n, u[s][n]),
         node |-> u[s][n]]

\* One turn of the loop: n is put right, and the turn after it starts at node.
Balance(t, n) ==
    LET u    == SetHeight(t, n)
        tilt == Height(u, u.right[n]) - Height(u, u.left[n])
    IN  CASE tilt = 2  -> Straighten(u, n, "right")
          [] tilt = -2 -> Straighten(u, n, "left")
          [] OTHER     -> [tree |-> IF u.parent[n] = NULL
                                    THEN [u EXCEPT !.root = n] ELSE u,
                           node |-> u.parent[n]]

\* Mutant of Rebalance: one turn only.
RebalanceOnce(t, n) == IF n = NULL THEN t ELSE Balance(t, n).tree

Rebalance(t, n) ==
    LET end[x \in [tree : Tree, node : Pointer]] ==
            IF x.node = NULL THEN x.tree ELSE end[Balance(x.tree, x.node)]
    IN  end[[tree |-> t, node |-> n]]

-----------------------------------------------------------------------------
(* Insertion and removal.                                                  *)

\* The first node of a tree keeps the height zero of fresh memory.
Inserted(t, k) ==
    IF t.root = NULL THEN [t EXCEPT !.root = k]
    ELSE LET n == Stop(t, t.root, k)
         IN  IF n = k THEN t
             ELSE Rebalance([t EXCEPT ![Toward(k, n)][n] = k, !.parent[k] = n], k)

\* Mutant of Detach: the right subtree keeps its old parent.
DetachForgetsRight(t, d, n) ==
    LET near == n # NULL /\ t.left[d] = n IN
    IF n = NULL
    THEN [tree |-> SetLink(SetParent(t, t.right[d], t.parent[d]),
                           t.parent[d], d, t.right[d]),
          from |-> t.parent[d]]
    ELSE [tree |-> LET u == IF near THEN t
                            ELSE SetParent([t EXCEPT !.right[t.parent[n]] = NULL,
                                                     !.left[n] = t.left[d]],
                                           t.left[d], n)
                   IN  SetLink([u EXCEPT !.parent[n] = t.parent[d],
                                         !.right[n] = t.right[d]],
                               t.parent[d], d, n),
          from |-> IF near /\ t.left[n] # NULL THEN t.left[n] ELSE n]

\* rotate_for_delete: n, the last node left of d, takes the place of d; without
\* one the right subtree does.  "from" is where rebalancing starts.
Detach(t, d, n) ==
    LET near == n # NULL /\ t.left[d] = n IN
    IF n = NULL
    THEN [tree |-> SetLink(SetParent(t, t.right[d], t.parent[d]),
                           t.parent[d], d, t.right[d]),
          from |-> t.parent[d]]
    ELSE [tree |-> LET u == IF near THEN t
                            ELSE SetParent([t EXCEPT !.right[t.parent[n]] = NULL,
                                                     !.left[n] = t.left[d]],
                                           t.left[d], n)
                       v == SetParent(u, t.right[d], n)
                   IN  SetLink([v EXCEPT !.parent[n] = t.parent[d],
                                         !.right[n] = t.right[d]],
                               t.parent[d], d, n),
          from |-> IF near /\ t.left[n] # NULL THEN t.left[n] ELSE n]

\* The links a node has when the pool hands it out.
Blank(t, k) ==
    [t EXCEPT !.left[k] = NULL, !.right[k] = NULL, !.parent[k] = NULL,
              !.height[k] = 0]

RemovedNode(t, d) ==
    LET s == Detach(t, d, Utmost(t, t.left[d], "right"))
    IN  Blank(Rebalance(s.tree, s.from), d)

\* The node that takes the place of d comes from deeper than d's left child ...
Deep(t, d) == t.left[d] \notin {NULL, Utmost(t, t.left[d], "right")}

\* ... and what it had on its left is not linked again: it leaves the tree.
Lost(t, d) ==
    IF Deep(t, d)
    THEN NodesBelow(t, t.left[Utmost(t, t.left[d], "right")])
    ELSE {}

-----------------------------------------------------------------------------
(* The actions.                                                            *)

Resting == [phase |-> "idle", next |-> 0, seen |-> {}, stable |-> {}]

Init ==
    /\ tree = [left   |-> [k \in Key |-> NULL], right  |-> [k \in Key |-> NULL],
               parent |-> [k \in Key |-> NULL], height |-> [k \in Key |-> 0],
               root   |-> NULL]
    /\ value = [k \in Key |-> NULL]
    /\ live = {}
    /\ walk = Resting

\* A second insert of a type only replaces the value.
Insert(k, v) ==
    /\ tree' = Inserted(IF Found(tree, k) THEN tree ELSE Blank(tree, k), k)
    /\ value' = [value EXCEPT ![k] = v]
    /\ live' = live \cup {k}
    /\ UNCHANGED walk

Remove(k) ==
    /\ Found(tree, k)
    /\ tree' = RemovedNode(tree, k)
    /\ live' = live \ {k}
    /\ walk' = [walk EXCEPT !.stable = (@ \ {k}) \cap Nodes(tree')]
    /\ value' = [value EXCEPT ![k] = NULL]

\* Mutant of Visit: the walk leaves one type out.
VisitSkips(n, seen, stable) ==
    walk' = [phase |-> "walking", next |-> n + 2,
             seen |-> seen \cup {n}, stable |-> stable]

\* The callback runs on n; the walk will go on behind it.
Visit(n, seen, stable) ==
    walk' = [phase |-> "walking", next |-> (n + 1) % TypeLimit,
             seen |-> seen \cup {n}, stable |-> stable]

WalkStart ==
    /\ walk.phase # "walking" /\ tree.root # NULL
    /\ Visit(Utmost(tree, tree.root, "left"), {}, Nodes(tree))
    /\ UNCHANGED <<tree, value, live>>

\* Mutant of WalkTarget: the search starts at the node behind the target.
WalkTargetBehind == SearchGE(tree, walk.next + 1)

\* What the walk finds when its callback returns.
WalkTarget == SearchGE(tree, walk.next)

\* Mutant of WalkNext: it goes on from its target, not from behind it.
WalkNextAgain ==
    /\ walk.phase = "walking" /\ WalkTarget # NULL
    /\ walk' = [walk EXCEPT !.next = WalkTarget, !.seen = @ \cup {WalkTarget}]
    /\ UNCHANGED <<tree, value, live>>

WalkNext ==
    /\ walk.phase = "walking" /\ WalkTarget # NULL
    /\ Visit(WalkTarget, walk.seen, walk.stable)
    /\ UNCHANGED <<tree, value, live>>

WalkEnd ==
    /\ walk.phase = "walking" /\ WalkTarget = NULL
    /\ walk' = Resting
    /\ UNCHANGED <<tree, value, live>>

\* The callback returns an error.
WalkStop ==
    /\ walk.phase = "walking"
    /\ walk' = [Resting EXCEPT !.phase = "stopped"]
    /\ UNCHANGED <<tree, value, live>>

Next ==
    \/ \E k \in Key : Remove(k) \/ \E v \in Value : Insert(k, v)
    \/ WalkStart \/ WalkNext \/ WalkEnd \/ WalkStop

\* A callback returns after finitely many calls.
Spec == Init /\ [][Next]_vars /\ WF_vars(WalkNext \/ WalkEnd)

-----------------------------------------------------------------------------
(* Properties.                                                             *)

\* Types of the variables.
TypeOK ==
    /\ tree \in Tree
    /\ value \in [Key -> Value \cup {NULL}]
    /\ live \subseteq Key
    /\ walk \in [phase : {"idle", "walking", "stopped"}, next : 0 .. TypeLimit - 1,
                 seen : SUBSET Key, stable : SUBSET Key]

\* After any sequence of insertions and removals the links are those of a
\* search tree: everything left of a node is smaller, everything right of it
\* is larger, every child points back at its parent, the root at nothing.
SearchTree ==
    /\ tree.root # NULL => tree.parent[tree.root] = NULL
    /\ \A n \in Nodes(tree) :
         /\ \A s \in {"left", "right"} :
              tree[s][n] # NULL => tree.parent[tree[s][n]] = n
         /\ \A m \in NodesBelow(tree, tree.left[n]) : m < n
         /\ \A m \in NodesBelow(tree, tree.right[n]) : m > n

Depth(t, n) ==
    LET depth[m \in Pointer] ==
            IF m = NULL THEN 0
            ELSE LET l == depth[t.left[m]]
                     r == depth[t.right[m]]
                 IN  (IF l > r THEN l ELSE r) + 1
    IN  depth[n]

\* The depths of the two subtrees of a node differ by one at most, and every node
\* knows its depth; the only node of a tree may still have the height zero.
Even(t) ==
    \A n \in Nodes(t) :
        /\ Depth(t, t.left[n]) - Depth(t, t.right[n]) \in -1 .. 1
        /\ t.height[n] = Depth(t, n) \/ (Nodes(t) = {n} /\ t.height[n] = 0)

Leaf(t, n) == n # NULL /\ t.left[n] = NULL /\ t.right[n] = NULL

\* Rebalancing starts from the replacement of d in its new place.  Where it came
\* from deeper nothing looks at the nodes in between, so it must have left a
\* place there that changes no depth: it was a leaf beside a leaf.
Unsettles(t, d) ==
    /\ Deep(t, d)
    /\ LET n == Utmost(t, t.left[d], "right")
       IN  ~(Leaf(t, n) /\ Leaf(t, t.left[t.parent[n]]))

\* Every insertion leaves a balanced tree balanced, with the heights that later
\* rotations go by, and so does every removal but those in which the code takes
\* its replacement from a place that it does not look at again.
BalanceKept ==
    [][Even(tree) /\ (\A k \in live \ live' : ~Unsettles(tree, k)) => Even(tree')]_vars

\* A walk that its callback does not stop visits every node that was in the tree
\* when it began and stayed there, whatever else the callback inserts or removes
\* and however the tree rotates under it.
WalkVisitsAll ==
    [][walk.phase = "walking" /\ walk'.phase = "idle"
         => walk.stable \subseteq walk.seen]_vars

\* Every walk ends, although its callback may insert nodes in front of it.
WalkEnds == walk.phase = "walking" ~> walk.phase # "walking"

\* The tree implements a map, in any shape it gets into: rotations and the exchange
\* of nodes in a removal mix up no values and lose no key but those that
\* lexbor_avl_rotate_for_delete drops with the subtree of a deep replacement.
Map == INSTANCE KeyMap WITH map  <- [k \in Nodes(tree) |-> value[k]],
                            tied <- [k \in Nodes(tree) |-> Lost(tree, k)]

ImplementsMap == Map!Spec

-----------------------------------------------------------------------------
(* For TLC: states are one that differ only in nodes outside of the tree,  *)
(* in values, which no action reads, and in visits that nobody waits for.  *)

Shape ==
    <<tree.root, [n \in Nodes(tree) |-> <<tree.left[n], tree.right[n], tree.height[n]>>],
      walk.phase, walk.next, walk.stable \ walk.seen>>

=============================================================================
