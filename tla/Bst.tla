-------------------------------- MODULE Bst --------------------------------
(***************************************************************************)
(* The binary search tree of lexbor/core/bst.c, in which the memory arena  *)
(* keeps its free blocks by size: entries with left, right and parent      *)
(* links, entries of equal size in a list behind the one in the tree, and  *)
(* removal by copying an entry over the one that goes.                     *)
(***************************************************************************)
EXTENDS Integers, FiniteSets

CONSTANTS
    Item,   \* what is stored: records with a field "size"
    Size,   \* the sizes that are asked for
    Entry,  \* the entries in the pool, numbers
    NULL

ASSUME ItemAssumption  == \A i \in Item : i.size \in Size
ASSUME SizeAssumption  == Size \subseteq Nat
ASSUME EntryAssumption == Entry \subseteq Nat /\ IsFiniteSet(Entry)
ASSUME NullAssumption  == NULL \notin Entry /\ NULL \notin Item

VARIABLES
    tree,   \* the fields of every entry, the root and tree_length
    last    \* the last call: its name, the size asked for, the item returned

vars == <<tree, last>>

-----------------------------------------------------------------------------
(* Entries.                                                                *)

\* An entry as the pool hands it out, all zero.
Zeroed(t, e) ==
    [t EXCEPT !.size[e] = 0, !.item[e] = NULL, !.next[e] = NULL,
              !.left[e] = NULL, !.right[e] = NULL, !.parent[e] = NULL]

Live(t) == {e \in Entry : t.item[e] # NULL}

\* Which free entry the pool hands out cannot be seen; the model takes the first.
FirstFree(t) ==
    CHOOSE e \in Entry \ Live(t) : \A f \in Entry \ Live(t) : e <= f

SetParent(t, e, p) == IF e = NULL THEN t ELSE [t EXCEPT !.parent[e] = p]

\* The children of e point back at it.
Adopt(t, e) == SetParent(SetParent(t, t.left[e], e), t.right[e], e)

Pointer == Entry \cup {NULL}

\* C contains every entry that one of the links in F leads to from C.
Closed(F, C) == \A f \in F : \A x \in C : f[x] \in C \cup {NULL}

\* The entries that the links in F lead to from e, e included.
Reach(F, e) ==
    LET closed == {C \in SUBSET Entry : e \in C \cup {NULL} /\ Closed(F, C)}
    IN  {x \in Entry : \A C \in closed : x \in C}

\* Where a loop of the form "while (e->f != NULL) e = e->f" ends.
End(f, e) == CHOOSE x \in Reach({f}, e) : f[x] = NULL

Subtree(t, e) == Reach({t.left, t.right}, e)

\* Where the search for size n goes on from each entry.
Toward(t, n) ==
    [e \in Entry |-> IF t.size[e] = n THEN NULL
                     ELSE IF n > t.size[e] THEN t.right[e] ELSE t.left[e]]

\* The entry at which the search for n from the root of a tree ends.
Stop(t, n) == End(Toward(t, n), t.root)

Exact(t, n) ==
    IF t.root # NULL /\ t.size[Stop(t, n)] = n THEN Stop(t, n) ELSE NULL

\* Where the search for n turns left.
LeftTurns(t, n) == {e \in Reach({Toward(t, n)}, t.root) : n < t.size[e]}

\* Mutant of Close: the search keeps the first entry that is large enough.
CloseFirst(t, n) ==
    IF LeftTurns(t, n) = {} THEN Exact(t, n)
    ELSE CHOOSE e \in LeftTurns(t, n) :
            LeftTurns(t, n) \subseteq Reach({Toward(t, n)}, e)

\* The entry of that size, or else the last one where the search turned left.
Close(t, n) ==
    IF Exact(t, n) # NULL THEN Exact(t, n)
    ELSE IF LeftTurns(t, n) = {} THEN NULL
    ELSE CHOOSE e \in LeftTurns(t, n) :
            LeftTurns(t, n) \cap Reach({Toward(t, n)}, t.left[e]) = {}

-----------------------------------------------------------------------------
(* lexbor_bst_insert.                                                      *)

Inserted(t, i) ==
    LET e == FirstFree(t)
        n == i.size
        u == [t EXCEPT !.size[e] = n, !.item[e] = i, !.length = @ + 1]
        s == Stop(t, n)
    IN  IF t.root = NULL THEN [u EXCEPT !.root = e]
        ELSE IF t.size[s] = n
        THEN [u EXCEPT !.next[e] = t.next[s], !.next[s] = e,
                       !.parent[e] = t.parent[s]]
        ELSE IF n > t.size[s] THEN [u EXCEPT !.right[s] = e, !.parent[e] = s]
        ELSE [u EXCEPT !.left[s] = e, !.parent[e] = s]

-----------------------------------------------------------------------------
(* lexbor_bst_remove_by_pointer.                                           *)

\* No children: the parent, or the root, forgets e.
DropLeaf(t, e) ==
    LET p == t.parent[e]
    IN  Zeroed(IF p = NULL THEN [t EXCEPT !.root = NULL]
               ELSE [t EXCEPT !.left[p]  = IF @ = e THEN NULL ELSE @,
                              !.right[p] = IF @ = e THEN NULL ELSE @], e)

\* Mutant of Lift: the children of c keep their old parent.
LiftForgets(t, e, c) ==
    IF t.parent[e] = NULL
    THEN Zeroed([t EXCEPT !.parent[c] = NULL, !.root = c], e)
    ELSE Zeroed([t EXCEPT !.size[e] = t.size[c], !.item[e] = t.item[c],
                          !.next[e] = t.next[c], !.left[e] = t.left[c],
                          !.right[e] = t.right[c]], c)

\* One child: c becomes the root, or is copied over e.
Lift(t, e, c) ==
    IF t.parent[e] = NULL
    THEN Adopt(Zeroed([t EXCEPT !.parent[c] = NULL, !.root = c], e), c)
    ELSE Adopt(Zeroed([t EXCEPT !.size[e] = t.size[c], !.item[e] = t.item[c],
                                !.next[e] = t.next[c], !.left[e] = t.left[c],
                                !.right[e] = t.right[c]], c), e)

\* Two children: the first entry of the right subtree, m, is copied over e and
\* its right subtree takes its place.
Leftmost(t, e) == End(t.left, e)

\* Mutant of Swap: the list behind m is left with the entry that is freed.
SwapForgetsList(t, e) ==
    LET m == Leftmost(t, t.right[e])
        u == [t EXCEPT !.size[e] = t.size[m], !.item[e] = t.item[m]]
    IN  Zeroed(IF t.right[e] = m
               THEN SetParent([u EXCEPT !.right[e] = t.right[m]], t.right[m], e)
               ELSE SetParent([u EXCEPT !.left[t.parent[m]] = t.right[m]],
                              t.right[m], t.parent[m]), m)

Swap(t, e) ==
    LET m == Leftmost(t, t.right[e])
        u == [t EXCEPT !.size[e] = t.size[m], !.item[e] = t.item[m],
                       !.next[e] = t.next[m]]
    IN  Zeroed(IF t.right[e] = m
               THEN SetParent([u EXCEPT !.right[e] = t.right[m]], t.right[m], e)
               ELSE SetParent([u EXCEPT !.left[t.parent[m]] = t.right[m]],
                              t.right[m], t.parent[m]), m)

\* Mutant of Removed: tree_length stays.
RemovedUncounted(t, e) ==
    LET x == t.next[e]
    IN  IF x # NULL THEN Zeroed([t EXCEPT !.next[e] = t.next[x]], x)
        ELSE IF t.left[e] = NULL /\ t.right[e] = NULL THEN DropLeaf(t, e)
        ELSE IF t.left[e] = NULL THEN Lift(t, e, t.right[e])
        ELSE IF t.right[e] = NULL THEN Lift(t, e, t.left[e])
        ELSE Swap(t, e)

\* The tree without e, or without the entry listed behind it.
Removed(t, e) ==
    LET u == [t EXCEPT !.length = @ - 1]
        x == t.next[e]
    IN  IF x # NULL THEN Zeroed([u EXCEPT !.next[e] = t.next[x]], x)
        ELSE IF t.left[e] = NULL /\ t.right[e] = NULL THEN DropLeaf(u, e)
        ELSE IF t.left[e] = NULL THEN Lift(u, e, t.right[e])
        ELSE IF t.right[e] = NULL THEN Lift(u, e, t.left[e])
        ELSE Swap(u, e)

-----------------------------------------------------------------------------
(* The actions.                                                            *)

Empty ==
    LET null == [e \in Entry |-> NULL]
    IN  [size |-> [e \in Entry |-> 0], item |-> null, next |-> null,
         left |-> null, right |-> null, parent |-> null,
         root |-> NULL, length |-> 0]

Call(name, n, i) == [call |-> name, asked |-> n, item |-> i]

Init == tree = Empty /\ last = Call("clean", 0, NULL)

\* A failed allocation leaves the tree as it is and needs no action.
Insert(i) ==
    /\ Live(tree) # Entry
    /\ \A e \in Live(tree) : tree.item[e] # i
    /\ tree' = Inserted(tree, i)
    /\ last' = Call("insert", i.size, NULL)

\* What the calls do with the entry that they have found for size n.
RemoveByPointer(name, n, e) ==
    IF e = NULL THEN tree' = tree /\ last' = Call(name, n, NULL)
    ELSE /\ tree' = Removed(tree, e)
         /\ last' = Call(name, n, tree.item[IF tree.next[e] = NULL THEN e
                                             ELSE tree.next[e]])

Remove(n) == RemoveByPointer("remove", n, Exact(tree, n))

RemoveClose(n) == RemoveByPointer("remove_close", n, Close(tree, n))

Clean == tree' = Empty /\ last' = Call("clean", 0, NULL)

Next ==
    \/ \E i \in Item : Insert(i)
    \/ \E n \in Size : Remove(n) \/ RemoveClose(n)
    \/ Clean

Spec == Init /\ [][Next]_vars

-----------------------------------------------------------------------------
(* Properties.                                                             *)

\* Types of the variables.
TypeOK ==
    /\ tree \in [size : [Entry -> Size \cup {0}], item : [Entry -> Item \cup {NULL}],
                 next : [Entry -> Pointer], left : [Entry -> Pointer],
                 right : [Entry -> Pointer], parent : [Entry -> Pointer],
                 root : Pointer, length : 0 .. Cardinality(Entry)]
    /\ last \in [call : {"insert", "remove", "remove_close", "clean"},
                 asked : Size \cup {0}, item : Item \cup {NULL}]

Reachable(t) == Reach({t.left, t.right, t.next}, t.root)

\* After any history of insertions, removals by copying and re-linked
\* subtrees the links are those of a search tree: sizes are smaller to the
\* left and larger to the right, children point back, and no list of equals
\* has an entry of another size or one that the tree has too.
SearchTree ==
    /\ tree.root # NULL => tree.parent[tree.root] = NULL
    /\ \A e \in Subtree(tree, tree.root) :
         /\ \A f \in {tree.left[e], tree.right[e]} \ {NULL} : tree.parent[f] = e
         /\ \A f \in Subtree(tree, tree.left[e]) : tree.size[f] < tree.size[e]
         /\ \A f \in Subtree(tree, tree.right[e]) : tree.size[f] > tree.size[e]
         /\ \A f \in Reach({tree.next}, tree.next[e]) :
               /\ tree.size[f] = tree.size[e]
               /\ f \notin Subtree(tree, tree.root)

\* tree_length, which decides whether the arena asks the tree at all, counts
\* the entries that are reachable, and these are all that the pool handed out.
NoneLost ==
    /\ tree.length = Cardinality(Live(tree))
    /\ Reachable(tree) = Live(tree)

\* The tree keeps what it was given and hands out the best fit.
Cache == INSTANCE SizeCache
            WITH held <- {tree.item[e] : e \in Reachable(tree)}

ImplementsCache == Cache!Spec

=============================================================================
