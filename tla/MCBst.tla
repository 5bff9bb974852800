------------------------------- MODULE MCBst -------------------------------
(* Six items, one size of them twice: enough for an entry with two         *)
(* subtrees, a deep replacement and a list of equals behind the one that   *)
(* moves up.                                                               *)
EXTENDS Bst

Sized(n, k) == [size |-> n, id |-> k]

SixItems == {Sized(n, 1) : n \in 1 .. 5} \cup {Sized(3, 2)}
SixEntries == 1 .. 6
Sizes == 1 .. 6

\* The entries named by their items: states that differ only in which entry of
\* the pool holds what have the same future.
Named(e) == IF e = NULL THEN NULL ELSE tree.item[e]
ByItem ==
    [e \in {tree.item[x] : x \in Live(tree)} |->
        LET x == CHOOSE y \in Live(tree) : tree.item[y] = e
        IN  <<tree.size[x], Named(tree.next[x]), Named(tree.left[x]),
              Named(tree.right[x]), Named(tree.parent[x])>>]
Shape == <<ByItem, Named(tree.root), tree.length>>

=============================================================================
