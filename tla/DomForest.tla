----------------------------- MODULE DomForest -----------------------------
(***************************************************************************)
(* What the tree operations of lexbor/dom promise to their caller: an      *)
(* ordered forest of nodes, where every call is one atomic step.  There    *)
(* are no links, loops or callbacks here; DomTreeRefine shows that         *)
(* DomTree implements this specification.                                  *)
(*                                                                         *)
(* An operation is a relation between two forests: k and K are the         *)
(* children of every node before and after it, a and A the nodes that      *)
(* exist.                                                                  *)
(***************************************************************************)
EXTENDS FiniteSetsExt, SequencesExt

CONSTANTS Node, NULL

VARIABLES
    alive,  \* the nodes that exist
    kids    \* the children of every node, in order

vars == <<alive, kids>>

\* The forest k without the nodes of S in any list of children.
Without(k, S) == [p \in Node |-> SelectSeq(k[p], LAMBDA m : m \notin S)]

\* K is k with xs somewhere among the children of p.
Spliced(k, K, p, xs) ==
    /\ \A m \in Node \ {p} : K[m] = k[m]
    /\ \E i \in 0 .. Len(k[p]) :
          K[p] = SubSeq(k[p], 1, i) \o xs \o SubSeq(k[p], i + 1, Len(k[p]))

\* The nodes of the forest k that hang below the nodes of S, and S.
Below(k, S) ==
    FoldSet(LAMBDA m, T : T \cup UNION {ToSet(k[p]) : p \in T}, S, Node)

\* n, from wherever it was, goes in front of a child of p or behind them all.
Place(k, K, p, n) ==
    /\ Spliced(Without(k, {n}), K, p, <<n>>)
    /\ p \notin Below(k, {n})

\* All children of g move, in their order, to one place under p.
PlaceAll(k, K, p, g) ==
    /\ Spliced([k EXCEPT ![g] = <<>>], K, p, k[g])
    /\ p \notin Below(k, {g})

Detach(k, K, n) == K = Without(k, {n})

\* n, or the children of n, take the place of a child of p somewhere among the
\* other children of p, which keep their order.
Replace(k, K, p, n) ==
    /\ \E c \in ToSet(k[p]) :
          \/ Spliced(Without(k, {n, c}), K, p, <<n>>)
          \/ Spliced([Without(k, {c}) EXCEPT ![n] = <<>>], K, p, k[n])
    /\ p \notin Below(k, {n})

\* p loses all children and gets n, the children of n, or - when n may not go
\* there - nothing.
Renew(k, K, p, n) ==
    LET e == Without(k, ToSet(k[p])) IN
    \/ K = e
    \/ p \notin Below(e, {n}) /\ K = [Without(e, {n}) EXCEPT ![p] = <<n>>]
    \/ p \notin Below(e, {n}) /\ K = [e EXCEPT ![n] = <<>>, ![p] = e[n]]

Moved(k, K, p, n) ==
    \/ Detach(k, K, n)
    \/ Place(k, K, p, n) \/ PlaceAll(k, K, p, n) \/ Replace(k, K, p, n) \/ Renew(k, K, p, n)

Born(a, A) == \E n \in Node \ a : A = a \cup {n}

\* r and everything below it cease to exist.
Purged(a, k, A, K, r) ==
    LET gone == Below(k, {r}) IN
    /\ A = a \ gone
    /\ K = [m \in Node |-> IF m \in gone THEN <<>> ELSE Without(k, gone)[m]]

\* Everything below p ceases to exist and n, which may be new, is its child.
Refilled(a, k, A, K, p, n) ==
    LET gone == Below(k, ToSet(k[p])) IN
    /\ n \notin gone /\ p \notin Below(k, {n})
    /\ A = (a \cup {n}) \ gone
    /\ K = [m \in Node |-> IF m = p THEN <<n>>
                           ELSE IF m \in gone THEN <<>> ELSE k[m]]

\* Nothing, when the call is rejected; or the children of some node change; or
\* nodes appear and disappear.
Step(a, k, A, K) ==
    \/ A = a /\ K = k
    \/ A = a /\ \E p \in {q \in a : K[q] # k[q]}, n \in a : Moved(k, K, p, n)
    \/ A # a /\ K = k /\ Born(a, A)
    \/ A # a /\ \E r \in a : Purged(a, k, A, K, r)
    \/ \E p \in {q \in a : K[q] # k[q]}, n \in Node : Refilled(a, k, A, K, p, n)

Init == alive = {} /\ kids = [n \in Node |-> <<>>]

\* (Bound variables, so that a refinement mapping is evaluated once for a step.)
Next ==
    \E a \in {alive}, k \in {kids}, A \in {alive'}, K \in {kids'} : Step(a, k, A, K)

Spec == Init /\ [][Next]_vars
=============================================================================
