--------------------------- MODULE DomTreeRefine ---------------------------
(***************************************************************************)
(* DomTree implements DomForest.  While a loop is running, the forest is   *)
(* the one the loop is going to leave behind: a call takes effect at its   *)
(* first step, and every later iteration of its loop is a stutter.         *)
(***************************************************************************)
EXTENDS DomTree, Sequences

\* The children of p in the tree t, read off the links.
RECURSIVE ListFrom(_, _)
ListFrom(t, n) == IF n = NULL THEN <<>> ELSE <<n>> \o ListFrom(t, t.next[n])

KidsOf(t) == [p \in Node |-> ListFrom(t, t.first[p])]

RECURSIVE UnlinkFrom(_, _)
UnlinkFrom(t, n) == IF n = NULL THEN t ELSE UnlinkFrom(Unlink(t, n), t.next[n])

F == INSTANCE DomForest WITH alive <- live, kids <- KidsOf(tree)

\* The sequence s with xs in front of c, or at the end when c is NULL.
Splice(s, xs, c) ==
    IF c = NULL THEN s \o xs
    ELSE LET i == CHOOSE j \in DOMAIN s : s[j] = c
         IN  SubSeq(s, 1, i - 1) \o xs \o SubSeq(s, i, Len(s))

\* The forest after p has been given n, as far as the validity check lets it.
Appended(t, p, n) ==
    LET k == KidsOf(t) IN
    IF PreInsertValidity(t, p, n, NULL) # Ok THEN k
    ELSE IF NodeType[n] = "fragment" THEN [k EXCEPT ![n] = <<>>, ![p] = @ \o k[n]]
    ELSE [F!Without(k, {n}) EXCEPT ![p] = Append(@, n)]

\* The nodes the loop in progress is going to free: the subtree it is freeing
\* and, when a parent is being refilled, everything below that parent.
Doomed ==
    LET k == KidsOf(tree)
        below == IF job.parent = NULL THEN {} ELSE F!ToSet(k[job.parent])
    IN
    CASE job.kind = "destroy" -> F!Below(k, {job.root} \cup below)
      [] job.kind = "refill"  -> F!Below(k, below)
      [] OTHER -> {}

AliveAtEnd == live \ Doomed

KidsAtEnd ==
    LET k == KidsOf(tree)
        gone == Doomed
        left == F!Without(k, gone)
        spared == [m \in Node |-> IF m \in gone THEN <<>> ELSE left[m]]
    IN
    CASE job.kind = "insert" ->
            LET xs == ListFrom(tree, job.node)
            IN  [F!Without(k, F!ToSet(xs))
                    EXCEPT ![job.parent] = Splice(@, xs, job.mark)]
      [] job.kind = "clear" ->
            Appended(UnlinkFrom(tree, job.node), job.parent, job.mark)
      [] job.kind \in {"refill", "destroy"} /\ job.parent # NULL ->
            [spared EXCEPT ![job.parent] = <<job.mark>>]
      [] job.kind = "destroy" /\ job.parent = NULL -> spared
      [] OTHER -> k

Forest == INSTANCE DomForest WITH alive <- AliveAtEnd, kids <- KidsAtEnd

\* Every call, loops included, does one of the atomic things of DomForest: it
\* moves exactly the nodes it was given, keeps the order of all other
\* children, and frees exactly the subtree it was given.
ImplementsForest == Forest!Spec
=============================================================================
