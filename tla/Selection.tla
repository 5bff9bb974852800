----------------------------- MODULE Selection -----------------------------
(***************************************************************************)
(* What a selector means: which elements of a document it matches, by      *)
(* recursion over the selector. Matcher finds them without recursion.      *)
(*                                                                         *)
(* The elements of a document are numbered in tree order; parent[n] is 0   *)
(* for one without an element around it. names[n] is the set of simple     *)
(* selectors that hold for n: a type, a class, an attribute, :first-child. *)
(*                                                                         *)
(* A selector list is a sequence of complex selectors, a complex selector  *)
(* a sequence of items [comb, type, name, list, anb]: comb leads from the  *)
(* item before, "close" within a compound.                                 *)
(***************************************************************************)
EXTENDS Integers, Sequences, FiniteSets

Nodes(d) == DOMAIN d.parent

Ancestors(d, n) ==
    LET up[m \in {0} \cup Nodes(d)] == IF m = 0 THEN {} ELSE {m} \cup up[d.parent[m]]
    IN  up[n] \ {n}

Siblings(d, n) == {m \in Nodes(d) : d.parent[m] = d.parent[n]}

\* p stands to n as the combinator says.
Related(d, comb, p, n) ==
    CASE comb = "close"      -> p = n
      [] comb = "descendant" -> p \in Ancestors(d, n)
      [] comb = "child"      -> p = d.parent[n]
      [] comb = "following"  -> p \in Siblings(d, n) /\ p < n
      [] comb = "sibling"    -> /\ p \in Siblings(d, n) /\ p < n
                                /\ \A m \in Siblings(d, n) : m <= p \/ m >= n

\* index is a * k + b for some k >= 0.
AnB(anb, index) ==
    LET d == index - anb[2] IN \E k \in 0 .. (IF d < 0 THEN -d ELSE d) : d = anb[1] * k

RECURSIVE Holds(_, _, _), Matches(_, _, _, _), Relative(_, _, _, _)

\* Complex selector c, up to its item j, ends at n.
Matches(d, c, j, n) ==
    /\ Holds(d, c[j], n)
    /\ j > 1 => \E p \in Nodes(d) : Related(d, c[j].comb, p, n) /\ Matches(d, c, j - 1, p)

\* Complex selector c, from its item j on, starts at n.
Relative(d, c, j, n) ==
    \E p \in Nodes(d) : /\ Related(d, c[j].comb, n, p) /\ Holds(d, c[j], p)
                        /\ j < Len(c) => Relative(d, c, j + 1, p)

\* The item alone.
Holds(d, item, n) ==
    LET Any(m) == \E i \in DOMAIN item.list : Matches(d, item.list[i], Len(item.list[i]), m)
        counted == {m \in Siblings(d, n) : m <= n /\ (item.list = <<>> \/ Any(m))}
    IN  CASE item.type = "simple" -> item.name \in d.names[n]
          [] item.type = "is"     -> Any(n)
          [] item.type = "not"    -> ~Any(n)
          [] item.type = "has"    -> \E i \in DOMAIN item.list : Relative(d, item.list[i], 1, n)
          [] item.type = "nth"    -> n \in counted /\ AnB(item.anb, Cardinality(counted))

\* The pairs of an element and the number of a complex selector that matches
\* it, of the elements in order, in the order in which they are to be found.
Selected(d, list, order) ==
    LET Of(n) == SelectSeq([i \in DOMAIN list |-> <<n, i>>],
                           LAMBDA x : Matches(d, list[x[2]], Len(list[x[2]]), x[1]))
        from[k \in 1 .. Len(order) + 1] ==
            IF k > Len(order) THEN <<>> ELSE Of(order[k]) \o from[k + 1]
    IN  from[1]
=============================================================================
