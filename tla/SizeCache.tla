----------------------------- MODULE SizeCache -----------------------------
(***************************************************************************)
(* What the tree of lexbor/core/bst.c promises to the memory arena: a bag  *)
(* of items with sizes, from which the best fit can be taken.              *)
(***************************************************************************)
EXTENDS Integers

CONSTANTS
    Item,   \* records with a field "size"
    Size,   \* the sizes asked for
    NULL    \* nothing fits

VARIABLES
    held,   \* the items in the cache
    last    \* the last call: its name, the size asked for, the item returned

Exact(S, n) == {i \in S : i.size = n}

\* The items of the least size that is at least n.
Closest(S, n) ==
    {i \in S : i.size >= n /\ \A j \in S : j.size >= n => i.size <= j.size}

Call(name, n, i) == [call |-> name, asked |-> n, item |-> i]

Init == held = {} /\ last = Call("clean", 0, NULL)

Put(i) ==
    /\ i \notin held
    /\ held' = held \cup {i}
    /\ last' = Call("insert", i.size, NULL)

\* One of the items that would do, if there is one.
Take(name, n, fit) ==
    \/ \E i \in fit : held' = held \ {i} /\ last' = Call(name, n, i)
    \/ fit = {} /\ held' = held /\ last' = Call(name, n, NULL)

Clean == held' = {} /\ last' = Call("clean", 0, NULL)

Next ==
    \/ \E i \in Item : Put(i)
    \/ \E n \in Size : \/ Take("remove", n, Exact(held, n))
                      \/ Take("remove_close", n, Closest(held, n))
    \/ Clean

Spec == Init /\ [][Next]_<<held, last>>

=============================================================================
