---------------------------- MODULE MCFormatting ----------------------------
EXTENDS Formatting

Nodes == 1 .. 29

Words(tags, n, m) == [tags |-> tags, open |-> n, active |-> m]

\* Ordinary nesting with markers; tables; the two tags that close themselves; the
\* same in tables; room for four elements between an element and its block, with
\* the one that leaves the list before it there as well as behind it; and blocks
\* enough for all turns of the algorithm.
Documents == {Words({"b", "i", "div", "span", "object"}, 7, 4),
              Words({"b", "i", "div", "p", "table"}, 7, 4),
              Words({"a", "nobr", "div", "p"}, 12, 4),
              Words({"a", "nobr", "b", "object", "table"}, 8, 4),
              Words({"b", "i", "div", "span"}, 10, 3),
              Words({"b", "div"}, 12, 4)}

\* The elements named by their places, and of the tags b and i, which nothing
\* tells apart, the one that comes first named b: states that differ only in the
\* numbers of the elements or in these two names have the same future.
Shape ==
    LET more == SelectSeq(tree.active, LAMBDA n : n # Marker /\ n \notin ToSet(tree.open))
        kept == IF job = NULL \/ job.node = NULL THEN <<>> ELSE <<job.node>>
        all == tree.open \o more \o kept
        Place(n) == IF n \in ToSet(all) THEN Min({i \in DOMAIN all : all[i] = n}) ELSE 0
        pair == {i \in DOMAIN all : tree.tag[all[i]] \in {"b", "i"}}
        swapped == /\ pair # {} /\ {"b", "i"} \subseteq words.tags
                   /\ tree.tag[all[Min(pair)]] = "i"
        Name(g) == IF swapped /\ g = "b" THEN "i" ELSE IF swapped /\ g = "i" THEN "b" ELSE g
    IN  <<words, mode, Len(tree.open), [i \in DOMAIN all |-> Name(tree.tag[all[i]])],
          [i \in DOMAIN all |-> Place(tree.above[all[i]])],
          [i \in DOMAIN tree.active |-> Place(tree.active[i])],
          IF job = NULL THEN NULL ELSE <<job.caller, Name(job.tag), Place(job.node), job.turn>> >>
=============================================================================
