------------------------------- MODULE KeyMap -------------------------------
(***************************************************************************)
(* What the balanced tree of lexbor/core/avl.h promises its callers: a map *)
(* from keys to values in which put touches one key only, and drop takes   *)
(* its key and what is tied to it at that moment.  Whoever implements the  *)
(* map says what is tied to a key; a map that loses nothing ties nothing.  *)
(* At most one gap of the order is tied to a key: all that is between two  *)
(* entries, the upper of which is the one in front of the key.             *)
(***************************************************************************)
EXTENDS Integers

CONSTANTS Key, Value

VARIABLES
    map,    \* the entries
    tied    \* for each key the other keys that leave with it

Init == map = [k \in {} |-> {}]

Put(k, v) ==
    map' = [m \in DOMAIN map \cup {k} |-> IF m = k THEN v ELSE map[m]]

Drop(k) ==
    /\ k \in DOMAIN map
    /\ map' = [m \in DOMAIN map \ ({k} \cup tied[k]) |-> map[m]]

Next == \E k \in Key : Drop(k) \/ \E v \in Value : Put(k, v)

Between(p, n) == {m \in DOMAIN map : p < m /\ m < n}

Tied(k) ==
    \/ tied[k] = {}
    \/ \E p, n \in DOMAIN map :
          /\ p < n /\ n < k /\ Between(n, k) = {}
          /\ tied[k] = Between(p, n)

OneGapTied == \A k \in DOMAIN map : Tied(k)

Spec == Init /\ [][Next]_map /\ []OneGapTied

=============================================================================
