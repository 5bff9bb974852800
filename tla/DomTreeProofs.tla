--------------------------- MODULE DomTreeProofs ---------------------------
(***************************************************************************)
(* Proofs about DomTree: the variables keep their types, the links         *)
(* describe a forest after every step, and the mutation callbacks report   *)
(* every move, for any set of nodes.  Then about the order of siblings,    *)
(* and with it that no document leaves its shape as long as only the       *)
(* validating calls are used.  The order is the one the links describe: b  *)
(* follows a when a walk along next from a meets b.                        *)
(***************************************************************************)
EXTENDS DomTree, FiniteSetTheorems, TLAPS

-----------------------------------------------------------------------------
(* What each primitive writes, field by field.                             *)

\* remove_wo_events: the neighbours and the parent skip n, n is loose.
LEMMA UnlinkFields ==
    ASSUME NEW t \in Tree, NEW n \in Node
    PROVE  LET u == Unlink(t, n) IN
           /\ u \in Tree
           /\ \A m \in Node :
                /\ u.parent[m] = IF m = n THEN NULL ELSE t.parent[m]
                /\ u.first[m] = IF m = t.parent[n] /\ t.first[m] = n
                                THEN t.next[n] ELSE t.first[m]
                /\ u.last[m] = IF m = t.parent[n] /\ t.last[m] = n
                               THEN t.prev[n] ELSE t.last[m]
                /\ u.prev[m] = IF m = n THEN NULL
                               ELSE IF m = t.next[n] THEN t.prev[n] ELSE t.prev[m]
                /\ u.next[m] = IF m = n THEN NULL
                               ELSE IF m = t.prev[n] THEN t.next[n] ELSE t.next[m]
  BY NullAssumption DEF Unlink, Tree, Pointer, SetIf

\* insert_child_wo_events: n goes behind the last child.
LEMMA LinkLastFields ==
    ASSUME NEW t \in Tree, NEW to \in Node, NEW n \in Node
    PROVE  LET u == LinkLast(t, to, n) IN
           /\ u \in Tree
           /\ \A m \in Node :
                /\ u.parent[m] = IF m = n THEN to ELSE t.parent[m]
                /\ u.first[m] = IF m = to /\ t.last[to] = NULL THEN n ELSE t.first[m]
                /\ u.last[m] = IF m = to THEN n ELSE t.last[m]
                /\ u.prev[m] = IF m = n THEN t.last[to] ELSE t.prev[m]
                /\ u.next[m] = IF m = n THEN NULL
                               ELSE IF m = t.last[to] THEN n ELSE t.next[m]
  BY NullAssumption DEF LinkLast, Tree, Pointer, SetIf

LEMMA LinkLastParents ==
    ASSUME NEW t \in Tree, NEW to \in Node, NEW n \in Node
    PROVE  \A m \in Node :
              LinkLast(t, to, n).parent[m] = IF m = n THEN to ELSE t.parent[m]
  BY LinkLastFields

\* insert_before_wo_events: n goes between to and its previous sibling.
LEMMA LinkBeforeFields ==
    ASSUME NEW t \in Tree, NEW to \in Node, NEW n \in Node, n # to
    PROVE  LET u == LinkBefore(t, to, n) IN
           /\ u \in Tree
           /\ \A m \in Node :
                /\ u.parent[m] = IF m = n THEN t.parent[to] ELSE t.parent[m]
                /\ u.first[m] = IF m = t.parent[to] /\ t.prev[to] = NULL
                                THEN n ELSE t.first[m]
                /\ u.last[m] = t.last[m]
                /\ u.prev[m] = IF m = to THEN n
                               ELSE IF m = n THEN t.prev[to] ELSE t.prev[m]
                /\ u.next[m] = IF m = n THEN to
                               ELSE IF m = t.prev[to] THEN n ELSE t.next[m]
  BY NullAssumption DEF LinkBefore, Tree, Pointer, SetIf

\* insert_after_wo_events: n goes between to and its next sibling.
LEMMA LinkAfterFields ==
    ASSUME NEW t \in Tree, NEW to \in Node, NEW n \in Node, n # to
    PROVE  LET u == LinkAfter(t, to, n) IN
           /\ u \in Tree
           /\ \A m \in Node :
                /\ u.parent[m] = IF m = n THEN t.parent[to] ELSE t.parent[m]
                /\ u.first[m] = t.first[m]
                /\ u.last[m] = IF m = t.parent[to] /\ t.next[to] = NULL
                               THEN n ELSE t.last[m]
                /\ u.prev[m] = IF m = n THEN to
                               ELSE IF m = t.next[to] THEN n ELSE t.prev[m]
                /\ u.next[m] = IF m = to THEN n
                               ELSE IF m = n THEN t.next[to] ELSE t.next[m]
  BY NullAssumption DEF LinkAfter, Tree, Pointer, SetIf

-----------------------------------------------------------------------------
(* Ancestors.  A set that is closed under parent, holds p and misses n      *)
(* witnesses that n is not an ancestor of p.                               *)

LEMMA NotAncestor ==
    ASSUME NEW t \in Tree, NEW n \in Node, NEW p \in Node
    PROVE  ~IsInclusiveAncestor(t, n, p) <=>
             \E C \in SUBSET Node : p \in C /\ ClosedUnder(t.parent, C) /\ n \notin C
  BY DEF IsInclusiveAncestor, Reach

\* Taking a node out of its parent makes no node an ancestor of another.
LEMMA UnlinkKeepsLoose ==
    ASSUME NEW t \in Tree, NEW x \in Node, NEW n \in Node, NEW p \in Node,
           ~IsInclusiveAncestor(t, n, p)
    PROVE  ~IsInclusiveAncestor(Unlink(t, x), n, p)
<1> DEFINE u == Unlink(t, x)
<1>1. PICK C \in SUBSET Node : p \in C /\ ClosedUnder(t.parent, C) /\ n \notin C
  BY NotAncestor
<1>2. /\ u \in Tree
      /\ \A m \in Node : u.parent[m] = IF m = x THEN NULL ELSE t.parent[m]
  BY UnlinkFields
<1>3. ClosedUnder(u.parent, C)
  BY <1>1, <1>2 DEF ClosedUnder
<1> QED
  BY <1>1, <1>2, <1>3, NotAncestor

-----------------------------------------------------------------------------
(* The primitives keep the links consistent.                               *)

\* Hanging a loose node below p, whatever else the step relinks, closes no
\* circle of parents unless the node is an ancestor of p.
LEMMA NewParentNoCycle ==
    ASSUME NEW t \in Tree, NEW u \in Tree, NEW n \in Node, NEW p \in Node,
           NoCycle(t.parent), ~IsInclusiveAncestor(t, n, p),
           \A m \in Node : u.parent[m] = IF m = n THEN p ELSE t.parent[m]
    PROVE  NoCycle(u.parent)
<1> SUFFICES ASSUME NEW S \in SUBSET Node, S # {}, \A m \in S : u.parent[m] \in S
             PROVE  FALSE
  BY DEF NoCycle
<1>1. PICK C \in SUBSET Node : p \in C /\ ClosedUnder(t.parent, C) /\ n \notin C
  BY NotAncestor
<1>2. CASE n \notin S
  BY <1>2 DEF NoCycle
<1>3. CASE n \in S
  <2>1. p \in S \cap C
    BY <1>1, <1>3
  <2>2. \A m \in S \cap C : t.parent[m] \in S \cap C
    <3> SUFFICES ASSUME NEW m \in S \cap C PROVE t.parent[m] \in S \cap C
      OBVIOUS
    <3>1. t.parent[m] \in S
      BY <1>1
    <3>2. t.parent[m] \in C
      BY <1>1, <3>1, NullAssumption DEF ClosedUnder
    <3> QED BY <3>1, <3>2
  <2> QED BY <2>1, <2>2 DEF NoCycle
<1> QED BY <1>2, <1>3

\* Removing a node keeps the links of all others consistent.
LEMMA UnlinkLinked ==
    ASSUME NEW t \in Tree, NEW n \in Node, Linked5(t)
    PROVE  Linked5(Unlink(t, n))
<1> DEFINE u == Unlink(t, n)
<1>0. /\ u \in Tree
      /\ \A m \in Node :
           /\ u.parent[m] = IF m = n THEN NULL ELSE t.parent[m]
           /\ u.first[m] = IF m = t.parent[n] /\ t.first[m] = n
                           THEN t.next[n] ELSE t.first[m]
           /\ u.last[m] = IF m = t.parent[n] /\ t.last[m] = n
                          THEN t.prev[n] ELSE t.last[m]
           /\ u.prev[m] = IF m = n THEN NULL
                          ELSE IF m = t.next[n] THEN t.prev[n] ELSE t.prev[m]
           /\ u.next[m] = IF m = n THEN NULL
                          ELSE IF m = t.prev[n] THEN t.next[n] ELSE t.next[m]
  BY UnlinkFields
<1> HIDE DEF u
<1>1. t.next[n] # n /\ t.prev[n] # n
  <2>1. \E m \in {n} : t.next[m] \notin {n}
    BY DEF Linked5, NoCycle
  <2> QED BY <2>1, NullAssumption DEF Linked5, SiblingsAgree
<1>2. SiblingsAgree(u)
  <2> SUFFICES ASSUME NEW m \in Node
               PROVE  /\ u.next[m] # NULL => /\ u.prev[u.next[m]] = m
                                             /\ u.parent[u.next[m]] = u.parent[m]
                      /\ u.prev[m] # NULL => /\ u.next[u.prev[m]] = m
                                             /\ u.parent[u.prev[m]] = u.parent[m]
    BY DEF SiblingsAgree
  <2>1. CASE m = n
    BY <2>1, <1>0
  <2>2. CASE m # n
    <3>1. u.next[m] # NULL => /\ u.prev[u.next[m]] = m
                              /\ u.parent[u.next[m]] = u.parent[m]
      BY <1>0, <1>1, <2>2, NullAssumption DEF Linked5, SiblingsAgree, Tree, Pointer
    <3>2. u.prev[m] # NULL => /\ u.next[u.prev[m]] = m
                              /\ u.parent[u.prev[m]] = u.parent[m]
      BY <1>0, <1>1, <2>2, NullAssumption DEF Linked5, SiblingsAgree, Tree, Pointer
    <3> QED BY <3>1, <3>2
  <2> QED BY <2>1, <2>2
<1>3. EndsAgree(u)
  BY <1>0, <1>1, NullAssumption
     DEF Linked5, EndsAgree, SiblingsAgree, ChildrenListed, Tree, Pointer
<1>4. ChildrenListed(u)
  BY <1>0, <1>1, NullAssumption
     DEF Linked5, EndsAgree, SiblingsAgree, ChildrenListed, Tree, Pointer
<1>5. NoCycle(u.next)
  <2> SUFFICES ASSUME NEW S \in SUBSET Node, S # {}, \A m \in S : u.next[m] \in S
               PROVE  FALSE
    BY DEF NoCycle
  <2>1. n \notin S
    BY <1>0, NullAssumption
  <2>2. CASE t.prev[n] \in S
    <3> DEFINE T == S \cup {n}
    <3>1. t.next[n] \in S
      BY <1>0, <2>1, <2>2
    <3>2. t.next[t.prev[n]] = n
      BY <2>2, NullAssumption DEF Linked5, SiblingsAgree
    <3>3. \A m \in T : t.next[m] \in T
      BY <1>0, <2>1, <2>2, <3>1, <3>2
    <3> QED BY <3>3 DEF Linked5, NoCycle
  <2>3. CASE t.prev[n] \notin S
    <3>1. \A m \in S : t.next[m] \in S
      BY <1>0, <2>1, <2>3
    <3> QED BY <3>1 DEF Linked5, NoCycle
  <2> QED BY <2>2, <2>3
<1>7. NoCycle(u.prev)
  <2> SUFFICES ASSUME NEW S \in SUBSET Node, S # {}, \A m \in S : u.prev[m] \in S
               PROVE  FALSE
    BY DEF NoCycle
  <2>1. n \notin S
    BY <1>0, NullAssumption
  <2>2. CASE t.next[n] \in S
    <3> DEFINE T == S \cup {n}
    <3>1. t.prev[n] \in S
      BY <1>0, <2>1, <2>2
    <3>2. t.prev[t.next[n]] = n
      BY <2>2, NullAssumption DEF Linked5, SiblingsAgree
    <3>3. \A m \in T : t.prev[m] \in T
      BY <1>0, <2>1, <2>2, <3>1, <3>2
    <3> QED BY <3>3 DEF Linked5, NoCycle
  <2>3. CASE t.next[n] \notin S
    <3>1. \A m \in S : t.prev[m] \in S
      BY <1>0, <2>1, <2>3
    <3> QED BY <3>1 DEF Linked5, NoCycle
  <2> QED BY <2>2, <2>3
<1>6. NoCycle(u.parent)
  <2> SUFFICES ASSUME NEW S \in SUBSET Node, S # {}, \A m \in S : u.parent[m] \in S
               PROVE  FALSE
    BY DEF NoCycle
  <2>1. n \notin S
    BY <1>0, NullAssumption
  <2>2. \A m \in S : t.parent[m] \in S
    BY <1>0, <2>1
  <2> QED BY <2>2 DEF Linked5, NoCycle
<1> QED BY <1>2, <1>3, <1>4, <1>5, <1>6, <1>7 DEF Linked5, u

\* What a loose node is, from the links: it has no siblings, and a node that
\* hangs below some p with p not below it is not p.
LEMMA LooseFacts ==
    ASSUME NEW t \in Tree, NEW n \in Node, NEW p \in Node, Linked5(t),
           t.parent[n] = NULL, ~IsInclusiveAncestor(t, n, p)
    PROVE  /\ n # p
           /\ t.prev[n] = NULL /\ t.next[n] = NULL
           /\ \A m \in Node : t.next[m] # n /\ t.prev[m] # n
           /\ \A m \in Node : t.first[m] # n /\ t.last[m] # n
<1>1. n # p
  BY DEF IsInclusiveAncestor, Reach
<1>2. t.prev[n] = NULL /\ t.next[n] = NULL
  BY DEF Linked5, ChildrenListed
<1>3. \A m \in Node : t.next[m] # n /\ t.prev[m] # n
  BY <1>2, NullAssumption DEF Linked5, SiblingsAgree
<1>4. \A m \in Node : t.first[m] # n /\ t.last[m] # n
  BY NullAssumption DEF Linked5, EndsAgree
<1> QED BY <1>1, <1>2, <1>3, <1>4

\* A node with children has a last child: their list cannot go on for ever.
LEMMA HasLast ==
    ASSUME NEW t \in Tree, NEW p \in Node, Linked5(t),
           \E m \in Node : t.parent[m] = p
    PROVE  t.last[p] # NULL
<1> DEFINE S == {m \in Node : t.parent[m] = p}
<1>1. PICK k \in S : t.next[k] \notin S
  BY DEF Linked5, NoCycle
<1>2. t.next[k] = NULL
  BY <1>1, NullAssumption DEF Linked5, SiblingsAgree, Tree, Pointer
<1> QED BY <1>1, <1>2, NullAssumption DEF Linked5, ChildrenListed

\* Appending a loose node keeps the links consistent.
LEMMA LinkLastLinked ==
    ASSUME NEW t \in Tree, NEW p \in Node, NEW n \in Node, Linked5(t),
           t.parent[n] = NULL, ~IsInclusiveAncestor(t, n, p)
    PROVE  Linked5(LinkLast(t, p, n))
<1> DEFINE u == LinkLast(t, p, n)
<1>0. /\ u \in Tree
      /\ \A m \in Node :
           /\ u.parent[m] = IF m = n THEN p ELSE t.parent[m]
           /\ u.first[m] = IF m = p /\ t.last[p] = NULL THEN n ELSE t.first[m]
           /\ u.last[m] = IF m = p THEN n ELSE t.last[m]
           /\ u.prev[m] = IF m = n THEN t.last[p] ELSE t.prev[m]
           /\ u.next[m] = IF m = n THEN NULL
                          ELSE IF m = t.last[p] THEN n ELSE t.next[m]
  BY LinkLastFields
<1> HIDE DEF u
<1>1. /\ n # p
      /\ t.prev[n] = NULL /\ t.next[n] = NULL
      /\ \A m \in Node : t.next[m] # n /\ t.prev[m] # n
      /\ \A m \in Node : t.first[m] # n /\ t.last[m] # n
  BY LooseFacts
<1>2. SiblingsAgree(u)
  BY <1>0, <1>1, NullAssumption
     DEF Linked5, SiblingsAgree, EndsAgree, ChildrenListed, Tree, Pointer
<1>3. EndsAgree(u)
  BY <1>0, <1>1, NullAssumption
     DEF Linked5, SiblingsAgree, EndsAgree, ChildrenListed, Tree, Pointer
<1>4. ChildrenListed(u)
  <2>1. (\E m \in Node : t.parent[m] = p) => t.last[p] # NULL
    BY HasLast
  <2> QED
    BY <1>0, <1>1, <2>1, NullAssumption
       DEF Linked5, SiblingsAgree, EndsAgree, ChildrenListed, Tree, Pointer
<1>5. NoCycle(u.next)
  <2> SUFFICES ASSUME NEW S \in SUBSET Node, S # {}, \A m \in S : u.next[m] \in S
               PROVE  FALSE
    BY DEF NoCycle
  <2>1. n \notin S
    BY <1>0, NullAssumption
  <2>2. \A m \in S : t.next[m] \in S
    BY <1>0, <2>1
  <2> QED BY <2>2 DEF Linked5, NoCycle
<1>7. NoCycle(u.prev)
  <2> SUFFICES ASSUME NEW S \in SUBSET Node, S # {}, \A m \in S : u.prev[m] \in S
               PROVE  FALSE
    BY DEF NoCycle
  <2> DEFINE T == S \ {n}
  <2>1. T # {}
    BY <1>0, <1>1
  <2>2. \A m \in T : t.prev[m] \in T
    BY <1>0, <1>1
  <2> QED BY <2>1, <2>2 DEF Linked5, NoCycle
<1>6. NoCycle(u.parent)
  BY <1>0, NewParentNoCycle DEF Linked5
<1> QED BY <1>2, <1>3, <1>4, <1>5, <1>6, <1>7 DEF Linked5, u

\* Inserting a loose node in front of a child keeps the links consistent.
LEMMA LinkBeforeLinked ==
    ASSUME NEW t \in Tree, NEW c \in Node, NEW n \in Node, Linked5(t),
           t.parent[c] # NULL, t.parent[n] = NULL,
           ~IsInclusiveAncestor(t, n, t.parent[c])
    PROVE  Linked5(LinkBefore(t, c, n))
<1> DEFINE u == LinkBefore(t, c, n)
<1>0. n # c
  OBVIOUS
<1>1. /\ u \in Tree
      /\ \A m \in Node :
           /\ u.parent[m] = IF m = n THEN t.parent[c] ELSE t.parent[m]
           /\ u.first[m] = IF m = t.parent[c] /\ t.prev[c] = NULL
                           THEN n ELSE t.first[m]
           /\ u.last[m] = t.last[m]
           /\ u.prev[m] = IF m = c THEN n
                          ELSE IF m = n THEN t.prev[c] ELSE t.prev[m]
           /\ u.next[m] = IF m = n THEN c
                          ELSE IF m = t.prev[c] THEN n ELSE t.next[m]
  BY <1>0, LinkBeforeFields
<1> HIDE DEF u
<1>2. t.parent[c] \in Node
  BY DEF Tree, Pointer
<1>3. /\ n # t.parent[c]
      /\ t.prev[n] = NULL /\ t.next[n] = NULL
      /\ \A m \in Node : t.next[m] # n /\ t.prev[m] # n
      /\ \A m \in Node : t.first[m] # n /\ t.last[m] # n
  BY <1>2, LooseFacts
<1>4. SiblingsAgree(u)
  <2> SUFFICES ASSUME NEW m \in Node
               PROVE  /\ u.next[m] # NULL => /\ u.prev[u.next[m]] = m
                                             /\ u.parent[u.next[m]] = u.parent[m]
                      /\ u.prev[m] # NULL => /\ u.next[u.prev[m]] = m
                                             /\ u.parent[u.prev[m]] = u.parent[m]
    BY DEF SiblingsAgree
  <2>1. u.next[m] # NULL => /\ u.prev[u.next[m]] = m
                            /\ u.parent[u.next[m]] = u.parent[m]
    BY <1>0, <1>1, <1>3, NullAssumption DEF Linked5, SiblingsAgree, Tree, Pointer
  <2>2. u.prev[m] # NULL => /\ u.next[u.prev[m]] = m
                            /\ u.parent[u.prev[m]] = u.parent[m]
    BY <1>0, <1>1, <1>3, NullAssumption DEF Linked5, SiblingsAgree, Tree, Pointer
  <2> QED BY <2>1, <2>2
<1>5. EndsAgree(u)
  BY <1>0, <1>1, <1>3, NullAssumption
     DEF Linked5, SiblingsAgree, EndsAgree, ChildrenListed, Tree, Pointer
<1>6. ChildrenListed(u)
  BY <1>0, <1>1, <1>3, NullAssumption
     DEF Linked5, SiblingsAgree, EndsAgree, ChildrenListed, Tree, Pointer
<1>7. NoCycle(u.next)
  <2> SUFFICES ASSUME NEW S \in SUBSET Node, S # {}, \A m \in S : u.next[m] \in S
               PROVE  FALSE
    BY DEF NoCycle
  <2> DEFINE T == S \ {n}
  <2>1. T # {}
    BY <1>0, <1>1
  <2>2. \A m \in T : t.next[m] \in T
    <3> SUFFICES ASSUME NEW m \in T PROVE t.next[m] \in T
      OBVIOUS
    <3>1. CASE m = t.prev[c]
      BY <1>0, <1>1, <3>1, NullAssumption DEF Linked5, SiblingsAgree
    <3>2. CASE m # t.prev[c]
      BY <1>1, <1>3, <3>2
    <3> QED BY <3>1, <3>2
  <2> QED BY <2>1, <2>2 DEF Linked5, NoCycle
<1>9. NoCycle(u.prev)
  <2> SUFFICES ASSUME NEW S \in SUBSET Node, S # {}, \A m \in S : u.prev[m] \in S
               PROVE  FALSE
    BY DEF NoCycle
  <2>1. c \in S => n \in S /\ t.prev[c] \in S
    BY <1>0, <1>1
  <2> DEFINE T == S \ {n}
  <2>2. T # {}
    BY <1>0, <1>1, <1>3, NullAssumption DEF Linked5, SiblingsAgree
  <2>3. \A m \in T : t.prev[m] \in T
    BY <1>1, <1>3, <2>1
  <2> QED BY <2>2, <2>3 DEF Linked5, NoCycle
<1>8. NoCycle(u.parent)
  BY <1>1, <1>2, NewParentNoCycle DEF Linked5
<1> QED BY <1>4, <1>5, <1>6, <1>7, <1>8, <1>9 DEF Linked5, u

\* Inserting a loose node behind a child keeps the links consistent.
LEMMA LinkAfterLinked ==
    ASSUME NEW t \in Tree, NEW c \in Node, NEW n \in Node, Linked5(t),
           t.parent[c] # NULL, t.parent[n] = NULL,
           ~IsInclusiveAncestor(t, n, t.parent[c])
    PROVE  Linked5(LinkAfter(t, c, n))
<1> DEFINE u == LinkAfter(t, c, n)
<1>0. n # c
  OBVIOUS
<1>1. /\ u \in Tree
      /\ \A m \in Node :
           /\ u.parent[m] = IF m = n THEN t.parent[c] ELSE t.parent[m]
           /\ u.first[m] = t.first[m]
           /\ u.last[m] = IF m = t.parent[c] /\ t.next[c] = NULL
                          THEN n ELSE t.last[m]
           /\ u.prev[m] = IF m = n THEN c
                          ELSE IF m = t.next[c] THEN n ELSE t.prev[m]
           /\ u.next[m] = IF m = c THEN n
                          ELSE IF m = n THEN t.next[c] ELSE t.next[m]
  BY <1>0, LinkAfterFields
<1> HIDE DEF u
<1>2. t.parent[c] \in Node
  BY DEF Tree, Pointer
<1>3. /\ n # t.parent[c]
      /\ t.prev[n] = NULL /\ t.next[n] = NULL
      /\ \A m \in Node : t.next[m] # n /\ t.prev[m] # n
      /\ \A m \in Node : t.first[m] # n /\ t.last[m] # n
  BY <1>2, LooseFacts
<1>4. SiblingsAgree(u)
  <2> SUFFICES ASSUME NEW m \in Node
               PROVE  /\ u.next[m] # NULL => /\ u.prev[u.next[m]] = m
                                             /\ u.parent[u.next[m]] = u.parent[m]
                      /\ u.prev[m] # NULL => /\ u.next[u.prev[m]] = m
                                             /\ u.parent[u.prev[m]] = u.parent[m]
    BY DEF SiblingsAgree
  <2>1. u.next[m] # NULL => /\ u.prev[u.next[m]] = m
                            /\ u.parent[u.next[m]] = u.parent[m]
    BY <1>0, <1>1, <1>3, NullAssumption DEF Linked5, SiblingsAgree, Tree, Pointer
  <2>2. u.prev[m] # NULL => /\ u.next[u.prev[m]] = m
                            /\ u.parent[u.prev[m]] = u.parent[m]
    BY <1>0, <1>1, <1>3, NullAssumption DEF Linked5, SiblingsAgree, Tree, Pointer
  <2> QED BY <2>1, <2>2
<1>5. EndsAgree(u)
  BY <1>0, <1>1, <1>3, NullAssumption
     DEF Linked5, SiblingsAgree, EndsAgree, ChildrenListed, Tree, Pointer
<1>6. ChildrenListed(u)
  BY <1>0, <1>1, <1>3, NullAssumption
     DEF Linked5, SiblingsAgree, EndsAgree, ChildrenListed, Tree, Pointer
<1>7. NoCycle(u.next)
  <2> SUFFICES ASSUME NEW S \in SUBSET Node, S # {}, \A m \in S : u.next[m] \in S
               PROVE  FALSE
    BY DEF NoCycle
  <2>1. c \in S => n \in S /\ t.next[c] \in S
    BY <1>0, <1>1
  <2> DEFINE T == S \ {n}
  <2>2. T # {}
    BY <1>0, <1>1, <1>3, NullAssumption DEF Linked5, SiblingsAgree
  <2>3. \A m \in T : t.next[m] \in T
    BY <1>1, <1>3, <2>1
  <2> QED BY <2>2, <2>3 DEF Linked5, NoCycle
<1>9. NoCycle(u.prev)
  <2> SUFFICES ASSUME NEW S \in SUBSET Node, S # {}, \A m \in S : u.prev[m] \in S
               PROVE  FALSE
    BY DEF NoCycle
  <2> DEFINE T == S \ {n}
  <2>1. T # {}
    BY <1>0, <1>1
  <2>2. \A m \in T : t.prev[m] \in T
    <3> SUFFICES ASSUME NEW m \in T PROVE t.prev[m] \in T
      OBVIOUS
    <3>1. CASE m = t.next[c]
      BY <1>0, <1>1, <3>1, NullAssumption DEF Linked5, SiblingsAgree
    <3>2. CASE m # t.next[c]
      BY <1>1, <1>3, <3>2
    <3> QED BY <3>1, <3>2
  <2> QED BY <2>1, <2>2 DEF Linked5, NoCycle
<1>8. NoCycle(u.parent)
  BY <1>1, <1>2, NewParentNoCycle DEF Linked5
<1> QED BY <1>4, <1>5, <1>6, <1>7, <1>8, <1>9 DEF Linked5, u

-----------------------------------------------------------------------------
(* insert_node: adopt, then append or insert before.                       *)

\* What adopting does: n is loose, and nobody else changes parents.
LEMMA AdoptFacts ==
    ASSUME NEW t \in Tree, NEW n \in Node, Linked5(t)
    PROVE  LET u == Adopt(t, n) IN
           /\ u \in Tree /\ Linked5(u)
           /\ \A m \in Node : u.parent[m] = IF m = n THEN NULL ELSE t.parent[m]
<1>1. CASE t.parent[n] # NULL
  BY <1>1, UnlinkFields, UnlinkLinked DEF Adopt
<1>2. CASE t.parent[n] = NULL
  BY <1>2 DEF Adopt
<1> QED BY <1>1, <1>2

\* Inserting a node that is not an ancestor of p, in front of another child of
\* p or at the end, keeps the links consistent and moves no other node.
LEMMA InsertNodeLinked ==
    ASSUME NEW t \in Tree, NEW p \in Node, NEW n \in Node, NEW c \in Pointer,
           Linked5(t), ~IsInclusiveAncestor(t, n, p),
           c # NULL => c # n /\ t.parent[c] = p
    PROVE  LET u == InsertNode(t, p, n, c) IN
           /\ u \in Tree /\ Linked5(u)
           /\ \A m \in Node : u.parent[m] = IF m = n THEN p ELSE t.parent[m]
<1> DEFINE v == Adopt(t, n)
           u == InsertNode(t, p, n, c)
<1>1. /\ v \in Tree /\ Linked5(v)
      /\ \A m \in Node : v.parent[m] = IF m = n THEN NULL ELSE t.parent[m]
  BY AdoptFacts
<1>2. ~IsInclusiveAncestor(v, n, p)
  <2>1. CASE t.parent[n] # NULL
    BY <2>1, UnlinkKeepsLoose DEF Adopt
  <2>2. CASE t.parent[n] = NULL
    BY <2>2 DEF Adopt
  <2> QED BY <2>1, <2>2
<1> HIDE DEF v
<1>3. CASE c = NULL
  <2>1. u = LinkLast(v, p, n)
    BY <1>3 DEF InsertNode, v
  <2> HIDE DEF u
  <2>2. u \in Tree /\ \A m \in Node : u.parent[m] = IF m = n THEN p ELSE v.parent[m]
    <3>1. /\ LinkLast(v, p, n) \in Tree
          /\ \A m \in Node : LinkLast(v, p, n).parent[m]
                               = IF m = n THEN p ELSE v.parent[m]
      BY <1>1, LinkLastFields
    <3> QED BY <2>1, <3>1
  <2>3. Linked5(u)
    <3>1. v.parent[n] = NULL
      BY <1>1
    <3> QED BY <1>1, <1>2, <2>1, <3>1, LinkLastLinked
  <2> QED BY <1>1, <2>2, <2>3 DEF u
<1>4. CASE c # NULL
  <2>1. u = LinkBefore(v, c, n) /\ c \in Node /\ c # n /\ v.parent[c] = p
    BY <1>1, <1>4 DEF InsertNode, v, Pointer
  <2> HIDE DEF u
  <2>2. u \in Tree /\ \A m \in Node : u.parent[m] = IF m = n THEN p ELSE v.parent[m]
    BY <1>1, <2>1, LinkBeforeFields
  <2>3. Linked5(u)
    <3>1. v.parent[c] # NULL /\ v.parent[n] = NULL
      BY <1>1, <2>1, NullAssumption
    <3>2. ~IsInclusiveAncestor(v, n, v.parent[c])
      BY <1>2, <2>1
    <3> QED BY <1>1, <2>1, <3>1, <3>2, LinkBeforeLinked
  <2> QED BY <1>1, <2>2, <2>3 DEF u
<1> QED BY <1>3, <1>4

-----------------------------------------------------------------------------
(* The inductive invariant: the links are consistent, and a loop in        *)
(* progress still satisfies what its call was checked for.                 *)

\* What insert_node needs to hang n below p in front of c.
Insertable(t, p, n, c) ==
    /\ ~IsInclusiveAncestor(t, n, p)
    /\ c # NULL => c # n /\ t.parent[c] = p

\* The fragment loop: its node is still in the fragment, which is no ancestor
\* of the new parent.  The refill loop: the new child is still loose.
JobOK ==
    /\ job.kind = "insert" =>
          /\ job.parent \in Node /\ job.node \in Node /\ job.root \in Node
          /\ tree.parent[job.node] = job.root
          /\ ~IsInclusiveAncestor(tree, job.root, job.parent)
          /\ job.mark # NULL => tree.parent[job.mark] = job.parent
    /\ job.kind = "clear" =>
          /\ job.parent \in Node /\ job.mark \in Node
    /\ job.kind = "refill" => job.parent \in Node
    /\ job.kind = "destroy" => job.node \in Node /\ job.root \in Node
    /\ job.kind \in {"refill", "destroy"} /\ job.parent # NULL =>
          /\ job.mark \in Node
          /\ tree.parent[job.mark] = NULL
          /\ ~IsInclusiveAncestor(tree, job.mark, job.parent)

LInv == TypeOK /\ TreeLinked /\ JobOK

LEMMA NoteTyped ==
    ASSUME NEW gone \in SUBSET Node, NEW t, NEW n, NEW k \in 0 .. 2
    PROVE  Notified(gone, t, n, k) \in Note
  BY DEF Notified, Note

LEMMA QuietTyped ==
    ASSUME NEW gone \in SUBSET Node
    PROVE  Removed(gone) \in Note /\ Quiet \in Note
  BY NoteTyped DEF Removed, Quiet

LEMMA JobTyped ==
    ASSUME NEW p \in Pointer, NEW n \in Pointer, NEW c \in Pointer,
           NEW r \in Pointer, NEW up \in BOOLEAN
    PROVE  /\ Idle \in Job
           /\ Inserting(p, n, c, r) \in Job
           /\ Clearing(p, n, c) \in Job
           /\ Refilling(p, n) \in Job
           /\ Destroying(r, n, up, p, c) \in Job
  BY DEF Idle, Job, Pointer, Inserting, Clearing, Refilling, Destroying

-----------------------------------------------------------------------------
(* What the callers of insert_node have made sure of.                      *)

\* What an accepted insertion was checked for.
LEMMA ValidityMeans ==
    ASSUME NEW t \in Tree, NEW p \in Node, NEW n \in Node, NEW c \in Pointer,
           PreInsertValidity(t, p, n, c) = Ok
    PROVE  ~IsInclusiveAncestor(t, n, p) /\ (c # NULL => t.parent[c] = p)
  BY DEF PreInsertValidity, Ok, Hierarchy, NotFound

LEMMA ValidityTyped ==
    ASSUME NEW t, NEW p, NEW n, NEW c
    PROVE  PreInsertValidity(t, p, n, c) \in Codes
  BY DEF PreInsertValidity, Codes

\* pre_insert: an accepted insertion, in front of the next sibling when the
\* node would go in front of itself.
LEMMA AcceptedInsertable ==
    ASSUME NEW t \in Tree, Linked5(t), NEW p \in Node, NEW n \in Node,
           NEW c \in Pointer, PreInsertValidity(t, p, n, c) = Ok
    PROVE  LET r == IF c = n THEN t.next[n] ELSE c IN
           r \in Pointer /\ Insertable(t, p, n, r)
<1>1. ~IsInclusiveAncestor(t, n, p) /\ (c # NULL => t.parent[c] = p)
  BY ValidityMeans
<1>2. CASE c # n
  BY <1>1, <1>2 DEF Insertable
<1>3. CASE c = n
  <2>1. t.next[n] \in Pointer
    BY DEF Tree
  <2>2. \E m \in {n} : t.next[m] \notin {n}
    BY DEF Linked5, NoCycle
  <2>3. t.next[n] # NULL => t.parent[t.next[n]] = t.parent[n]
    BY DEF Linked5, SiblingsAgree
  <2> QED BY <1>1, <1>3, <2>1, <2>2, <2>3, NullAssumption DEF Insertable
<1> QED BY <1>2, <1>3

\* replace_child: the same after the old child was taken out.
LEMMA ReplacedInsertable ==
    ASSUME tree \in Tree, Linked5(tree), NEW p \in Node, NEW n \in Node,
           NEW c \in Node, PreInsertValidity(tree, p, n, c) = Ok, n # Before(c)
    PROVE  Before(c) \in Pointer /\ Insertable(Unlink(tree, c), p, n, Before(c))
<1> DEFINE u == Unlink(tree, c)
<1>0. c \in Pointer /\ c # NULL
  BY NullAssumption DEF Pointer
<1>1. ~IsInclusiveAncestor(tree, n, p) /\ tree.parent[c] = p
  BY <1>0, ValidityMeans
<1>2. ~IsInclusiveAncestor(u, n, p)
  BY <1>1, UnlinkKeepsLoose
<1>3. \A m \in Node : u.parent[m] = IF m = c THEN NULL ELSE tree.parent[m]
  BY UnlinkFields
<1>4. Before(c) \in Pointer /\ (Before(c) # NULL => tree.parent[Before(c)] = p)
  BY <1>1 DEF Before, Tree, Linked5, SiblingsAgree
<1>5. Before(c) # c
  <2>1. \E m \in {c} : tree.next[m] \notin {c}
    BY DEF Linked5, NoCycle
  <2> QED BY <1>0, <2>1 DEF Before, Linked5, SiblingsAgree
<1> HIDE DEF u
<1>6. Before(c) # NULL => Before(c) # n /\ u.parent[Before(c)] = p
  BY <1>3, <1>4, <1>5 DEF Pointer
<1> QED BY <1>2, <1>4, <1>6 DEF Insertable, u

\* The fragment loop: a child of a node that is no ancestor of p is none either,
\* and is not a child of p.
LEMMA LoopInsertable ==
    ASSUME tree \in Tree, Linked5(tree), job \in Job, JobOK, job.kind = "insert"
    PROVE  Insertable(tree, job.parent, job.node, job.mark)
<1> DEFINE p == job.parent  n == job.node  c == job.mark  f == job.root
<1>1. /\ p \in Node /\ n \in Node /\ f \in Node
      /\ tree.parent[n] = f /\ ~IsInclusiveAncestor(tree, f, p)
      /\ c # NULL => tree.parent[c] = p
  BY DEF JobOK
<1>2. PICK C \in SUBSET Node :
        p \in C /\ ClosedUnder(tree.parent, C) /\ f \notin C
  BY <1>1, NotAncestor
<1>3. n \notin C
  BY <1>1, <1>2, NullAssumption DEF ClosedUnder
<1>4. ~IsInclusiveAncestor(tree, n, p)
  BY <1>1, <1>2, <1>3, NotAncestor
<1>5. c # NULL => c # n
  BY <1>1, <1>2
<1> QED BY <1>1, <1>4, <1>5 DEF Insertable

-----------------------------------------------------------------------------
(* The invariant is preserved.                                             *)

\* A step that leaves consistent links and no loop behind preserves LInv.
LEMMA NoJobStep ==
    ASSUME LInv, tree' \in Tree, Linked5(tree'), live' \subseteq Node,
           code' \in Codes, note' \in Note, job' \in Job, job'.kind = "idle"
    PROVE  LInv'
  BY DEF LInv, TypeOK, TreeLinked, JobOK

LEMMA IdleStep ==
    ASSUME LInv, tree' \in Tree, Linked5(tree'), live' \subseteq Node,
           code' \in Codes, note' \in Note, job' = Idle
    PROVE  LInv'
<1>1. job'.kind = "idle" /\ job' \in Job
  BY JobTyped DEF Idle, Pointer
<1> QED
  BY <1>1, NoJobStep

\* lxb_dom_node_insert and the tail of replace_child: a node is inserted at
\* once, a fragment starts its loop.
LEMMA InsertPreserves ==
    ASSUME LInv, NEW t \in Tree, Linked5(t), NEW gone \in SUBSET Node,
           NEW p \in Node, NEW n \in Node, NEW c \in Pointer,
           ~IsInclusiveAncestor(t, n, p), c # NULL => c # n /\ t.parent[c] = p,
           Insert(t, gone, p, n, c)
    PROVE  LInv'
<1>0. live' \subseteq Node /\ code' \in Codes
  BY DEF Insert, LInv, TypeOK, Codes
<1>1. CASE NodeType[n] # "fragment"
  <2>1. tree' \in Tree /\ Linked5(tree')
    BY <1>1, InsertNodeLinked DEF Insert
  <2>2. note' \in Note
    BY <1>1, NoteTyped DEF Insert
  <2>3. job' = Idle
    BY <1>1 DEF Insert
  <2> QED BY <1>0, <2>1, <2>2, <2>3, IdleStep
<1>2. CASE NodeType[n] = "fragment"
  <2>1. /\ tree' = t
        /\ job' = Inserting(p, t.first[n], c, n)
        /\ note' \in Note
    BY <1>2, QuietTyped DEF Insert
  <2>2. t.first[n] \in Pointer
    BY DEF Tree
  <2>3. CASE t.first[n] = NULL
    BY <1>0, <2>1, <2>3, IdleStep DEF Inserting
  <2>4. CASE t.first[n] # NULL
    <3>1. job' \in Job
      BY <2>1, <2>2, JobTyped DEF Pointer
    <3>2. /\ job'.kind = "insert" /\ job'.parent = p /\ job'.node = t.first[n]
          /\ job'.root = n /\ job'.mark = c
      BY <2>1, <2>4 DEF Inserting, Idle
    <3>3. t.first[n] \in Node /\ t.parent[t.first[n]] = n
      BY <2>2, <2>4 DEF Linked5, EndsAgree, Pointer
    <3>4. JobOK'
      BY <2>1, <3>2, <3>3 DEF JobOK
    <3> QED BY <1>0, <2>1, <3>1, <3>4 DEF LInv, TypeOK, TreeLinked
  <2> QED BY <2>3, <2>4
<1> QED BY <1>1, <1>2

\* pre_insert, as a call of its own and at the end of replace_all_spec.
LEMMA PreInsertPreserves ==
    ASSUME LInv, NEW p \in Node, NEW n \in Node, NEW c \in Pointer,
           PreInsertNow(p, n, c)
    PROVE  LInv'
<1> DEFINE ex == PreInsertValidity(tree, p, n, c)
           r == IF c = n THEN tree.next[n] ELSE c
<1>0. tree \in Tree /\ Linked5(tree)
  BY DEF LInv, TypeOK, TreeLinked
<1>1. CASE ex # Ok
  <2>1. Reject(ex) /\ job' = Idle
    BY <1>1 DEF PreInsertNow, Insert
  <2>2. note' \in Note /\ code' \in Codes /\ UNCHANGED <<tree, live>>
    BY <2>1, QuietTyped, ValidityTyped DEF Reject
  <2> QED BY <1>0, <2>1, <2>2, IdleStep DEF LInv, TypeOK
<1>2. CASE ex = Ok
  <2>1. Insert(tree, {}, p, n, r)
    BY <1>2 DEF PreInsertNow
  <2>2. r \in Pointer /\ Insertable(tree, p, n, r)
    BY <1>0, <1>2, AcceptedInsertable
  <2> HIDE DEF r
  <2> QED BY <1>0, <2>1, <2>2, InsertPreserves DEF Insertable
<1> QED BY <1>1, <1>2

\* A step of destroy_deep frees the node it stands on and goes on at m.
LEMMA DestroyPreserves ==
    ASSUME LInv, job.kind = "destroy", NEW m \in Pointer, NEW up \in BOOLEAN,
           Free(job.node), job' = GoOn(m, up)
    PROVE  LInv'
<1>0. tree \in Tree /\ Linked5(tree) /\ job.node \in Node
  BY DEF LInv, TypeOK, TreeLinked, JobOK
<1>1. /\ tree' \in Tree /\ Linked5(tree')
      /\ \A k \in Node : tree'.parent[k] = IF k = job.node THEN NULL ELSE tree.parent[k]
  BY <1>0, UnlinkFields, UnlinkLinked DEF Free
<1>2. live' \subseteq Node /\ code' \in Codes /\ note' \in Note
  BY <1>0, QuietTyped DEF Free, LInv, TypeOK
<1>3. /\ job.parent \in Pointer /\ job.mark \in Pointer
      /\ job.root \in Node /\ job.node \in Node
      /\ job.parent # NULL => /\ job.mark \in Node
                              /\ tree.parent[job.mark] = NULL
                              /\ ~IsInclusiveAncestor(tree, job.mark, job.parent)
  BY DEF LInv, TypeOK, JobOK, Job
<1>4. job.parent # NULL => /\ tree'.parent[job.mark] = NULL
                           /\ ~IsInclusiveAncestor(tree', job.mark, job.parent)
  <2> HAVE job.parent # NULL
  <2>1. job.parent \in Node
    BY <1>3 DEF Pointer
  <2>2. ~IsInclusiveAncestor(Unlink(tree, job.node), job.mark, job.parent)
    BY <1>0, <1>3, <2>1, UnlinkKeepsLoose
  <2> QED BY <1>1, <1>3, <2>2 DEF Free
<1>5. job' \in Job
  BY <1>3, JobTyped DEF GoOn, Pointer
<1>6. JobOK'
  <2>1. CASE m # NULL
    <3>1. /\ job'.kind = "destroy" /\ job'.parent = job.parent /\ job'.node = m
          /\ job'.mark = job.mark /\ job'.root = job.root
      BY <2>1 DEF GoOn, Destroying
    <3>2. m \in Node
      BY <2>1 DEF Pointer
    <3> QED BY <1>3, <1>4, <3>1, <3>2 DEF JobOK
  <2>2. CASE m = NULL /\ job.parent # NULL
    <3>1. /\ job'.kind = "refill" /\ job'.parent = job.parent
          /\ job'.mark = job.mark
      BY <2>2 DEF GoOn, Refilling, Idle
    <3> QED BY <1>3, <1>4, <2>2, <3>1 DEF JobOK, Pointer
  <2>3. CASE m = NULL /\ job.parent = NULL
    <3>1. job'.kind = "idle"
      BY <2>3 DEF GoOn, Idle
    <3> QED BY <3>1 DEF JobOK
  <2> QED BY <2>1, <2>2, <2>3
<1> QED BY <1>1, <1>2, <1>5, <1>6 DEF LInv, TypeOK, TreeLinked

\* Every iteration of every loop preserves the invariant.
LEMMA JobStepPreserves == ASSUME LInv, JobStep PROVE LInv'
<1>0. /\ tree \in Tree /\ Linked5(tree) /\ live \subseteq Node /\ code \in Codes
      /\ job \in Job
      /\ JobOK
  BY DEF LInv, TypeOK, TreeLinked
<1>1. CASE InsertStep
  <2> DEFINE p == job.parent  n == job.node  c == job.mark  f == job.root
  <2>1. /\ p \in Node /\ n \in Node /\ f \in Node /\ c \in Pointer
        /\ tree.parent[n] = f /\ ~IsInclusiveAncestor(tree, f, p)
        /\ c # NULL => tree.parent[c] = p
    BY <1>0, <1>1 DEF InsertStep, JobOK, Job
  <2>2. PICK C \in SUBSET Node :
          p \in C /\ ClosedUnder(tree.parent, C) /\ f \notin C
    BY <1>0, <2>1, NotAncestor
  <2>3. n \notin C
    BY <2>1, <2>2, NullAssumption DEF ClosedUnder
  <2>4. Insertable(tree, p, n, c)
    BY <1>0, <1>1, LoopInsertable DEF InsertStep
  <2>6. /\ tree' \in Tree /\ Linked5(tree')
        /\ \A m \in Node : tree'.parent[m] = IF m = n THEN p ELSE tree.parent[m]
    BY <1>0, <1>1, <2>1, <2>4, InsertNodeLinked DEF InsertStep, Insertable
  <2>7. note' \in Note /\ live' \subseteq Node /\ code' \in Codes
    BY <1>0, <1>1, <2>1, NoteTyped DEF InsertStep
  <2>8. CASE tree.next[n] = NULL
    BY <1>1, <2>6, <2>7, <2>8, IdleStep DEF InsertStep, Inserting
  <2>9. CASE tree.next[n] # NULL
    <3>1. /\ tree.next[n] \in Node /\ tree.next[n] # n
          /\ tree.parent[tree.next[n]] = f
      <4>1. \E m \in {n} : tree.next[m] \notin {n}
        BY <1>0, <2>1 DEF Linked5, NoCycle
      <4> QED BY <1>0, <2>1, <2>9, <4>1 DEF Tree, Pointer, Linked5, SiblingsAgree
    <3>2. /\ job'.kind = "insert" /\ job'.parent = p /\ job'.root = f
          /\ job'.node = tree.next[n] /\ job'.mark = c
      BY <1>1, <2>9 DEF InsertStep, Inserting, Idle
    <3>3. job' \in Job
      BY <1>1, <2>1, <3>1, JobTyped DEF InsertStep, Pointer
    <3>4. ClosedUnder(tree'.parent, C)
      BY <2>2, <2>3, <2>6 DEF ClosedUnder
    <3>5. ~IsInclusiveAncestor(tree', f, p)
      BY <2>1, <2>2, <2>6, <3>4, NotAncestor
    <3>6. c # NULL => tree'.parent[c] = p
      BY <2>1, <2>6 DEF Pointer
    <3>7. tree'.parent[tree.next[n]] = f
      BY <2>6, <3>1
    <3>8. JobOK'
      BY <2>1, <3>1, <3>2, <3>5, <3>6, <3>7 DEF JobOK
    <3> QED BY <2>6, <2>7, <3>3, <3>8 DEF LInv, TypeOK, TreeLinked
  <2> QED BY <2>8, <2>9
<1>2. CASE ClearStep
  <2>1. /\ job.parent \in Node /\ job.mark \in Node /\ job.node \in Node
    BY <1>0, <1>2 DEF ClearStep, JobOK, Job, Pointer
  <2>2. tree' \in Tree /\ Linked5(tree')
    BY <1>0, <1>2, <2>1, UnlinkFields, UnlinkLinked DEF ClearStep
  <2>3. note' \in Note /\ live' \subseteq Node /\ code' \in Codes
    BY <1>0, <1>2, <2>1, QuietTyped DEF ClearStep
  <2>4. tree.next[job.node] \in Pointer
    BY <1>0, <2>1 DEF Tree
  <2>5. job' \in Job
    BY <1>2, <2>1, <2>4, JobTyped DEF ClearStep, Pointer
  <2>6. job'.kind = "clear" /\ job'.parent = job.parent /\ job'.mark = job.mark
    BY <1>2 DEF ClearStep, Clearing, Idle
  <2>7. JobOK'
    BY <2>1, <2>6 DEF JobOK
  <2> QED BY <2>2, <2>3, <2>5, <2>7 DEF LInv, TypeOK, TreeLinked
<1>3. CASE ClearEnd
  <2>1. job.parent \in Node /\ job.mark \in Node
    BY <1>0, <1>3 DEF ClearEnd, JobOK
  <2> QED BY <1>3, <2>1, PreInsertPreserves DEF ClearEnd, Pointer
<1>4. CASE RefillNext
  <2> DEFINE r == tree.first[job.parent]
  <2>1. /\ job.parent \in Node /\ job.mark \in Node
        /\ tree.parent[job.mark] = NULL
        /\ ~IsInclusiveAncestor(tree, job.mark, job.parent)
    BY <1>0, <1>4, NullAssumption DEF RefillNext, JobOK
  <2>2. r \in Node
    BY <1>0, <1>4, <2>1 DEF RefillNext, Tree, Pointer
  <2>3. job' = Destroying(r, r, FALSE, job.parent, job.mark)
    BY <1>4 DEF RefillNext
  <2>4. job' \in Job
    BY <2>1, <2>2, <2>3, JobTyped DEF Pointer
  <2>5. JobOK'
    BY <1>4, <2>1, <2>2, <2>3 DEF JobOK, Destroying, RefillNext
  <2>6. note' \in Note /\ UNCHANGED <<tree, live, code>>
    BY <1>4, QuietTyped DEF RefillNext
  <2> QED BY <1>0, <2>4, <2>5, <2>6 DEF LInv, TypeOK, TreeLinked
<1>5. CASE RefillEnd
  <2>1. /\ job.parent \in Node /\ job.mark \in Node
        /\ tree.parent[job.mark] = NULL
        /\ ~IsInclusiveAncestor(tree, job.mark, job.parent)
    BY <1>0, <1>5, NullAssumption DEF RefillEnd, JobOK
  <2>2. tree' \in Tree /\ Linked5(tree')
    BY <1>0, <1>5, <2>1, LinkLastFields, LinkLastLinked DEF RefillEnd
  <2>3. note' \in Note /\ live' \subseteq Node /\ code' \in Codes /\ job' = Idle
    BY <1>0, <1>5, NoteTyped DEF RefillEnd
  <2> QED BY <2>2, <2>3, IdleStep
<1>6. CASE DestroyDescend
  <2>1. job.node \in Node /\ job.root \in Node
    BY <1>0, <1>6 DEF DestroyDescend, JobOK
  <2>2. tree.first[job.node] \in Node
    BY <1>0, <1>6, <2>1 DEF DestroyDescend, Tree, Pointer
  <2>3. job' = Destroying(job.root, tree.first[job.node], FALSE, job.parent, job.mark)
    BY <1>6 DEF DestroyDescend, GoOn
  <2>4. job' \in Job
    BY <1>0, <2>1, <2>2, <2>3, JobTyped DEF Job, Pointer
  <2>5. /\ job'.kind = "destroy" /\ job'.parent = job.parent
        /\ job'.mark = job.mark /\ job'.root = job.root
        /\ job'.node = tree.first[job.node]
    BY <2>3 DEF Destroying
  <2>6. job.parent # NULL => /\ job.mark \in Node
                             /\ tree'.parent[job.mark] = NULL
                             /\ ~IsInclusiveAncestor(tree', job.mark, job.parent)
    BY <1>0, <1>6 DEF JobOK, DestroyDescend
  <2>7. JobOK'
    BY <2>1, <2>2, <2>5, <2>6 DEF JobOK
  <2>8. note' \in Note /\ UNCHANGED <<tree, live, code>>
    BY <1>6, QuietTyped DEF DestroyDescend
  <2> QED BY <1>0, <2>4, <2>7, <2>8 DEF LInv, TypeOK, TreeLinked
<1>7. CASE DestroyUp
  <2>1. job.kind = "destroy" /\ tree.parent[job.node] \in Pointer
    BY <1>0, <1>7 DEF DestroyUp, AtBottom, JobOK, Tree
  <2> QED BY <1>7, <2>1, DestroyPreserves DEF DestroyUp
<1>8. CASE DestroyNext
  <2>1. job.kind = "destroy" /\ tree.next[job.node] \in Pointer
    BY <1>0, <1>8 DEF DestroyNext, AtBottom, JobOK, Tree
  <2> QED BY <1>8, <2>1, DestroyPreserves DEF DestroyNext
<1>9. CASE DestroyRoot
  <2>1. job.kind = "destroy"
    BY <1>9 DEF DestroyRoot, AtBottom
  <2> QED BY <1>9, <2>1, DestroyPreserves DEF DestroyRoot, Pointer
<1> QED
  BY <1>1, <1>2, <1>3, <1>4, <1>5, <1>6, <1>7, <1>8, <1>9 DEF JobStep

\* The callbacks and the code of a call that only links n into the tree t.
LEMMA LinkedPreserves ==
    ASSUME LInv, Calling, NEW t \in Tree, Linked5(t), NEW n \in Node, Linked(t, n)
    PROVE  LInv'
  BY NoteTyped, NoJobStep DEF Linked, Calling, LInv, TypeOK, Codes

\* So does every call that relinks without validating.
LEMMA PlainCallPreserves == ASSUME LInv, NoDangling, PlainCall PROVE LInv'
<1>0. /\ tree \in Tree /\ Linked5(tree) /\ live \subseteq Node /\ code \in Codes
      /\ job \in Job
  BY DEF LInv, TypeOK, TreeLinked
<1>1. ASSUME NEW n \in Node, Remove(n) PROVE LInv'
  <2>1. tree' \in Tree /\ Linked5(tree')
    BY <1>0, <1>1, UnlinkFields, UnlinkLinked DEF Remove
  <2>2. note' \in Note
    BY <1>1, QuietTyped DEF Remove
  <2> QED BY <1>0, <1>1, <2>1, <2>2, NoJobStep DEF Remove, Calling, Codes
<1>2. ASSUME NEW n \in Node, Destroy(n) PROVE LInv'
  <2>1. tree' \in Tree /\ Linked5(tree')
    BY <1>0, <1>2, UnlinkFields, UnlinkLinked DEF Destroy
  <2>2. note' \in Note
    BY <1>2, QuietTyped DEF Destroy
  <2> QED BY <1>0, <1>2, <2>1, <2>2, NoJobStep DEF Destroy, Calling, Codes
<1>3. ASSUME NEW n \in Node, DestroyDeep(n) PROVE LInv'
  <2>1. job' \in Job
    BY <1>3, JobTyped DEF DestroyDeep, Pointer
  <2>2. JobOK'
    BY <1>3 DEF DestroyDeep, Destroying, JobOK
  <2>3. note' \in Note /\ code' \in Codes
    BY <1>3, QuietTyped DEF DestroyDeep, Codes
  <2> QED BY <1>0, <1>3, <2>1, <2>2, <2>3 DEF DestroyDeep, LInv, TypeOK, TreeLinked
<1>4. ASSUME NEW p \in Node, NEW n \in Node, InsertChild(p, n) PROVE LInv'
  <2>1. Calling /\ Loose(n, p) /\ Linked(LinkLast(tree, p, n), n)
    BY <1>4 DEF InsertChild
  <2>2. LinkLast(tree, p, n) \in Tree /\ Linked5(LinkLast(tree, p, n))
    BY <1>0, <2>1, LinkLastFields, LinkLastLinked DEF Loose
  <2> QED BY <2>1, <2>2, LinkedPreserves
<1>5. ASSUME NEW c \in Node, NEW n \in Node, InsertBefore(c, n) PROVE LInv'
  <2>1. /\ Calling /\ tree.parent[c] # NULL /\ tree.parent[n] = NULL
        /\ ~IsInclusiveAncestor(tree, n, tree.parent[c])
        /\ Linked(LinkBefore(tree, c, n), n)
    BY <1>5 DEF InsertBefore, Loose
  <2>2. n # c
    BY <2>1
  <2>3. LinkBefore(tree, c, n) \in Tree /\ Linked5(LinkBefore(tree, c, n))
    BY <1>0, <2>1, <2>2, LinkBeforeFields, LinkBeforeLinked
  <2> QED BY <2>1, <2>3, LinkedPreserves
<1>6. ASSUME NEW c \in Node, NEW n \in Node, InsertAfter(c, n) PROVE LInv'
  <2>1. /\ Calling /\ tree.parent[c] # NULL /\ tree.parent[n] = NULL
        /\ ~IsInclusiveAncestor(tree, n, tree.parent[c])
        /\ Linked(LinkAfter(tree, c, n), n)
    BY <1>6 DEF InsertAfter, Loose
  <2>2. n # c
    BY <2>1
  <2>3. LinkAfter(tree, c, n) \in Tree /\ Linked5(LinkAfter(tree, c, n))
    BY <1>0, <2>1, <2>2, LinkAfterFields, LinkAfterLinked
  <2> QED BY <2>1, <2>3, LinkedPreserves
<1>7. ASSUME NEW p \in Node, NEW n \in Node, ReplaceAll(p, n) PROVE LInv'
  <2>1. job' \in Job
    BY <1>7, JobTyped DEF ReplaceAll, Pointer
  <2>2. JobOK'
    BY <1>7 DEF ReplaceAll, Loose, Refilling, Idle, JobOK
  <2>3. note' \in Note /\ code' \in Codes
    BY <1>7, QuietTyped DEF ReplaceAll, Codes
  <2> QED BY <1>0, <1>7, <2>1, <2>2, <2>3 DEF ReplaceAll, LInv, TypeOK, TreeLinked
<1>8. ASSUME NEW p \in Node, NEW n \in Node, TextContentSet(p, n) PROVE LInv'
  <2>1. job' \in Job
    BY <1>8, JobTyped DEF TextContentSet, Pointer
  <2>2. JobOK'
    <3>1. p # n /\ tree.parent[n] = NULL /\ \A m \in Node : tree.parent[m] # n
      BY <1>8, NullAssumption DEF TextContentSet, NoDangling, InMemory, Links
    <3>2. ~IsInclusiveAncestor(tree, n, p)
      <4> DEFINE C == Node \ {n}
      <4>1. p \in C /\ ClosedUnder(tree.parent, C) /\ n \notin C
        BY <1>0, <3>1 DEF ClosedUnder, Tree, Pointer
      <4> QED BY <1>0, <4>1, NotAncestor
    <3> QED BY <1>8, <3>1, <3>2 DEF TextContentSet, Refilling, Idle, JobOK
  <2>3. note' \in Note /\ code' \in Codes
    BY <1>8, QuietTyped DEF TextContentSet, Codes
  <2> QED BY <1>0, <1>8, <2>1, <2>2, <2>3 DEF TextContentSet, LInv, TypeOK, TreeLinked
<1> QED
  BY <1>1, <1>2, <1>3, <1>4, <1>5, <1>6, <1>7, <1>8 DEF PlainCall

\* So does every call that validates.
LEMMA ValidatedCallPreserves == ASSUME LInv, ValidatedCall PROVE LInv'
<1>0. /\ tree \in Tree /\ Linked5(tree) /\ live \subseteq Node /\ code \in Codes
      /\ job \in Job
  BY DEF LInv, TypeOK, TreeLinked
<1>1. ASSUME NEW p \in Node, NEW n \in Node, AppendChild(p, n) PROVE LInv'
  BY <1>1, PreInsertPreserves DEF AppendChild, Pointer
<1>2. ASSUME NEW p \in Node, NEW n \in Node, NEW c \in Node, InsertBeforeSpec(p, n, c)
      PROVE  LInv'
  BY <1>2, PreInsertPreserves DEF InsertBeforeSpec, Pointer
<1>3. ASSUME NEW p \in Node, NEW n \in Node, RemoveChild(p, n) PROVE LInv'
  <2>1. CASE tree.parent[n] # p
    BY <1>0, <1>3, <2>1, QuietTyped, NoJobStep DEF RemoveChild, Reject, Calling, Codes
  <2>2. CASE tree.parent[n] = p
    <3>1. tree' \in Tree /\ Linked5(tree')
      BY <1>0, <1>3, <2>2, UnlinkFields, UnlinkLinked DEF RemoveChild
    <3>2. note' \in Note
      BY <1>3, <2>2, QuietTyped DEF RemoveChild
    <3> QED BY <1>0, <1>3, <2>2, <3>1, <3>2, NoJobStep DEF RemoveChild, Calling, Codes
  <2> QED BY <2>1, <2>2
<1>4. ASSUME NEW p \in Node, NEW n \in Node, ReplaceAllSpec(p, n) PROVE LInv'
  <2>1. tree.first[p] \in Pointer
    BY <1>0 DEF Tree
  <2>2. job' \in Job
    BY <1>4, <2>1, JobTyped DEF ReplaceAllSpec, Pointer
  <2>3. JobOK'
    BY <1>4 DEF ReplaceAllSpec, Clearing, Idle, JobOK
  <2>4. note' \in Note /\ code' \in Codes
    BY <1>4, QuietTyped DEF ReplaceAllSpec, Codes
  <2> QED BY <1>0, <1>4, <2>2, <2>3, <2>4 DEF ReplaceAllSpec, LInv, TypeOK, TreeLinked
<1> QED
  BY <1>1, <1>2, <1>3, <1>4 DEF ValidatedCall

\* replace_child is safe while the node is not the sibling it inserts before.
LEMMA ReplaceChildPreserves ==
    ASSUME LInv, NEW p \in Node, NEW n \in Node, NEW c \in Node,
           n # Before(c), ReplaceChild(p, n, c)
    PROVE  LInv'
<1> DEFINE ex == PreInsertValidity(tree, p, n, c)
           u == Unlink(tree, c)
<1>0. /\ tree \in Tree /\ Linked5(tree) /\ live \subseteq Node /\ code \in Codes
      /\ job \in Job /\ c \in Pointer /\ c # NULL
  BY NullAssumption DEF LInv, TypeOK, TreeLinked, Pointer
<1>1. CASE ex # Ok
  <2>1. Reject(ex) /\ UNCHANGED job /\ Calling
    BY <1>1 DEF ReplaceChild
  <2>2. note' \in Note /\ code' \in Codes /\ UNCHANGED <<tree, live>>
    BY <2>1, QuietTyped, ValidityTyped DEF Reject
  <2> QED BY <1>0, <2>1, <2>2, NoJobStep DEF Calling
<1>2. CASE ex = Ok
  <2>1. Insert(u, {c}, p, n, Before(c))
    BY <1>2 DEF ReplaceChild
  <2>2. Before(c) \in Pointer /\ Insertable(u, p, n, Before(c))
    BY <1>0, <1>2, ReplacedInsertable
  <2>3. u \in Tree /\ Linked5(u)
    BY <1>0, UnlinkFields, UnlinkLinked
  <2> HIDE DEF u
  <2> QED BY <2>1, <2>2, <2>3, InsertPreserves DEF Insertable
<1> QED BY <1>1, <1>2

-----------------------------------------------------------------------------
(* The theorems.                                                           *)

LEMMA InitLInv == Init => LInv
<1> SUFFICES ASSUME Init PROVE LInv
  OBVIOUS
<1>1. tree \in Tree
  BY DEF Init, Blank, Tree, Pointer
<1>2. Linked5(tree)
  BY NullAssumption DEF Init, Blank, Linked5, SiblingsAgree, EndsAgree,
     ChildrenListed, NoCycle
<1>3. note \in Note
  BY DEF Init, Note
<1>4. job \in Job /\ job.kind = "idle"
  BY DEF Init, Job, Idle, Pointer
<1> QED
  BY <1>1, <1>2, <1>3, <1>4 DEF Init, LInv, TypeOK, TreeLinked, JobOK, Codes

LEMMA NextLInv == LInv /\ NoDangling /\ [Next]_vars => LInv'
<1> SUFFICES ASSUME LInv, NoDangling, [Next]_vars PROVE LInv'
  OBVIOUS
<1>1. ASSUME NEW n \in Node, Create(n) PROVE LInv'
  <2>1. note' \in Note
    BY <1>1, QuietTyped DEF Create
  <2> QED
    BY <1>1, <2>1, NoJobStep
       DEF Create, Calling, LInv, TypeOK, TreeLinked, Codes
<1>2. CASE ValidatedCall
  BY <1>2, ValidatedCallPreserves
<1>3. CASE PlainCall
  BY <1>3, PlainCallPreserves
<1>4. CASE ReplaceApart
  BY <1>4, ReplaceChildPreserves DEF ReplaceApart
<1>5. CASE JobStep
  BY <1>5, JobStepPreserves
<1>6. CASE UNCHANGED vars
  BY <1>6 DEF vars, LInv, TypeOK, TreeLinked, JobOK
<1> QED BY <1>1, <1>2, <1>3, <1>4, <1>5, <1>6 DEF Next

-----------------------------------------------------------------------------
(* Memory: no link and no loop points at a freed node.                     *)

\* destroy_deep frees from the left: every node on the way from where it
\* stands up to its root has lost the siblings in front of it, so the node it
\* climbs to has lost its last child.  Under replace_all the root is a child of
\* the parent being refilled.
OnSpine(C) ==
    /\ job.node \in C
    /\ \A m \in C : m = job.root \/ (tree.prev[m] = NULL /\ tree.parent[m] \in C)

DestroyOK ==
    job.kind = "destroy" =>
        /\ \E C \in SUBSET Node : OnSpine(C)
        /\ job.up => tree.first[job.node] = NULL
        /\ IF job.parent # NULL THEN tree.parent[job.root] = job.parent
                                ELSE job.mark = NULL

DInv ==
    /\ NoDangling
    /\ DestroyOK
    /\ job.kind = "idle" => job = Idle

IInv == LInv /\ DInv

\* A node without a first child is nobody's parent.
LEMMA Childless ==
    ASSUME NEW t \in Tree, NEW n \in Node, Linked5(t), t.first[n] = NULL
    PROVE  \A m \in Node : t.parent[m] # n
<1> SUFFICES ASSUME NEW x \in Node, t.parent[x] = n PROVE FALSE
  OBVIOUS
<1> DEFINE S == {m \in Node : t.parent[m] = n}
<1>1. PICK k \in S : t.prev[k] \notin S
  BY DEF Linked5, NoCycle
<1>2. t.prev[k] = NULL
  BY <1>1, NullAssumption DEF Linked5, SiblingsAgree, Tree, Pointer
<1> QED BY <1>1, <1>2, NullAssumption DEF Linked5, ChildrenListed

\* A node that is alone: no parent, no siblings, no children, no links to it.
LEMMA FreeInMemory ==
    ASSUME NEW t \in Tree, NEW n \in Node, NEW L \in SUBSET Node, Linked5(t),
           InMemory(t, L), n \in L, t.first[n] = NULL
    PROVE  InMemory(Unlink(t, n), L \ {n})
<1> DEFINE u == Unlink(t, n)
<1>1. /\ u \in Tree
      /\ \A m \in Node :
           /\ u.parent[m] = IF m = n THEN NULL ELSE t.parent[m]
           /\ u.first[m] = IF m = t.parent[n] /\ t.first[m] = n
                           THEN t.next[n] ELSE t.first[m]
           /\ u.last[m] = IF m = t.parent[n] /\ t.last[m] = n
                          THEN t.prev[n] ELSE t.last[m]
           /\ u.prev[m] = IF m = n THEN NULL
                          ELSE IF m = t.next[n] THEN t.prev[n] ELSE t.prev[m]
           /\ u.next[m] = IF m = n THEN NULL
                          ELSE IF m = t.prev[n] THEN t.next[n] ELSE t.next[m]
  BY UnlinkFields
<1>2. Linked5(u)
  BY UnlinkLinked
<1> HIDE DEF u
<1>3. \A m \in Node : t.parent[m] # n
  BY Childless
<1>4. t.last[n] = NULL /\ n # t.parent[n]
  BY <1>3 DEF Linked5, EndsAgree, Tree, Pointer
<1>5. Links(u, n) \subseteq {NULL}
  BY <1>1, <1>4 DEF Links
<1>6. \A m \in Node : n \notin Links(u, m)
  <2>1. u.parent[n] = NULL
    BY <1>1
  <2>2. \A m \in Node : u.parent[m] # n
    BY <1>1, <1>3, NullAssumption
  <2>3. u.prev[n] = NULL /\ u.next[n] = NULL
    BY <1>1
  <2>4. \A m \in Node : u.next[m] # n /\ u.prev[m] # n
    BY <1>2, <2>3, NullAssumption DEF Linked5, SiblingsAgree
  <2>5. \A m \in Node : u.first[m] # n /\ u.last[m] # n
    BY <1>2, <2>1, NullAssumption DEF Linked5, EndsAgree
  <2> QED BY <2>2, <2>4, <2>5 DEF Links
<1>7. \A m \in Node : Links(u, m) \subseteq IF m \in L THEN L \cup {NULL} ELSE {NULL}
  BY <1>1, NullAssumption DEF InMemory, Links
<1> QED BY <1>5, <1>6, <1>7 DEF InMemory, u

\* Relinking live nodes makes links to live nodes only.
LEMMA UnlinkInMemory ==
    ASSUME NEW t \in Tree, NEW n \in Node, NEW L \in SUBSET Node,
           InMemory(t, L), n \in L
    PROVE  InMemory(Unlink(t, n), L)
<1> DEFINE u == Unlink(t, n)
<1>1. /\ u \in Tree
      /\ \A m \in Node :
           /\ u.parent[m] = IF m = n THEN NULL ELSE t.parent[m]
           /\ u.first[m] = IF m = t.parent[n] /\ t.first[m] = n
                           THEN t.next[n] ELSE t.first[m]
           /\ u.last[m] = IF m = t.parent[n] /\ t.last[m] = n
                          THEN t.prev[n] ELSE t.last[m]
           /\ u.prev[m] = IF m = n THEN NULL
                          ELSE IF m = t.next[n] THEN t.prev[n] ELSE t.prev[m]
           /\ u.next[m] = IF m = n THEN NULL
                          ELSE IF m = t.prev[n] THEN t.next[n] ELSE t.next[m]
  BY UnlinkFields
<1> HIDE DEF u
<1>2. \A m \in Node : Links(u, m) \subseteq IF m \in L THEN L \cup {NULL} ELSE {NULL}
  BY <1>1, NullAssumption DEF InMemory, Links
<1> QED BY <1>2 DEF InMemory, u

LEMMA LinkLastInMemory ==
    ASSUME NEW t \in Tree, NEW p \in Node, NEW n \in Node, NEW L \in SUBSET Node,
           InMemory(t, L), n \in L, p \in L
    PROVE  InMemory(LinkLast(t, p, n), L)
<1> DEFINE u == LinkLast(t, p, n)
<1>1. /\ u \in Tree
      /\ \A m \in Node :
           /\ u.parent[m] = IF m = n THEN p ELSE t.parent[m]
           /\ u.first[m] = IF m = p /\ t.last[p] = NULL THEN n ELSE t.first[m]
           /\ u.last[m] = IF m = p THEN n ELSE t.last[m]
           /\ u.prev[m] = IF m = n THEN t.last[p] ELSE t.prev[m]
           /\ u.next[m] = IF m = n THEN NULL
                          ELSE IF m = t.last[p] THEN n ELSE t.next[m]
  BY LinkLastFields
<1> HIDE DEF u
<1>2. \A m \in Node : Links(u, m) \subseteq IF m \in L THEN L \cup {NULL} ELSE {NULL}
  BY <1>1, NullAssumption DEF InMemory, Links
<1> QED BY <1>2 DEF InMemory, u

LEMMA LinkBeforeInMemory ==
    ASSUME NEW t \in Tree, NEW c \in Node, NEW n \in Node, NEW L \in SUBSET Node,
           n # c, InMemory(t, L), n \in L, c \in L
    PROVE  InMemory(LinkBefore(t, c, n), L)
<1> DEFINE u == LinkBefore(t, c, n)
<1>1. /\ u \in Tree
      /\ \A m \in Node :
           /\ u.parent[m] = IF m = n THEN t.parent[c] ELSE t.parent[m]
           /\ u.first[m] = IF m = t.parent[c] /\ t.prev[c] = NULL
                           THEN n ELSE t.first[m]
           /\ u.last[m] = t.last[m]
           /\ u.prev[m] = IF m = c THEN n
                          ELSE IF m = n THEN t.prev[c] ELSE t.prev[m]
           /\ u.next[m] = IF m = n THEN c
                          ELSE IF m = t.prev[c] THEN n ELSE t.next[m]
  BY LinkBeforeFields
<1> HIDE DEF u
<1>2. \A m \in Node : Links(u, m) \subseteq IF m \in L THEN L \cup {NULL} ELSE {NULL}
  BY <1>1, NullAssumption DEF InMemory, Links
<1> QED BY <1>2 DEF InMemory, u

LEMMA LinkAfterInMemory ==
    ASSUME NEW t \in Tree, NEW c \in Node, NEW n \in Node, NEW L \in SUBSET Node,
           n # c, InMemory(t, L), n \in L, c \in L
    PROVE  InMemory(LinkAfter(t, c, n), L)
<1> DEFINE u == LinkAfter(t, c, n)
<1>1. /\ u \in Tree
      /\ \A m \in Node :
           /\ u.parent[m] = IF m = n THEN t.parent[c] ELSE t.parent[m]
           /\ u.first[m] = t.first[m]
           /\ u.last[m] = IF m = t.parent[c] /\ t.next[c] = NULL
                          THEN n ELSE t.last[m]
           /\ u.prev[m] = IF m = n THEN c
                          ELSE IF m = t.next[c] THEN n ELSE t.prev[m]
           /\ u.next[m] = IF m = c THEN n
                          ELSE IF m = n THEN t.next[c] ELSE t.next[m]
  BY LinkAfterFields
<1> HIDE DEF u
<1>2. \A m \in Node : Links(u, m) \subseteq IF m \in L THEN L \cup {NULL} ELSE {NULL}
  BY <1>1, NullAssumption DEF InMemory, Links
<1> QED BY <1>2 DEF InMemory, u

LEMMA InsertNodeInMemory ==
    ASSUME NEW t \in Tree, NEW p \in Node, NEW n \in Node, NEW c \in Pointer,
           NEW L \in SUBSET Node, Linked5(t), InMemory(t, L),
           {p, n} \subseteq L, c # NULL => c \in L /\ c # n
    PROVE  InMemory(InsertNode(t, p, n, c), L)
<1> DEFINE v == Adopt(t, n)
<1>1. v \in Tree
  BY AdoptFacts
<1>2. InMemory(v, L)
  BY UnlinkInMemory DEF Adopt
<1> HIDE DEF v
<1>3. CASE c = NULL
  <2>1. InsertNode(t, p, n, c) = LinkLast(v, p, n)
    BY <1>3 DEF InsertNode, v
  <2> QED BY <1>1, <1>2, <2>1, LinkLastInMemory
<1>4. CASE c # NULL
  <2>1. InsertNode(t, p, n, c) = LinkBefore(v, c, n) /\ c \in Node
    BY <1>4 DEF InsertNode, v
  <2> QED BY <1>1, <1>2, <1>4, <2>1, LinkBeforeInMemory
<1> QED BY <1>3, <1>4

-----------------------------------------------------------------------------
(* The memory invariant is preserved.                                      *)

LEMMA NoJobDInv ==
    ASSUME InMemory(tree', live'), job' = Idle
    PROVE  DInv'
  BY DEF DInv, NoDangling, DestroyOK, Idle

\* A loop that only inserts or clears keeps to live nodes.
LEMMA LoopDInv ==
    ASSUME InMemory(tree', live'), job'.kind \in {"insert", "clear", "refill"},
           {job'.parent, job'.node, job'.mark, job'.root} \subseteq live' \cup {NULL}
    PROVE  DInv'
  BY DEF DInv, NoDangling, DestroyOK

LEMMA InsertDInv ==
    ASSUME IInv, NEW t \in Tree, Linked5(t), InMemory(t, live),
           NEW gone \in SUBSET Node,
           NEW p \in live, NEW n \in live, NEW c \in Pointer,
           c # NULL => c # n /\ c \in live,
           Insert(t, gone, p, n, c)
    PROVE  DInv'
<1>0. live \subseteq Node /\ live' = live
  BY DEF IInv, LInv, TypeOK, Insert
<1>1. CASE NodeType[n] # "fragment"
  <2>1. tree' = InsertNode(t, p, n, c) /\ job' = Idle
    BY <1>1 DEF Insert
  <2>2. InMemory(InsertNode(t, p, n, c), live)
    BY <1>0, InsertNodeInMemory
  <2> QED BY <1>0, <2>1, <2>2, NoJobDInv
<1>2. CASE NodeType[n] = "fragment"
  <2>1. tree' = t /\ job' = Inserting(p, t.first[n], c, n)
    BY <1>2 DEF Insert
  <2>2. CASE t.first[n] = NULL
    BY <1>0, <2>1, <2>2, NoJobDInv DEF Inserting
  <2>3. CASE t.first[n] # NULL
    <3>1. t.first[n] \in live
      BY <1>0, <2>3 DEF InMemory, Links
    <3>2. /\ job'.kind = "insert" /\ job'.parent = p /\ job'.node = t.first[n]
          /\ job'.root = n /\ job'.mark = c
      BY <2>1, <2>3 DEF Inserting, Idle
    <3> QED BY <1>0, <2>1, <3>1, <3>2, LoopDInv
  <2> QED BY <2>2, <2>3
<1> QED BY <1>1, <1>2

LEMMA PreInsertDInv ==
    ASSUME IInv, NEW p \in live, NEW n \in live, NEW c \in live \cup {NULL},
           PreInsertNow(p, n, c)
    PROVE  DInv'
<1> DEFINE ex == PreInsertValidity(tree, p, n, c)
           r == IF c = n THEN tree.next[n] ELSE c
<1>0. /\ tree \in Tree /\ Linked5(tree) /\ live \subseteq Node
      /\ InMemory(tree, live) /\ p \in Node /\ n \in Node
  BY DEF IInv, LInv, DInv, TypeOK, TreeLinked, NoDangling
<1>1. CASE ex # Ok
  <2>1. Reject(ex) /\ job' = Idle
    BY <1>1 DEF PreInsertNow, Insert
  <2> QED BY <1>0, <2>1, NoJobDInv DEF Reject
<1>2. CASE ex = Ok
  <2>1. Insert(tree, {}, p, n, r)
    BY <1>2 DEF PreInsertNow
  <2>2. r \in Pointer /\ (r # NULL => r # n /\ r \in live)
    <3>1. CASE c = n
      <4>1. r = tree.next[n] /\ r \in live \cup {NULL}
        BY <1>0, <3>1 DEF InMemory, Links
      <4>2. \E m \in {n} : tree.next[m] \notin {n}
        BY <1>0 DEF Linked5, NoCycle
      <4> QED BY <1>0, <4>1, <4>2 DEF Pointer
    <3>2. CASE c # n
      BY <1>0, <3>2 DEF Pointer
    <3> QED BY <3>1, <3>2
  <2> HIDE DEF r
  <2> QED BY <1>0, <2>1, <2>2, InsertDInv
<1> QED BY <1>1, <1>2

\* The fields destroy_deep goes on to read, after freeing n.
LEMMA FreedFields ==
    ASSUME NEW t \in Tree, NEW n \in Node, NEW u, u = Unlink(t, n)
    PROVE  \A m \in Node :
             /\ u.parent[m] = IF m = n THEN NULL ELSE t.parent[m]
             /\ u.first[m] = IF m = t.parent[n] /\ t.first[m] = n
                             THEN t.next[n] ELSE t.first[m]
             /\ u.prev[m] = IF m = n THEN NULL
                            ELSE IF m = t.next[n] THEN t.prev[n] ELSE t.prev[m]
  BY UnlinkFields

\* A step of destroy_deep that moves on, to a node m on a spine.
LEMMA DestroyMovesOn ==
    ASSUME IInv, job.kind = "destroy", AtBottom, job.node # job.root,
           Free(job.node), NEW m \in Node, NEW up \in BOOLEAN, m # job.node,
           m \in live, job' = GoOn(m, up), up => tree'.first[m] = NULL,
           NEW C \in SUBSET Node, m \in C, job.node \notin C,
           \A k \in C : k = job.root \/ (tree'.prev[k] = NULL /\ tree'.parent[k] \in C)
    PROVE  DInv'
<1>0. /\ tree \in Tree /\ Linked5(tree) /\ live \subseteq Node
      /\ InMemory(tree, live)
      /\ {job.parent, job.node, job.mark, job.root} \subseteq live \cup {NULL}
      /\ job.node \in live /\ job.node \in Node /\ job.root \in Node
      /\ job.parent \in Pointer /\ job.mark \in Pointer
  BY NullAssumption
     DEF IInv, LInv, DInv, TypeOK, TreeLinked, NoDangling, JobOK, Job, Pointer
<1>1. tree.first[job.node] = NULL
  BY DEF IInv, DInv, DestroyOK, AtBottom
<1>2. InMemory(tree', live')
  BY <1>0, <1>1, FreeInMemory DEF Free
<1>3. \A k \in Node : tree.parent[k] # job.node
  BY <1>0, <1>1, Childless
<1>4. /\ job'.kind = "destroy" /\ job'.parent = job.parent /\ job'.node = m
      /\ job'.mark = job.mark /\ job'.root = job.root /\ job'.up = up
  BY NullAssumption DEF GoOn, Destroying
<1>5. IF job.parent # NULL THEN /\ tree.parent[job.root] = job.parent
                                /\ tree.parent[job.mark] = NULL
                           ELSE job.mark = NULL
  BY DEF IInv, LInv, DInv, DestroyOK, JobOK
<1>6. tree.parent[job.node] # NULL
  <2>1. PICK D \in SUBSET Node : OnSpine(D)
    BY DEF IInv, DInv, DestroyOK
  <2> QED BY <2>1, NullAssumption DEF OnSpine
<1>7. job.node # job.parent /\ job.node # job.mark
  <2>1. CASE job.parent # NULL
    BY <1>0, <1>3, <1>5, <1>6, <2>1
  <2>2. CASE job.parent = NULL
    BY <1>0, <1>5, <2>2, NullAssumption
  <2> QED BY <2>1, <2>2
<1>8. {job'.parent, job'.node, job'.mark, job'.root} \subseteq live' \cup {NULL}
  BY <1>0, <1>4, <1>7 DEF Free
<1>9. DestroyOK'
  <2>1. OnSpine(C)'
    BY <1>4 DEF OnSpine
  <2>2. \A k \in Node : tree'.parent[k] = IF k = job.node THEN NULL ELSE tree.parent[k]
    <3>1. tree' = Unlink(tree, job.node)
      BY DEF Free
    <3> QED BY <1>0, <3>1, FreedFields
  <2> QED BY <1>0, <1>4, <1>5, <2>1, <2>2 DEF DestroyOK
<1>10. DInv'
  BY <1>2, <1>4, <1>8, <1>9 DEF DInv, NoDangling
<1> QED BY <1>10

\* The other kinds of step of destroy_deep.
LEMMA DestroyDInv ==
    ASSUME IInv, \/ DestroyDescend \/ DestroyUp \/ DestroyNext \/ DestroyRoot
    PROVE  DInv'
<1>0. /\ tree \in Tree /\ Linked5(tree) /\ live \subseteq Node
      /\ InMemory(tree, live)
      /\ {job.parent, job.node, job.mark, job.root} \subseteq live \cup {NULL}
      /\ job.kind = "destroy"
  BY DEF IInv, LInv, DInv, TypeOK, TreeLinked, NoDangling,
         DestroyDescend, DestroyUp, DestroyNext, DestroyRoot, AtBottom
<1>1. /\ job.node \in live /\ job.node \in Node /\ job.root \in Node
      /\ job.root \in live
  BY <1>0, NullAssumption DEF IInv, LInv, JobOK
<1>2. PICK D \in SUBSET Node : OnSpine(D)
  BY <1>0 DEF IInv, DInv, DestroyOK
<1>3. IF job.parent # NULL THEN tree.parent[job.root] = job.parent ELSE job.mark = NULL
  BY <1>0 DEF IInv, DInv, DestroyOK
<1> DEFINE n == job.node
<1>4. ASSUME AtBottom, Free(n)
      PROVE  /\ tree.first[n] = NULL
             /\ \A m \in Node : tree.parent[m] # n
             /\ InMemory(tree', live') /\ live' = live \ {n}
             /\ \A m \in Node :
                  /\ tree'.parent[m] = IF m = n THEN NULL ELSE tree.parent[m]
                  /\ tree'.first[m] = IF m = tree.parent[n] /\ tree.first[m] = n
                                      THEN tree.next[n] ELSE tree.first[m]
                  /\ tree'.prev[m] = IF m = n THEN NULL
                                     ELSE IF m = tree.next[n] THEN tree.prev[n]
                                     ELSE tree.prev[m]
  <2>1. tree.first[n] = NULL
    BY <1>4 DEF IInv, DInv, DestroyOK, AtBottom
  <2>2. \A m \in Node : tree.parent[m] # n
    BY <1>0, <1>1, <2>1, Childless
  <2>3. InMemory(tree', live') /\ live' = live \ {n}
    BY <1>0, <1>1, <1>4, <2>1, FreeInMemory DEF Free
  <2>4. tree' = Unlink(tree, n)
    BY <1>4 DEF Free
  <2>5. \A m \in Node :
          /\ tree'.parent[m] = IF m = n THEN NULL ELSE tree.parent[m]
          /\ tree'.first[m] = IF m = tree.parent[n] /\ tree.first[m] = n
                              THEN tree.next[n] ELSE tree.first[m]
          /\ tree'.prev[m] = IF m = n THEN NULL
                             ELSE IF m = tree.next[n] THEN tree.prev[n]
                             ELSE tree.prev[m]
    BY <1>0, <1>1, <2>4, FreedFields
  <2> QED BY <2>1, <2>2, <2>3, <2>5
<1>5. CASE DestroyDescend
  <2> DEFINE c == tree.first[n]
             C == D \cup {c}
  <2>1. c \in live /\ c \in Node
    BY <1>0, <1>1, <1>5, NullAssumption DEF DestroyDescend, InMemory, Links
  <2>2. tree.parent[c] = n /\ tree.prev[c] = NULL
    BY <1>0, <1>1, <1>5 DEF DestroyDescend, Linked5, EndsAgree
  <2>3. /\ job'.kind = "destroy" /\ job'.parent = job.parent /\ job'.node = c
        /\ job'.mark = job.mark /\ job'.root = job.root /\ job'.up = FALSE
        /\ UNCHANGED <<tree, live>>
    BY <1>5 DEF DestroyDescend, GoOn, Destroying
  <2>4. /\ C \in SUBSET Node /\ job'.node \in C
        /\ \A m \in C : m = job'.root \/ (tree'.prev[m] = NULL /\ tree'.parent[m] \in C)
    BY <1>2, <2>1, <2>2, <2>3 DEF OnSpine
  <2> HIDE DEF C
  <2>5. \E S \in SUBSET Node : OnSpine(S)'
    BY <2>4 DEF OnSpine
  <2>6. DestroyOK'
    BY <1>3, <2>3, <2>5 DEF DestroyOK
  <2> QED BY <1>0, <2>1, <2>3, <2>6 DEF DInv, NoDangling
<1>6. CASE DestroyUp
  <2> DEFINE q == tree.parent[n]
             C == D \ {n}
  <2>1. /\ AtBottom /\ n # job.root /\ tree.next[n] = NULL
        /\ job' = GoOn(q, TRUE) /\ Free(n)
    BY <1>6 DEF DestroyUp
  <2>2. n \in D /\ q \in D /\ tree.prev[n] = NULL
    BY <1>2, <2>1 DEF OnSpine
  <2>3. q \in Node /\ q \in live /\ q # n
    BY <1>0, <1>1, <1>4, <2>1, <2>2, NullAssumption DEF InMemory, Links
  <2>4. tree.first[q] = n
    BY <1>0, <1>1, <2>2, <2>3, NullAssumption DEF Linked5, ChildrenListed
  <2>5. tree'.first[q] = NULL
    BY <1>4, <2>1, <2>3, <2>4
  <2>6. \A k \in C : k = job.root \/ (tree'.prev[k] = NULL /\ tree'.parent[k] \in C)
    BY <1>2, <1>4, <2>1, <2>2, NullAssumption DEF OnSpine
  <2>7. C \in SUBSET Node /\ q \in C /\ n \notin C
    BY <1>2, <2>2, <2>3
  <2> HIDE DEF q, C
  <2> QED BY <1>0, <2>1, <2>3, <2>5, <2>6, <2>7, DestroyMovesOn
<1>7. CASE DestroyNext
  <2> DEFINE x == tree.next[n]
             C == (D \ {n}) \cup {x}
  <2>1. /\ AtBottom /\ n # job.root /\ x # NULL
        /\ job' = GoOn(x, FALSE) /\ Free(n)
    BY <1>7 DEF DestroyNext
  <2>2. n \in D /\ tree.parent[n] \in D /\ tree.prev[n] = NULL
    BY <1>2, <2>1 DEF OnSpine
  <2>3. x \in Node /\ x \in live
    BY <1>0, <1>1, <2>1 DEF InMemory, Links
  <2>4. x # n
    <3>1. \E m \in {n} : tree.next[m] \notin {n}
      BY <1>0, <1>1 DEF Linked5, NoCycle
    <3> QED BY <3>1
  <2>5. tree.parent[x] = tree.parent[n]
    BY <1>0, <1>1, <2>1 DEF Linked5, SiblingsAgree
  <2>6. tree'.prev[x] = NULL /\ tree'.parent[x] \in C
    BY <1>1, <1>4, <2>1, <2>2, <2>3, <2>4, <2>5
  <2>7. \A k \in C : k = job.root \/ (tree'.prev[k] = NULL /\ tree'.parent[k] \in C)
    BY <1>2, <1>4, <2>1, <2>2, <2>6 DEF OnSpine
  <2>8. C \in SUBSET Node /\ x \in C /\ n \notin C
    BY <1>2, <2>3, <2>4
  <2> HIDE DEF x, C
  <2> QED BY <1>0, <2>1, <2>3, <2>4, <2>7, <2>8, DestroyMovesOn
<1>8. CASE DestroyRoot
  <2>1. AtBottom /\ n = job.root /\ Free(n) /\ job' = GoOn(NULL, FALSE)
    BY <1>8 DEF DestroyRoot
  <2>2. CASE job.parent = NULL
    <3>1. job' = Idle
      BY <2>1, <2>2 DEF GoOn
    <3> QED BY <1>4, <2>1, <3>1, NoJobDInv
  <2>3. CASE job.parent # NULL
    <3>1. job' = Refilling(job.parent, job.mark)
      BY <2>1, <2>3 DEF GoOn
    <3>2. /\ job'.kind = "refill" /\ job'.parent = job.parent
          /\ job'.mark = job.mark /\ job'.node = NULL /\ job'.root = NULL
      BY <3>1 DEF Refilling, Idle
    <3>3. job.parent \in live /\ job.mark \in live
      BY <1>0, <2>3, NullAssumption DEF IInv, LInv, JobOK
    <3>4. tree.parent[job.root] = job.parent /\ tree.parent[job.mark] = NULL
      BY <1>0, <1>3, <2>3 DEF IInv, LInv, JobOK
    <3>5. job.parent # n /\ job.mark # n
      BY <1>0, <1>1, <1>4, <2>1, <2>3, <3>4
    <3>6. InMemory(tree', live') /\ live' = live \ {n}
      BY <1>4, <2>1
    <3>7. {job'.parent, job'.node, job'.mark, job'.root} \subseteq live' \cup {NULL}
      BY <3>2, <3>3, <3>5, <3>6
    <3> QED BY <3>2, <3>6, <3>7, LoopDInv
  <2> QED BY <2>2, <2>3
<1> QED BY <1>5, <1>6, <1>7, <1>8

LEMMA JobStepDInv == ASSUME IInv, JobStep PROVE DInv'
<1>0. /\ tree \in Tree /\ Linked5(tree) /\ live \subseteq Node
      /\ InMemory(tree, live) /\ job \in Job /\ JobOK
      /\ {job.parent, job.node, job.mark, job.root} \subseteq live \cup {NULL}
  BY DEF IInv, LInv, DInv, TypeOK, TreeLinked, NoDangling
<1>1. CASE InsertStep
  <2> DEFINE p == job.parent  n == job.node  c == job.mark  f == job.root
  <2>1. /\ p \in live /\ n \in live /\ f \in live /\ c \in live \cup {NULL}
        /\ tree.parent[n] = f /\ p \in Node /\ n \in Node /\ c \in Pointer
        /\ ~IsInclusiveAncestor(tree, f, p)
        /\ c # NULL => tree.parent[c] = p
    BY <1>0, <1>1, NullAssumption DEF InsertStep, JobOK, Job
  <2>2. c # NULL => c # n
    BY <2>1 DEF IsInclusiveAncestor, Reach
  <2>3. InMemory(tree', live') /\ live' = live
    BY <1>0, <1>1, <2>1, <2>2, InsertNodeInMemory DEF InsertStep
  <2>4. CASE tree.next[n] = NULL
    BY <1>1, <2>3, <2>4, NoJobDInv DEF InsertStep, Inserting
  <2>5. CASE tree.next[n] # NULL
    <3>1. tree.next[n] \in live
      BY <1>0, <2>1, <2>5 DEF InMemory, Links
    <3>2. /\ job'.kind = "insert" /\ job'.parent = p /\ job'.root = f
          /\ job'.node = tree.next[n] /\ job'.mark = c
      BY <1>1, <2>5 DEF InsertStep, Inserting, Idle
    <3> QED BY <2>1, <2>3, <3>1, <3>2, LoopDInv
  <2> QED BY <2>4, <2>5
<1>2. CASE ClearStep
  <2>1. job.node \in live /\ job.node \in Node
    BY <1>0, <1>2 DEF ClearStep
  <2>2. InMemory(tree', live') /\ live' = live
    BY <1>0, <1>2, <2>1, UnlinkInMemory DEF ClearStep
  <2>3. tree.next[job.node] \in live \cup {NULL}
    BY <1>0, <2>1 DEF InMemory, Links
  <2>4. /\ job'.kind = "clear" /\ job'.parent = job.parent /\ job'.root = NULL
        /\ job'.node = tree.next[job.node] /\ job'.mark = job.mark
    BY <1>2 DEF ClearStep, Clearing, Idle
  <2> QED BY <1>0, <2>2, <2>3, <2>4, LoopDInv
<1>3. CASE ClearEnd
  <2>1. job.parent \in live /\ job.mark \in live
    BY <1>0, <1>3, NullAssumption DEF ClearEnd, JobOK
  <2> QED BY <1>3, <2>1, PreInsertDInv DEF ClearEnd
<1>4. CASE RefillNext
  <2> DEFINE r == tree.first[job.parent]
  <2>1. job.parent \in live /\ job.mark \in live /\ job.parent \in Node
    BY <1>0, <1>4, NullAssumption DEF RefillNext, JobOK
  <2>2. r \in live /\ r \in Node /\ tree.parent[r] = job.parent
    BY <1>0, <1>4, <2>1 DEF RefillNext, InMemory, Links, Linked5, EndsAgree
  <2>3. /\ job'.kind = "destroy" /\ job'.parent = job.parent /\ job'.node = r
        /\ job'.mark = job.mark /\ job'.root = r /\ job'.up = FALSE
        /\ UNCHANGED <<tree, live>>
    BY <1>4 DEF RefillNext, Destroying
  <2>4. \E S \in SUBSET Node : OnSpine(S)'
    <3>1. {r} \in SUBSET Node /\ job'.node \in {r} /\ \A m \in {r} : m = job'.root
      BY <2>2, <2>3
    <3> QED BY <3>1 DEF OnSpine
  <2>5. DestroyOK'
    BY <1>0, <2>1, <2>2, <2>3, <2>4, NullAssumption DEF DestroyOK
  <2> QED BY <1>0, <2>1, <2>2, <2>3, <2>5 DEF DInv, NoDangling
<1>5. CASE RefillEnd
  <2>1. job.parent \in live /\ job.mark \in live
    BY <1>0, <1>5, NullAssumption DEF RefillEnd, JobOK
  <2>2. InMemory(tree', live')
    BY <1>0, <1>5, <2>1, LinkLastInMemory DEF RefillEnd
  <2> QED BY <1>5, <2>2, NoJobDInv DEF RefillEnd
<1> QED BY <1>1, <1>2, <1>3, <1>4, <1>5, DestroyDInv DEF JobStep

LEMMA CallDInv ==
    ASSUME IInv, \/ \E n \in Node : Create(n)
                 \/ ValidatedCall
                 \/ PlainCall
                 \/ ReplaceApart
    PROVE  DInv'
<1>0. /\ tree \in Tree /\ Linked5(tree) /\ live \subseteq Node
      /\ InMemory(tree, live)
  BY DEF IInv, LInv, DInv, TypeOK, TreeLinked, NoDangling
<1>a. ASSUME Calling, UNCHANGED job PROVE job' = Idle
  BY <1>a DEF Calling, IInv, DInv
<1>1. ASSUME NEW n \in Node, Create(n) PROVE DInv'
  <2>1. InMemory(tree', live')
    BY <1>0, <1>1 DEF Create, InMemory, Links
  <2> QED BY <1>1, <1>a, <2>1, NoJobDInv DEF Create
<1>2. ASSUME NEW n \in Node, Remove(n) PROVE DInv'
  <2>1. InMemory(tree', live')
    BY <1>0, <1>2, UnlinkInMemory DEF Remove
  <2> QED BY <1>2, <1>a, <2>1, NoJobDInv DEF Remove
<1>3. ASSUME NEW n \in Node, Destroy(n) PROVE DInv'
  <2>1. InMemory(tree', live')
    BY <1>0, <1>3, FreeInMemory DEF Destroy
  <2> QED BY <1>3, <1>a, <2>1, NoJobDInv DEF Destroy
<1>4. ASSUME NEW n \in Node, DestroyDeep(n) PROVE DInv'
  <2>1. /\ job'.kind = "destroy" /\ job'.parent = NULL /\ job'.node = n
        /\ job'.mark = NULL /\ job'.root = n /\ job'.up = FALSE
        /\ n \in live /\ UNCHANGED <<tree, live>>
    BY <1>4 DEF DestroyDeep, Destroying
  <2>2. \E S \in SUBSET Node : OnSpine(S)'
    <3>1. {n} \in SUBSET Node /\ job'.node \in {n} /\ \A m \in {n} : m = job'.root
      BY <2>1
    <3> QED BY <3>1 DEF OnSpine
  <2> QED BY <1>0, <2>1, <2>2 DEF DInv, NoDangling, DestroyOK
<1>5. ASSUME NEW p \in Node, NEW n \in Node, InsertChild(p, n) PROVE DInv'
  <2>1. InMemory(tree', live')
    BY <1>0, <1>5, LinkLastInMemory DEF InsertChild, Linked
  <2> QED BY <1>5, <1>a, <2>1, NoJobDInv DEF InsertChild, Linked
<1>6. ASSUME NEW c \in Node, NEW n \in Node, InsertBefore(c, n) PROVE DInv'
  <2>1. n # c
    BY <1>6 DEF InsertBefore, Loose
  <2>2. InMemory(tree', live')
    BY <1>0, <1>6, <2>1, LinkBeforeInMemory DEF InsertBefore, Linked
  <2> QED BY <1>6, <1>a, <2>2, NoJobDInv DEF InsertBefore, Linked
<1>7. ASSUME NEW c \in Node, NEW n \in Node, InsertAfter(c, n) PROVE DInv'
  <2>1. n # c
    BY <1>7 DEF InsertAfter, Loose
  <2>2. InMemory(tree', live')
    BY <1>0, <1>7, <2>1, LinkAfterInMemory DEF InsertAfter, Linked
  <2> QED BY <1>7, <1>a, <2>2, NoJobDInv DEF InsertAfter, Linked
<1>8. ASSUME NEW p \in Node, NEW n \in Node, ReplaceAll(p, n) PROVE DInv'
  <2>1. /\ job'.kind = "refill" /\ job'.parent = p /\ job'.mark = n
        /\ job'.node = NULL /\ job'.root = NULL
        /\ {p, n} \subseteq live /\ UNCHANGED <<tree, live>>
    BY <1>8 DEF ReplaceAll, Refilling, Idle
  <2> QED BY <1>0, <2>1, LoopDInv
<1>9. ASSUME NEW p \in Node, NEW n \in Node, TextContentSet(p, n) PROVE DInv'
  <2>1. /\ job'.kind = "refill" /\ job'.parent = p /\ job'.mark = n
        /\ job'.node = NULL /\ job'.root = NULL
        /\ {p, n} \subseteq live' /\ live' = live \cup {n} /\ tree' = tree
    BY <1>9 DEF TextContentSet, Refilling, Idle
  <2>2. InMemory(tree', live')
    BY <1>0, <2>1 DEF InMemory, Links
  <2> QED BY <2>1, <2>2, LoopDInv
<1>10. ASSUME NEW p \in Node, NEW n \in Node, AppendChild(p, n) PROVE DInv'
  BY <1>10, PreInsertDInv DEF AppendChild
<1>11. ASSUME NEW p \in Node, NEW n \in Node, NEW c \in Node, InsertBeforeSpec(p, n, c)
       PROVE  DInv'
  BY <1>11, PreInsertDInv DEF InsertBeforeSpec
<1>12. ASSUME NEW p \in Node, NEW n \in Node, RemoveChild(p, n) PROVE DInv'
  <2>1. CASE tree.parent[n] # p
    BY <1>0, <1>12, <1>a, <2>1, NoJobDInv DEF RemoveChild, Reject
  <2>2. CASE tree.parent[n] = p
    <3>1. InMemory(tree', live')
      BY <1>0, <1>12, <2>2, UnlinkInMemory DEF RemoveChild
    <3> QED BY <1>12, <1>a, <3>1, NoJobDInv DEF RemoveChild
  <2> QED BY <2>1, <2>2
<1>13. ASSUME NEW p \in Node, NEW n \in Node, ReplaceAllSpec(p, n) PROVE DInv'
  <2>1. /\ job'.kind = "clear" /\ job'.parent = p /\ job'.mark = n
        /\ job'.node = tree.first[p] /\ job'.root = NULL
        /\ {p, n} \subseteq live /\ UNCHANGED <<tree, live>>
    BY <1>13 DEF ReplaceAllSpec, Clearing, Idle
  <2>2. tree.first[p] \in live \cup {NULL}
    BY <1>0, <2>1 DEF InMemory, Links
  <2> QED BY <1>0, <2>1, <2>2, LoopDInv
<1>14. ASSUME NEW p \in Node, NEW n \in Node, NEW c \in Node,
              n # Before(c), ReplaceChild(p, n, c)
       PROVE  DInv'
  <2> DEFINE ex == PreInsertValidity(tree, p, n, c)
             u == Unlink(tree, c)
  <2>1. {p, n, c} \subseteq live /\ Calling
    BY <1>14 DEF ReplaceChild
  <2>2. CASE ex # Ok
    <3>1. Reject(ex) /\ UNCHANGED job
      BY <1>14, <2>2 DEF ReplaceChild
    <3> QED BY <1>0, <1>a, <2>1, <3>1, NoJobDInv DEF Reject
  <2>3. CASE ex = Ok
    <3>1. Insert(u, {c}, p, n, Before(c))
      BY <1>14, <2>3 DEF ReplaceChild
    <3>2. u \in Tree /\ Linked5(u) /\ InMemory(u, live)
      BY <1>0, <2>1, UnlinkFields, UnlinkLinked, UnlinkInMemory
    <3>3. Before(c) \in live \cup {NULL}
      BY <1>0, <2>1 DEF Before, InMemory, Links
    <3> HIDE DEF u
    <3> QED BY <1>0, <1>14, <2>1, <3>1, <3>2, <3>3, InsertDInv DEF Pointer
  <2> QED BY <2>2, <2>3
<1> QED
  BY <1>1, <1>2, <1>3, <1>4, <1>5, <1>6, <1>7, <1>8, <1>9, <1>10, <1>11, <1>12,
     <1>13, <1>14 DEF PlainCall, ValidatedCall, ReplaceApart

-----------------------------------------------------------------------------
(* The theorems.                                                           *)

LEMMA InitIInv == Init => IInv
<1> SUFFICES ASSUME Init PROVE IInv
  OBVIOUS
<1>1. InMemory(tree, live)
  BY DEF Init, Blank, InMemory, Links
<1>2. DInv
  BY <1>1 DEF Init, DInv, NoDangling, DestroyOK, Idle
<1> QED BY <1>2, InitLInv DEF IInv

LEMMA NextIInv == IInv /\ [Next]_vars => IInv'
<1> SUFFICES ASSUME IInv, [Next]_vars PROVE IInv'
  OBVIOUS
<1>1. LInv'
  BY NextLInv DEF IInv, DInv
<1>2. CASE JobStep
  BY <1>1, <1>2, JobStepDInv DEF IInv
<1>3. CASE UNCHANGED vars
  BY <1>1, <1>3 DEF vars, IInv, DInv, NoDangling, DestroyOK, OnSpine
<1>4. CASE Next /\ ~JobStep
  BY <1>1, <1>4, CallDInv DEF IInv, Next
<1> QED BY <1>2, <1>3, <1>4

\* The inductive invariant holds in every behaviour.
THEOREM Invariance == Spec => []IInv
  BY InitIInv, NextIInv, PTL DEF Spec

\* Every variable keeps its type, for any set of nodes.
THEOREM TypeCorrect == Spec => []TypeOK
<1>1. IInv => TypeOK
  BY DEF IInv, LInv
<1> QED BY <1>1, Invariance, PTL

\* Whatever calls are made in whatever order, and between any two iterations of
\* their loops, the five link fields describe one forest: for any set of nodes.
THEOREM LinksConsistent == Spec => []TreeLinked
<1>1. IInv => TreeLinked
  BY DEF IInv, LInv
<1> QED BY <1>1, Invariance, PTL

\* No node is freed while another one, or a loop in progress, still points at
\* it - destroy_deep included, which climbs through the nodes it frees.
THEOREM MemorySafe == Spec => []NoDangling
<1>1. IInv => NoDangling
  BY DEF IInv, DInv
<1> QED BY <1>1, Invariance, PTL

-----------------------------------------------------------------------------
(* The mutation callbacks report every move: whatever call or loop         *)
(* iteration runs, a node that leaves its parent gets "removed", a node    *)
(* that gets a parent gets "inserted" with everything below it, and no     *)
(* node is reported that did not move.                                     *)

\* The step relation of NotifiesMoves.
Reported ==
    EventsOn =>
      /\ \A n \in Node : tree.parent[n] \notin {NULL, tree'.parent[n]}
                             => n \in note'.removed
      /\ \A n \in Node : tree'.parent[n] \notin {NULL, tree.parent[n]}
                             => \A m \in Subtree(tree', n) : note'.inserted[m] > 0
      /\ \A m \in Node : note'.inserted[m] > 0 =>
            \E n \in Node : /\ m \in Subtree(tree', n)
                            /\ tree'.parent[n] # NULL
                            /\ tree.parent[n] = NULL \/ n \in note'.removed

\* A step that only takes the nodes of gone out of their parents, and says so.
LEMMA LeavingReported ==
    ASSUME NEW gone \in SUBSET Node, note' = Removed(gone),
           \A m \in Node : tree'.parent[m] = IF m \in gone THEN NULL ELSE tree.parent[m]
    PROVE  Reported
<1>1. \A m \in Node : note'.inserted[m] = 0
  BY DEF Removed, Notified
<1>2. EventsOn => note'.removed = gone
  BY DEF Removed, Notified
<1> QED BY <1>1, <1>2 DEF Reported

\* A step that relinks nothing and reports nothing.
LEMMA QuietReported ==
    ASSUME note' = Quiet, UNCHANGED tree
    PROVE  Reported
  BY LeavingReported DEF Quiet

\* A step that takes the nodes of gone out, hangs n below p and runs the
\* callbacks k times over what n contains; n was loose, or is in gone.
LEMMA MovingReported ==
    ASSUME NEW gone \in SUBSET Node, NEW n \in Node, NEW p \in Node, NEW k \in 1 .. 2,
           note' = Notified(gone, tree', n, k),
           tree.parent[n] = NULL \/ n \in gone,
           \A m \in Node : tree'.parent[m] = IF m = n THEN p
                                             ELSE IF m \in gone THEN NULL
                                             ELSE tree.parent[m]
    PROVE  Reported
<1> SUFFICES ASSUME EventsOn
             PROVE  /\ \A m \in Node : tree.parent[m] \notin {NULL, tree'.parent[m]}
                                        => m \in gone
                    /\ \A m \in Node : tree'.parent[m] \notin {NULL, tree.parent[m]}
                                        => \A j \in Subtree(tree', m) : note'.inserted[j] > 0
                    /\ \A m \in Node : note'.inserted[m] > 0 =>
                          \E j \in Node : /\ m \in Subtree(tree', j)
                                          /\ tree'.parent[j] # NULL
                                          /\ tree.parent[j] = NULL \/ j \in gone
  BY DEF Reported, Notified
<1>1. \A m \in Node : note'.inserted[m] = IF m \in Subtree(tree', n) THEN k ELSE 0
  BY NullAssumption DEF Notified
<1>2. tree'.parent[n] # NULL
  BY NullAssumption
<1>3. \A m \in Node : tree'.parent[m] \notin {NULL, tree.parent[m]} => m = n
  OBVIOUS
<1>4. \A j \in Subtree(tree', n) : note'.inserted[j] > 0
  BY <1>1 DEF Subtree
<1>5. \A m \in Node : note'.inserted[m] > 0 => m \in Subtree(tree', n)
  BY <1>1
<1> QED BY <1>2, <1>3, <1>4, <1>5

-----------------------------------------------------------------------------
(* insert_node.                                                            *)

\* insert_node, after the step has taken the nodes of gone out.
LEMMA InsertNodeReported ==
    ASSUME NEW t \in Tree, Linked5(t), NEW gone \in SUBSET Node,
           NEW p \in Node, NEW n \in Node, NEW c \in Pointer,
           Insertable(t, p, n, c),
           \A m \in Node : t.parent[m] = IF m \in gone THEN NULL ELSE tree.parent[m],
           tree' = InsertNode(t, p, n, c), NEW all \in SUBSET Node,
           all \in {gone, gone \cup {n}}, t.parent[n] # NULL => n \in all,
           note' = Notified(all, tree', n, 2)
    PROVE  Reported
<1>1. \A m \in Node : tree'.parent[m] = IF m = n THEN p ELSE t.parent[m]
  BY InsertNodeLinked DEF Insertable
<1>2. \A m \in Node : tree'.parent[m] = IF m = n THEN p
                                        ELSE IF m \in all THEN NULL
                                        ELSE tree.parent[m]
  BY <1>1
<1>3. tree.parent[n] = NULL \/ n \in all
  OBVIOUS
<1> QED BY <1>2, <1>3, MovingReported

LEMMA InsertReported ==
    ASSUME NEW t \in Tree, Linked5(t), NEW gone \in SUBSET Node,
           NEW p \in Node, NEW n \in Node, NEW c \in Pointer,
           Insertable(t, p, n, c),
           \A m \in Node : t.parent[m] = IF m \in gone THEN NULL ELSE tree.parent[m],
           Insert(t, gone, p, n, c)
    PROVE  Reported
<1>1. CASE NodeType[n] = "fragment"
  BY <1>1, LeavingReported DEF Insert
<1>2. CASE NodeType[n] # "fragment"
  <2> DEFINE all == IF t.parent[n] # NULL THEN gone \cup {n} ELSE gone
  <2>1. tree' = InsertNode(t, p, n, c) /\ note' = Notified(all, tree', n, 2)
    BY <1>2 DEF Insert
  <2>2. /\ all \in SUBSET Node /\ all \in {gone, gone \cup {n}}
        /\ t.parent[n] # NULL => n \in all
    OBVIOUS
  <2> HIDE DEF all
  <2> QED BY <2>1, <2>2, InsertNodeReported
<1> QED BY <1>1, <1>2

-----------------------------------------------------------------------------
(* Every call and every iteration reports what it moved.                   *)

\* pre_insert, as a call of its own and at the end of replace_all_spec.
LEMMA PreInsertReported ==
    ASSUME LInv, NEW p \in Node, NEW n \in Node, NEW c \in Pointer,
           PreInsertNow(p, n, c)
    PROVE  Reported
<1> DEFINE ex == PreInsertValidity(tree, p, n, c)
           r == IF c = n THEN tree.next[n] ELSE c
<1>0. tree \in Tree /\ Linked5(tree)
  BY DEF LInv, TypeOK, TreeLinked
<1>1. CASE ex # Ok
  BY <1>1, QuietReported DEF PreInsertNow, Reject
<1>2. CASE ex = Ok
  <2>1. Insert(tree, {}, p, n, r)
    BY <1>2 DEF PreInsertNow
  <2>2. r \in Pointer /\ Insertable(tree, p, n, r)
    BY <1>0, <1>2, AcceptedInsertable
  <2> HIDE DEF r
  <2> QED BY <1>0, <2>1, <2>2, InsertReported
<1> QED BY <1>1, <1>2

LEMMA ReplaceChildReported ==
    ASSUME LInv, NEW p \in Node, NEW n \in Node, NEW c \in Node,
           n # Before(c), ReplaceChild(p, n, c)
    PROVE  Reported
<1> DEFINE ex == PreInsertValidity(tree, p, n, c)
           u == Unlink(tree, c)
<1>0. tree \in Tree /\ Linked5(tree)
  BY DEF LInv, TypeOK, TreeLinked
<1>1. CASE ex # Ok
  BY <1>1, QuietReported DEF ReplaceChild, Reject
<1>2. CASE ex = Ok
  <2>1. Insert(u, {c}, p, n, Before(c))
    BY <1>2 DEF ReplaceChild
  <2>2. Before(c) \in Pointer /\ Insertable(u, p, n, Before(c))
    BY <1>0, <1>2, ReplacedInsertable
  <2>3. /\ u \in Tree /\ Linked5(u)
        /\ \A m \in Node : u.parent[m] = IF m \in {c} THEN NULL ELSE tree.parent[m]
    BY <1>0, UnlinkFields, UnlinkLinked
  <2> HIDE DEF u
  <2> QED BY <2>1, <2>2, <2>3, InsertReported
<1> QED BY <1>1, <1>2

\* Taking one node out, as remove, remove_child and the loops do.
LEMMA UnlinkReported ==
    ASSUME LInv, NEW n \in Node, tree' = Unlink(tree, n), note' = Removed({n})
    PROVE  Reported
<1>1. \A m \in Node : tree'.parent[m] = IF m \in {n} THEN NULL ELSE tree.parent[m]
  BY UnlinkFields DEF LInv, TypeOK
<1> QED BY <1>1, LeavingReported

\* Linking a loose node, as the calls that do not validate do.
LEMMA LooseReported ==
    ASSUME NEW n \in Node, NEW p \in Node, tree.parent[n] = NULL,
           note' = Notified({}, tree', n, 1),
           \A m \in Node : tree'.parent[m] = IF m = n THEN p ELSE tree.parent[m]
    PROVE  Reported
<1> DEFINE none == {}
<1>1. /\ none \in SUBSET Node /\ 1 \in 1 .. 2
      /\ \A m \in Node : tree'.parent[m] = IF m = n THEN p
                                            ELSE IF m \in none THEN NULL
                                            ELSE tree.parent[m]
  OBVIOUS
<1> QED BY <1>1, MovingReported

LEMMA JobStepReported == ASSUME LInv, JobStep PROVE Reported
<1>0. tree \in Tree /\ Linked5(tree) /\ job \in Job /\ JobOK
  BY DEF LInv, TypeOK, TreeLinked
<1>1. CASE InsertStep
  <2> DEFINE p == job.parent  n == job.node  c == job.mark
  <2>1. p \in Node /\ n \in Node /\ c \in Pointer /\ Insertable(tree, p, n, c)
    BY <1>0, <1>1, LoopInsertable DEF InsertStep, JobOK, Job
  <2>2. \A m \in Node : tree'.parent[m] = IF m = n THEN p ELSE tree.parent[m]
    BY <1>0, <1>1, <2>1, InsertNodeLinked DEF InsertStep, Insertable
  <2>3. note' = Notified({n}, tree', n, 2)
    BY <1>1 DEF InsertStep
  <2>4. /\ {n} \in SUBSET Node /\ 2 \in 1 .. 2
        /\ \A m \in Node : tree'.parent[m] = IF m = n THEN p
                                              ELSE IF m \in {n} THEN NULL
                                              ELSE tree.parent[m]
    BY <2>1, <2>2
  <2> QED BY <2>1, <2>3, <2>4, MovingReported
<1>2. CASE ClearStep
  <2>1. job.node \in Node
    BY <1>0, <1>2 DEF ClearStep, Job, Pointer
  <2> QED BY <1>2, <2>1, UnlinkReported DEF ClearStep
<1>3. CASE ClearEnd
  BY <1>0, <1>3, PreInsertReported DEF ClearEnd, JobOK, Pointer
<1>4. CASE RefillNext \/ DestroyDescend
  BY <1>4, QuietReported DEF RefillNext, DestroyDescend
<1>5. CASE RefillEnd
  <2>1. job.parent \in Node /\ job.mark \in Node /\ tree.parent[job.mark] = NULL
    BY <1>0, <1>5, NullAssumption DEF RefillEnd, JobOK
  <2>2. \A m \in Node : tree'.parent[m] = IF m = job.mark THEN job.parent
                                            ELSE tree.parent[m]
    <3>1. tree' = LinkLast(tree, job.parent, job.mark)
      BY <1>5 DEF RefillEnd
    <3>2. tree \in Tree /\ job.parent \in Node /\ job.mark \in Node
      BY <1>0, <2>1
    <3> QED BY <3>1, <3>2, LinkLastParents
  <2> QED BY <1>5, <2>1, <2>2, LooseReported DEF RefillEnd
<1>6. CASE DestroyUp \/ DestroyNext \/ DestroyRoot
  <2>1. job.node \in Node /\ Free(job.node)
    BY <1>0, <1>6 DEF DestroyUp, DestroyNext, DestroyRoot, AtBottom, JobOK
  <2> QED BY <2>1, UnlinkReported DEF Free
<1> QED
  BY <1>1, <1>2, <1>3, <1>4, <1>5, <1>6 DEF JobStep

LEMMA CallReported ==
    ASSUME LInv, \/ \E n \in Node : Create(n)
                 \/ ValidatedCall
                 \/ PlainCall
                 \/ ReplaceApart
    PROVE  Reported
<1>0. tree \in Tree /\ Linked5(tree)
  BY DEF LInv, TypeOK, TreeLinked
<1>1. ASSUME NEW n \in Node, NEW p \in Node,
             \/ Create(n) \/ DestroyDeep(n) \/ ReplaceAll(p, n)
             \/ TextContentSet(p, n) \/ ReplaceAllSpec(p, n)
      PROVE  Reported
  BY <1>1, QuietReported
     DEF Create, DestroyDeep, ReplaceAll, TextContentSet, ReplaceAllSpec
<1>2. ASSUME NEW n \in Node, Remove(n) \/ Destroy(n) PROVE Reported
  BY <1>2, UnlinkReported DEF Remove, Destroy
<1>3. ASSUME NEW p \in Node, NEW n \in Node, InsertChild(p, n) PROVE Reported
  <2>1. \A m \in Node : LinkLast(tree, p, n).parent[m] = IF m = n THEN p
                                                         ELSE tree.parent[m]
    BY <1>0, LinkLastFields
  <2>2. tree' = LinkLast(tree, p, n)
    BY <1>3 DEF InsertChild, Linked
  <2>3. note' = Notified({}, tree', n, 1) /\ tree.parent[n] = NULL
    BY <1>3 DEF InsertChild, Linked, Loose
  <2> QED BY <2>1, <2>2, <2>3, LooseReported
<1>4. ASSUME NEW c \in Node, NEW n \in Node, InsertBefore(c, n) PROVE Reported
  <2>1. n # c /\ tree.parent[c] \in Node
    BY <1>0, <1>4 DEF InsertBefore, Loose, Tree, Pointer
  <2>2. \A m \in Node : tree'.parent[m] = IF m = n THEN tree.parent[c]
                                            ELSE tree.parent[m]
    BY <1>0, <1>4, <2>1, LinkBeforeFields DEF InsertBefore, Linked
  <2> QED BY <1>4, <2>1, <2>2, LooseReported DEF InsertBefore, Linked, Loose
<1>5. ASSUME NEW c \in Node, NEW n \in Node, InsertAfter(c, n) PROVE Reported
  <2>1. n # c /\ tree.parent[c] \in Node
    BY <1>0, <1>5 DEF InsertAfter, Loose, Tree, Pointer
  <2>2. \A m \in Node : tree'.parent[m] = IF m = n THEN tree.parent[c]
                                            ELSE tree.parent[m]
    BY <1>0, <1>5, <2>1, LinkAfterFields DEF InsertAfter, Linked
  <2> QED BY <1>5, <2>1, <2>2, LooseReported DEF InsertAfter, Linked, Loose
<1>6. ASSUME NEW p \in Node, NEW n \in Node, AppendChild(p, n) PROVE Reported
  BY <1>6, PreInsertReported DEF AppendChild, Pointer
<1>7. ASSUME NEW p \in Node, NEW n \in Node, NEW c \in Node,
             InsertBeforeSpec(p, n, c)
      PROVE  Reported
  BY <1>7, PreInsertReported DEF InsertBeforeSpec, Pointer
<1>8. ASSUME NEW p \in Node, NEW n \in Node, RemoveChild(p, n) PROVE Reported
  BY <1>8, QuietReported, UnlinkReported DEF RemoveChild, Reject
<1> QED
  BY <1>1, <1>2, <1>3, <1>4, <1>5, <1>6, <1>7, <1>8, ReplaceChildReported
     DEF PlainCall, ValidatedCall, ReplaceApart

\* Every step of every behaviour reports exactly what it moved: no callback is
\* missing, for a whole inserted subtree, and none is made for a node that did
\* not move.
THEOREM MovesReported == Spec => NotifiesMoves
<1>1. IInv /\ [Next]_vars => [Reported]_vars
  <2> SUFFICES ASSUME IInv, Next PROVE Reported
    OBVIOUS
  <2> QED BY JobStepReported, CallReported DEF IInv, Next
<1>2. Spec => []IInv
  BY Invariance
<1> QED BY <1>1, <1>2, PTL DEF Spec, NotifiesMoves, Reported

-----------------------------------------------------------------------------
(* Walks.                                                                  *)

\* A walk is inside every closed set that it starts in, and is one itself.
LEMMA ReachClosed ==
    ASSUME NEW f \in [Node -> Pointer], NEW a \in Node
    PROVE  /\ a \in Reach(f, a)
           /\ ClosedUnder(f, Reach(f, a))
           /\ Reach(f, a) \in SUBSET Node
           /\ \A C \in SUBSET Node :
                a \in C /\ ClosedUnder(f, C) => Reach(f, a) \subseteq C
<1>1. /\ a \in Reach(f, a) /\ Reach(f, a) \in SUBSET Node
      /\ \A C \in SUBSET Node :
                a \in C /\ ClosedUnder(f, C) => Reach(f, a) \subseteq C
  BY DEF Reach
<1>2. ASSUME NEW m \in Reach(f, a), f[m] # NULL PROVE f[m] \in Reach(f, a)
  BY <1>1, <1>2 DEF Reach, ClosedUnder, Pointer
<1> QED BY <1>1, <1>2 DEF ClosedUnder

\* What a walk from a meets, a walk from there continues.
LEMMA ReachTransitive ==
    ASSUME NEW f \in [Node -> Pointer], NEW a \in Node, NEW b \in Reach(f, a)
    PROVE  b \in Node /\ Reach(f, b) \subseteq Reach(f, a)
  BY ReachClosed

\* After its first node a walk is the walk of the successor.
LEMMA ReachNext ==
    ASSUME NEW f \in [Node -> Pointer], NEW a \in Node, NEW b \in Reach(f, a), b # a
    PROVE  f[a] \in Node /\ b \in Reach(f, f[a])
<1>1. CASE f[a] = NULL
  <2>1. {a} \in SUBSET Node /\ a \in {a} /\ ClosedUnder(f, {a})
    BY <1>1 DEF ClosedUnder
  <2> QED BY <2>1, ReachClosed
<1>2. CASE f[a] # NULL
  <2> DEFINE C == {a} \cup Reach(f, f[a])
  <2>1. f[a] \in Node
    BY <1>2 DEF Pointer
  <2>2. /\ f[a] \in Reach(f, f[a]) /\ ClosedUnder(f, Reach(f, f[a]))
        /\ Reach(f, f[a]) \in SUBSET Node
    BY <2>1, ReachClosed
  <2>3. C \in SUBSET Node /\ a \in C /\ ClosedUnder(f, C)
    BY <2>2 DEF ClosedUnder
  <2> QED BY <2>1, <2>3, ReachClosed
<1> QED BY <1>1, <1>2

\* A node that leads to b follows from what b follows.
LEMMA ReachStep ==
    ASSUME NEW f \in [Node -> Pointer], NEW a \in Node, NEW m \in Reach(f, a),
           f[m] # NULL
    PROVE  f[m] \in Reach(f, a)
  BY ReachClosed DEF ClosedUnder

-----------------------------------------------------------------------------
(* The order of siblings in consistent links.                              *)

\* A walk along next stays among the children of one parent.
LEMMA FollowingSiblings ==
    ASSUME NEW t \in Tree, Linked5(t), NEW a \in Node, NEW b \in Reach(t.next, a)
    PROVE  b \in Node /\ t.parent[b] = t.parent[a]
<1> DEFINE C == {m \in Node : t.parent[m] = t.parent[a]}
<1>1. a \in C /\ ClosedUnder(t.next, C) /\ C \in SUBSET Node
  BY DEF ClosedUnder, Linked5, SiblingsAgree, Tree, Pointer
<1>2. Reach(t.next, a) \subseteq C
  BY <1>1, ReachClosed DEF Tree
<1> QED BY <1>2

\* The walk from first_child meets exactly the children.
LEMMA ChildrenAre ==
    ASSUME NEW t \in Tree, Linked5(t), NEW p \in Node
    PROVE  Children(t, p) = {m \in Node : t.parent[m] = p}
<1> DEFINE K == {m \in Node : t.parent[m] = p}
           S == {m \in K : m \notin Children(t, p)}
<1>1. Children(t, p) \subseteq K
  <2>1. CASE t.first[p] = NULL
    BY <2>1 DEF Children
  <2>2. CASE t.first[p] # NULL
    <3>1. t.first[p] \in Node /\ t.parent[t.first[p]] = p
      BY <2>2 DEF Tree, Pointer, Linked5, EndsAgree
    <3> QED BY <2>2, <3>1, FollowingSiblings DEF Children
  <2> QED BY <2>1, <2>2
<1>2. S = {}
  <2> SUFFICES ASSUME S # {} PROVE FALSE
    OBVIOUS
  <2>1. PICK k \in S : t.prev[k] \notin S
    BY DEF Linked5, NoCycle
  <2>2. CASE t.prev[k] = NULL
    <3>1. t.first[p] = k
      BY <2>1, <2>2, NullAssumption DEF Linked5, ChildrenListed
    <3>2. k \in Children(t, p)
      BY <2>1, <3>1, NullAssumption, ReachClosed DEF Children, Tree
    <3> QED BY <2>1, <3>2
  <2>3. CASE t.prev[k] # NULL
    <3>1. /\ t.prev[k] \in Node /\ t.next[t.prev[k]] = k
          /\ t.parent[t.prev[k]] = p
      BY <2>1, <2>3 DEF Linked5, SiblingsAgree, Tree, Pointer
    <3>2. t.prev[k] \in Children(t, p)
      BY <2>1, <3>1
    <3>3. k \in Children(t, p)
      <4>1. t.first[p] # NULL /\ t.prev[k] \in Reach(t.next, t.first[p])
        BY <3>2 DEF Children
      <4>2. t.first[p] \in Node /\ t.next \in [Node -> Pointer]
        BY <4>1 DEF Tree, Pointer
      <4>3. k \in Reach(t.next, t.first[p])
        BY <2>1, <3>1, <4>1, <4>2, NullAssumption, ReachStep
      <4> QED BY <4>1, <4>3 DEF Children
    <3> QED BY <2>1, <3>3
  <2> QED BY <2>2, <2>3
<1> QED BY <1>1, <1>2

\* Of two children of one parent, one follows the other.
LEMMA OrderTotal ==
    ASSUME NEW t \in Tree, Linked5(t), NEW a \in Node, NEW b \in Node,
           a # b, t.parent[a] # NULL, t.parent[a] = t.parent[b]
    PROVE  a \in Following(t, b) \/ b \in Following(t, a)
<1> DEFINE p == t.parent[a]
           C == {m \in Node : m \in Reach(t.next, a) \/ a \in Reach(t.next, m)}
<1>0. t.next \in [Node -> Pointer] /\ p \in Node
  BY DEF Tree, Pointer
<1>1. a \in Children(t, p) /\ b \in Children(t, p)
  BY <1>0, ChildrenAre
<1>2. /\ t.first[p] \in Node
      /\ a \in Reach(t.next, t.first[p]) /\ b \in Reach(t.next, t.first[p])
  BY <1>0, <1>1 DEF Children, Tree, Pointer
<1>3. ClosedUnder(t.next, C)
  <2> SUFFICES ASSUME NEW m \in C, t.next[m] # NULL PROVE t.next[m] \in C
    BY DEF ClosedUnder
  <2>0. t.next[m] \in Node
    BY <1>0 DEF Pointer
  <2>1. CASE m \in Reach(t.next, a)
    BY <1>0, <2>0, <2>1, ReachStep
  <2>2. CASE a \in Reach(t.next, m) /\ a # m
    BY <1>0, <2>0, <2>2, ReachNext
  <2>3. CASE a = m
    <3>1. a \in Reach(t.next, a)
      BY <1>0, ReachClosed
    <3> QED BY <1>0, <2>0, <2>3, <3>1, ReachStep
  <2> QED BY <2>1, <2>2, <2>3
<1>4. b \in C
  <2>1. C \in SUBSET Node /\ t.first[p] \in C
    BY <1>2
  <2>2. Reach(t.next, t.first[p]) \subseteq C
    BY <1>0, <1>2, <1>3, <2>1, ReachClosed
  <2> QED BY <1>2, <2>2
<1> QED BY <1>4 DEF Following

\* No node follows one that follows it.
LEMMA OrderAsymmetric ==
    ASSUME NEW t \in Tree, Linked5(t), NEW a \in Node, NEW b \in Following(t, a)
    PROVE  a \notin Following(t, b)
<1> SUFFICES ASSUME a \in Following(t, b) PROVE FALSE
  OBVIOUS
<1> DEFINE S == {m \in Reach(t.next, a) : a \in Reach(t.next, m)}
<1>0. /\ t.next \in [Node -> Pointer]
      /\ a \in Reach(t.next, a) /\ Reach(t.next, a) \in SUBSET Node
  BY ReachClosed DEF Tree
<1>1. b \in Reach(t.next, a) /\ a \in Reach(t.next, b) /\ a # b /\ b \in Node
  BY <1>0 DEF Following
<1>2. ASSUME NEW m \in S PROVE t.next[m] \in S
  <2>1. CASE m = a
    <3>1. t.next[a] \in Node /\ b \in Reach(t.next, t.next[a])
      BY <1>0, <1>1, ReachNext
    <3>2. a \in Reach(t.next, t.next[a])
      BY <1>0, <1>1, <3>1, ReachTransitive
    <3>3. t.next[a] \in Reach(t.next, a)
      BY <1>0, <3>1, NullAssumption, ReachStep
    <3> QED BY <2>1, <3>2, <3>3
  <2>2. CASE m # a
    <3>1. t.next[m] \in Node /\ a \in Reach(t.next, t.next[m])
      BY <1>0, <2>2, ReachNext
    <3>2. t.next[m] \in Reach(t.next, a)
      BY <1>0, <3>1, NullAssumption, ReachStep
    <3> QED BY <3>1, <3>2
  <2> QED BY <2>1, <2>2
<1>3. S # {} /\ S \in SUBSET Node
  BY <1>0
<1> QED BY <1>2, <1>3 DEF Linked5, NoCycle

\* What precedes c along prev is what c follows along next.
LEMMA PrecedingFollows ==
    ASSUME NEW t \in Tree, Linked5(t), NEW c \in Node, NEW a \in Following(t, c)
    PROVE  c \in Preceding(t, a)
<1> DEFINE C == {m \in Node : c \in Reach(t.prev, m)}
<1>0. t.next \in [Node -> Pointer] /\ t.prev \in [Node -> Pointer]
  BY DEF Tree
<1>1. c \in C
  BY <1>0, ReachClosed
<1>2. ASSUME NEW m \in C, t.next[m] # NULL PROVE t.next[m] \in C
  <2>1. t.next[m] \in Node /\ t.prev[t.next[m]] = m
    BY <1>0, <1>2 DEF Linked5, SiblingsAgree, Pointer
  <2>2. m \in Reach(t.prev, t.next[m])
    <3>1. t.next[m] \in Reach(t.prev, t.next[m])
      BY <1>0, <2>1, ReachClosed
    <3> QED BY <1>0, <2>1, <3>1, NullAssumption, ReachStep
  <2>3. c \in Reach(t.prev, t.next[m])
    BY <1>0, <2>1, <2>2, ReachTransitive
  <2> QED BY <2>1, <2>3
<1>3. ClosedUnder(t.next, C) /\ C \in SUBSET Node
  BY <1>2 DEF ClosedUnder
<1>4. Reach(t.next, c) \subseteq C
  BY <1>0, <1>1, <1>3, ReachClosed
<1> QED BY <1>4 DEF Following, Preceding

-----------------------------------------------------------------------------
(* What the primitives do to the order.                                    *)

\* Every walk of f that starts at a is inside a walk of g.
LEMMA WalkKept ==
    ASSUME NEW f \in [Node -> Pointer], NEW g \in [Node -> Pointer], NEW a \in Node,
           \A C \in SUBSET Node : a \in C /\ ClosedUnder(g, C) => ClosedUnder(f, C)
    PROVE  Reach(f, a) \subseteq Reach(g, a)
<1>1. /\ Reach(g, a) \in SUBSET Node
      /\ a \in Reach(g, a) /\ ClosedUnder(g, Reach(g, a))
  BY ReachClosed
<1>2. ClosedUnder(f, Reach(g, a))
  BY <1>1
<1> QED BY <1>1, <1>2 DEF Reach

\* Taking n out leaves the other nodes in their order.
LEMMA UnlinkOrder ==
    ASSUME NEW t \in Tree, Linked5(t), NEW n \in Node,
           NEW a \in Node \ {n}, NEW b \in Following(t, a), b # n
    PROVE  b \in Following(Unlink(t, n), a)
<1> DEFINE u == Unlink(t, n)
           f == t.next
           g == u.next
<1>0. /\ f \in [Node -> Pointer] /\ g \in [Node -> Pointer]
      /\ \A m \in Node : g[m] = IF m = n THEN NULL
                              ELSE IF m = t.prev[n] THEN f[n] ELSE f[m]
      /\ t.prev[n] # NULL => f[t.prev[n]] = n
      /\ \A m \in Node : f[m] # NULL => t.prev[f[m]] = m
  BY UnlinkFields DEF Tree, Linked5, SiblingsAgree
<1>1. t.prev[n] \in Pointer
  BY DEF Tree
<1>2. b \in Reach(f, a) /\ b # a
  BY DEF Following
<1> HIDE DEF f, g
<1>3. ASSUME NEW C \in SUBSET Node, a \in C, ClosedUnder(g, C) PROVE b \in C
  <2> DEFINE D == C \ {n}
             E == IF \E m \in D : f[m] = n THEN D \cup {n} ELSE D
  <2>1. \A m \in Node : g[m] # n
    BY <1>0, <1>1, NullAssumption DEF Pointer
  <2>2. \A m \in D : g[m] # NULL => g[m] \in D
    BY <1>3, <2>1 DEF ClosedUnder
  <2>3. ASSUME NEW m \in E, f[m] # NULL PROVE f[m] \in E
    <3>1. CASE m \in D
      <4>1. CASE f[m] = n
        BY <3>1, <4>1
      <4>2. CASE f[m] # n
        <5>1. m # t.prev[n]
          BY <1>0, <3>1, <4>2, NullAssumption
        <5>2. g[m] = f[m]
          BY <1>0, <3>1, <5>1
        <5> QED BY <2>2, <2>3, <3>1, <5>2
      <4> QED BY <4>1, <4>2
    <3>2. CASE m \notin D
      <4>1. m = n /\ \E k \in D : f[k] = n
        BY <2>3, <3>2
      <4>2. PICK k \in D : f[k] = n
        BY <4>1
      <4>3. k = t.prev[n] /\ g[k] = f[n]
        BY <1>0, <4>2, NullAssumption
      <4> QED BY <2>2, <2>3, <4>1, <4>2, <4>3
    <3> QED BY <3>1, <3>2
  <2>4. E \in SUBSET Node /\ a \in E /\ ClosedUnder(f, E)
    BY <1>3, <2>3 DEF ClosedUnder
  <2>5. Reach(f, a) \subseteq E
    BY <1>0, <2>4, ReachClosed
  <2> QED BY <1>2, <2>5
<1>4. b \in Reach(g, a)
  BY <1>2, <1>3 DEF Reach, Following
<1> QED BY <1>2, <1>4 DEF Following, g

\* A loose node that is appended follows all other children of p.
LEMMA LinkLastOrder ==
    ASSUME NEW t \in Tree, Linked5(t), NEW p \in Node, NEW n \in Node,
           t.parent[n] = NULL, ~IsInclusiveAncestor(t, n, p),
           NEW a \in Node \ {n}
    PROVE  LET u == LinkLast(t, p, n) IN
           /\ \A b \in Following(t, a) : b \in Following(u, a)
           /\ t.parent[a] = p => n \in Following(u, a)
<1> DEFINE u == LinkLast(t, p, n)
           f == t.next
           g == u.next
           l == t.last[p]
<1>0. /\ f \in [Node -> Pointer] /\ g \in [Node -> Pointer] /\ l \in Pointer
      /\ \A m \in Node : g[m] = IF m = n THEN NULL ELSE IF m = l THEN n ELSE f[m]
      /\ f[n] = NULL /\ (l # NULL => f[l] = NULL)
  <2>1. u \in Tree /\ \A m \in Node :
          g[m] = IF m = n THEN NULL ELSE IF m = l THEN n ELSE f[m]
    BY LinkLastFields
  <2>2. f[n] = NULL /\ (l # NULL => f[l] = NULL)
    BY LooseFacts DEF Linked5, EndsAgree
  <2> QED BY <2>1, <2>2 DEF Tree
<1> HIDE DEF f, g
<1>1. Reach(f, a) \subseteq Reach(g, a)
  <2>1. \A C \in SUBSET Node : ClosedUnder(g, C) => ClosedUnder(f, C)
    <3>1. \A m \in Node : f[m] # NULL => g[m] = f[m]
      BY <1>0, NullAssumption
    <3> QED BY <3>1 DEF ClosedUnder
  <2> QED BY <1>0, <2>1, WalkKept
<1>2. ASSUME t.parent[a] = p PROVE n \in Reach(g, a)
  <2>1. l \in Node /\ t.parent[l] = p
    BY <1>0, <1>2, HasLast DEF Linked5, EndsAgree, Pointer
  <2>2. l \in Reach(f, a)
    <3>1. CASE a = l
      BY <1>0, <3>1, ReachClosed
    <3>2. CASE a # l
      <4>1. a \notin Following(t, l)
        BY <1>0, <2>1, <3>2, NullAssumption, ReachNext DEF Following, f
      <4> QED BY <1>2, <2>1, <3>2, <4>1, NullAssumption, OrderTotal DEF Following, f
    <3> QED BY <3>1, <3>2
  <2>3. g[l] = n
    <3>1. t.parent[n] # t.parent[l]
      BY <2>1, NullAssumption
    <3> QED BY <1>0, <2>1, <3>1
  <2> QED BY <1>0, <1>1, <2>2, <2>3, NullAssumption, ReachStep
<1> QED BY <1>1, <1>2 DEF Following, f, g

\* A loose node that is put before c follows what c follows and precedes c.
LEMMA LinkBeforeOrder ==
    ASSUME NEW t \in Tree, Linked5(t), NEW c \in Node, NEW n \in Node, n # c,
           t.parent[n] = NULL, t.parent[c] # NULL,
           ~IsInclusiveAncestor(t, n, t.parent[c]), NEW a \in Node \ {n}
    PROVE  LET u == LinkBefore(t, c, n) IN
           /\ \A b \in Following(t, a) : b \in Following(u, a)
           /\ c \in Following(t, a) => n \in Following(u, a)
           /\ a = c \/ a \in Following(t, c) => a \in Following(u, n)
<1> DEFINE u == LinkBefore(t, c, n)
           f == t.next
           g == u.next
<1>0. /\ f \in [Node -> Pointer] /\ g \in [Node -> Pointer] /\ t.prev[c] \in Pointer
      /\ \A m \in Node : g[m] = IF m = n THEN c
                              ELSE IF m = t.prev[c] THEN n ELSE f[m]
      /\ t.parent[c] \in Node
  BY LinkBeforeFields DEF Tree, Pointer
<1>a. /\ f[n] = NULL
      /\ t.prev[c] # NULL => f[t.prev[c]] = c
      /\ \A m \in Node : f[m] # n
  BY <1>0, LooseFacts DEF Linked5, SiblingsAgree
<1> HIDE DEF f, g
<1>1. Reach(f, a) \subseteq Reach(g, a) /\ Reach(f, c) \subseteq Reach(g, c)
  <2>1. \A C \in SUBSET Node : ClosedUnder(g, C) => ClosedUnder(f, C)
    <3> SUFFICES ASSUME NEW C \in SUBSET Node, ClosedUnder(g, C),
                        NEW m \in C, f[m] # NULL
                 PROVE  f[m] \in C
      BY DEF ClosedUnder
    <3>1. CASE m = t.prev[c]
      <4>1. f[m] = c /\ g[m] = n /\ g[n] = c
        BY <1>0, <1>a, <3>1, NullAssumption
      <4> QED BY <1>0, <4>1, NullAssumption DEF ClosedUnder
    <3>2. CASE m # t.prev[c]
      <4>1. m # n
        BY <1>a
      <4> QED BY <1>0, <3>2, <4>1 DEF ClosedUnder
    <3> QED BY <3>1, <3>2
  <2> QED BY <1>0, <2>1, WalkKept
<1>2. ASSUME c \in Following(t, a) PROVE n \in Reach(g, a)
  <2>1. t.prev[c] \in Node /\ t.prev[c] \in Reach(f, a)
    <3> DEFINE S == {m \in Reach(f, a) : m = c => m = a}
    <3>1. ASSUME t.prev[c] \notin Reach(f, a) PROVE FALSE
      <4>1. ClosedUnder(f, S) /\ S \in SUBSET Node /\ a \in S
        <5>1. \A m \in S : f[m] # NULL => f[m] \in Reach(f, a)
          BY <1>0, ReachStep
        <5>2. \A m \in S : f[m] # c
          BY <1>0, <3>1, NullAssumption DEF S, Linked5, SiblingsAgree, Reach, f
        <5> QED BY <1>0, <5>1, <5>2, ReachClosed DEF ClosedUnder
      <4>2. Reach(f, a) \subseteq S
        BY <1>0, <4>1, ReachClosed
      <4> QED BY <1>2, <4>2 DEF Following, f
    <3> QED BY <1>0, <3>1 DEF Reach
  <2>2. g[t.prev[c]] = n
    BY <1>0, <1>a, <2>1, NullAssumption
  <2> QED BY <1>0, <1>1, <2>1, <2>2, NullAssumption, ReachStep
<1>3. ASSUME a = c \/ a \in Following(t, c) PROVE a \in Reach(g, n)
  <2>1. a \in Reach(g, c)
    BY <1>0, <1>1, <1>3, ReachClosed DEF Following, f
  <2>2. g[n] = c /\ c \in Reach(g, n)
    BY <1>0, NullAssumption, ReachClosed, ReachStep
  <2> QED BY <1>0, <2>1, <2>2, ReachTransitive
<1> QED BY <1>1, <1>2, <1>3 DEF Following, f, g

\* What insert_node does to the order: the other nodes keep theirs, and n stands
\* behind all children of p, or right in front of c.
LEMMA InsertNodeOrder ==
    ASSUME NEW t \in Tree, Linked5(t), NEW p \in Node, NEW n \in Node,
           NEW c \in Pointer, Insertable(t, p, n, c), NEW a \in Node \ {n}
    PROVE  LET u == InsertNode(t, p, n, c) IN
           /\ \A b \in Following(t, a) \ {n} : b \in Following(u, a)
           /\ c = NULL /\ t.parent[a] = p => n \in Following(u, a)
           /\ c # NULL /\ c \in Following(t, a) => n \in Following(u, a)
           /\ c # NULL /\ (a = c \/ a \in Following(t, c)) => a \in Following(u, n)
<1> DEFINE v == Adopt(t, n)
           u == InsertNode(t, p, n, c)
<1>1. /\ v \in Tree /\ Linked5(v)
      /\ \A m \in Node : v.parent[m] = IF m = n THEN NULL ELSE t.parent[m]
  BY AdoptFacts
<1>2. ~IsInclusiveAncestor(v, n, p)
  BY UnlinkKeepsLoose DEF Adopt, Insertable
<1>3. \A x \in Node \ {n} : \A b \in Following(t, x) \ {n} : b \in Following(v, x)
  BY UnlinkOrder DEF Adopt
<1> HIDE DEF v
<1>4. CASE c = NULL
  <2>1. u = LinkLast(v, p, n)
    BY <1>4 DEF InsertNode, v
  <2>2. /\ \A b \in Following(v, a) : b \in Following(u, a)
        /\ v.parent[a] = p => n \in Following(u, a)
    BY <1>1, <1>2, <2>1, LinkLastOrder
  <2> QED BY <1>1, <1>3, <1>4, <2>2
<1>5. CASE c # NULL
  <2>1. u = LinkBefore(v, c, n) /\ c \in Node /\ c # n /\ v.parent[c] = p
    BY <1>1, <1>5 DEF InsertNode, v, Pointer, Insertable
  <2>2. /\ v.parent[n] = NULL /\ v.parent[c] # NULL
        /\ ~IsInclusiveAncestor(v, n, v.parent[c])
    BY <1>1, <1>2, <2>1, NullAssumption
  <2>3. /\ \A b \in Following(v, a) : b \in Following(u, a)
        /\ c \in Following(v, a) => n \in Following(u, a)
        /\ a = c \/ a \in Following(v, c) => a \in Following(u, n)
    BY <1>1, <2>1, <2>2, LinkBeforeOrder
  <2>4. /\ c \in Following(t, a) => c \in Following(v, a)
        /\ a \in Following(t, c) => a \in Following(v, c)
    BY <1>3, <2>1
  <2> QED BY <1>3, <1>5, <2>3, <2>4
<1> QED BY <1>4, <1>5

-----------------------------------------------------------------------------
(* The inductive invariant.                                                *)

Kind(t, d, ty) == {m \in Node : t.parent[m] = d /\ NodeType[m] = ty}

AtMostOne(S) == \A x \in S : \A y \in S : x = y

\* DocumentShape of the document d in the tree t, without counting.
Shaped(t, d) ==
    /\ Kind(t, d, "text") = {}
    /\ AtMostOne(Kind(t, d, "element"))
    /\ AtMostOne(Kind(t, d, "doctype"))
    /\ \A e \in Kind(t, d, "element"), y \in Kind(t, d, "doctype") :
          e \in Following(t, y)

\* An element may go into d in front of c, or at the end.
Gap(t, d, c) ==
    /\ Kind(t, d, "element") = {}
    /\ c # NULL => \A y \in Kind(t, d, "doctype") : c \in Following(t, y)

\* What is left of the fragment g may go into d in front of c.
RestFits(t, d, g, c) ==
    /\ Kind(t, g, "text") = {}
    /\ AtMostOne(Kind(t, g, "element"))
    /\ Kind(t, g, "element") # {} => Gap(t, d, c)

\* No fragment is a child, and a doctype is the child of a document only.
Placed(t) ==
    \A n \in Node : t.parent[n] # NULL =>
        /\ NodeType[n] # "fragment"
        /\ NodeType[n] = "doctype" => NodeType[t.parent[n]] = "document"

AllShaped(t) == \A d \in Node : NodeType[d] = "document" => Shaped(t, d)

\* Documents have their shape, and a loop that is inserting a fragment into a
\* document has only children left that were checked for.
DocInv ==
    /\ AllShaped(tree)
    /\ Placed(tree)
    /\ job.kind \in {"idle", "insert", "clear"}
    /\ job.kind = "insert" =>
          /\ NodeType[job.root] = "fragment"
          /\ NodeType[job.parent] = "document"
                => RestFits(tree, job.parent, job.root, job.mark)

\* Taking a node out of whatever contains it.
LEMMA UnlinkShaped ==
    ASSUME NEW t \in Tree, Linked5(t), NEW n \in Node, AllShaped(t), Placed(t)
    PROVE  AllShaped(Unlink(t, n)) /\ Placed(Unlink(t, n))
<1> DEFINE u == Unlink(t, n)
<1>1. \A m \in Node : u.parent[m] = IF m = n THEN NULL ELSE t.parent[m]
  BY UnlinkFields
<1>2. \A a \in Node \ {n} : \A b \in Following(t, a) \ {n} : b \in Following(u, a)
  BY UnlinkOrder
<1> HIDE DEF u
<1>3. \A d \in Node : \A ty : Kind(u, d, ty) = Kind(t, d, ty) \ {n}
  BY <1>1, NullAssumption DEF Kind
<1>4. ASSUME NEW d \in Node, NodeType[d] = "document" PROVE Shaped(u, d)
  <2>1. Shaped(t, d)
    BY <1>4 DEF AllShaped
  <2>2. \A e \in Kind(u, d, "element"), y \in Kind(u, d, "doctype") :
           e \in Following(u, y)
    BY <1>2, <1>3, <2>1 DEF Shaped, Kind
  <2> QED BY <1>3, <2>1, <2>2 DEF Shaped, AtMostOne
<1>5. Placed(u)
  BY <1>1 DEF Placed
<1> QED BY <1>4, <1>5 DEF AllShaped, u

\* What the check of a document makes sure of, when n is not a fragment.
NodeFits(t, d, n, c) ==
    /\ NodeType[n] # "text"
    /\ NodeType[n] = "element" => Gap(t, d, c)
    /\ NodeType[n] = "doctype" =>
          /\ Kind(t, d, "doctype") = {}
          /\ \A e \in Kind(t, d, "element") :
                c # NULL /\ (e = c \/ e \in Following(t, c))

\* Inserting a node into d after that check.
LEMMA InsertShaped ==
    ASSUME NEW t \in Tree, Linked5(t), NEW d \in Node, NEW n \in Node,
           NEW c \in Pointer, Insertable(t, d, n, c),
           Shaped(t, d), NodeFits(t, d, n, c)
    PROVE  Shaped(InsertNode(t, d, n, c), d)
<1> DEFINE u == InsertNode(t, d, n, c)
<1>1. \A m \in Node : u.parent[m] = IF m = n THEN d ELSE t.parent[m]
  BY InsertNodeLinked DEF Insertable
<1>2. \A a \in Node \ {n} :
        /\ \A b \in Following(t, a) \ {n} : b \in Following(u, a)
        /\ c = NULL /\ t.parent[a] = d => n \in Following(u, a)
        /\ c # NULL /\ c \in Following(t, a) => n \in Following(u, a)
        /\ c # NULL /\ (a = c \/ a \in Following(t, c)) => a \in Following(u, n)
  BY InsertNodeOrder
<1> HIDE DEF u
<1>3. \A ty : Kind(u, d, ty) = IF NodeType[n] = ty THEN Kind(t, d, ty) \cup {n}
                              ELSE Kind(t, d, ty)
  BY <1>1 DEF Kind
<1>4. /\ Kind(u, d, "text") = {}
      /\ AtMostOne(Kind(u, d, "element"))
      /\ AtMostOne(Kind(u, d, "doctype"))
  BY <1>3 DEF Shaped, NodeFits, Gap, AtMostOne
<1>5. ASSUME NEW e \in Kind(u, d, "element"), NEW y \in Kind(u, d, "doctype")
      PROVE  e \in Following(u, y)
  <2>0. /\ e \in Node /\ NodeType[e] = "element"
        /\ y \in Node /\ NodeType[y] = "doctype"
    BY DEF Kind
  <2>1. CASE e = n
    <3>1. y \in Kind(t, d, "doctype") /\ y # n /\ t.parent[y] = d
      BY <1>3, <2>0, <2>1 DEF Kind
    <3>2. c # NULL => c \in Following(t, y)
      BY <2>0, <2>1, <3>1 DEF NodeFits, Gap
    <3> QED BY <1>2, <2>0, <2>1, <3>1, <3>2
  <2>2. CASE y = n
    <3>1. e \in Kind(t, d, "element") /\ e # n
      BY <1>3, <2>0, <2>2
    <3>2. c # NULL /\ (e = c \/ e \in Following(t, c))
      BY <2>0, <2>2, <3>1 DEF NodeFits
    <3> QED BY <1>2, <2>0, <2>2, <3>1, <3>2
  <2>3. CASE e # n /\ y # n
    <3>1. e \in Kind(t, d, "element") /\ y \in Kind(t, d, "doctype")
      BY <1>3, <2>3
    <3> QED BY <1>2, <2>0, <2>3, <3>1 DEF Shaped
  <2> QED BY <2>1, <2>2, <2>3
<1> QED BY <1>4, <1>5 DEF Shaped, u

\* Inserting a node into p, for all documents and all children.
LEMMA InsertAllShaped ==
    ASSUME NEW t \in Tree, Linked5(t), NEW p \in Node, NEW n \in Node,
           NEW c \in Pointer, Insertable(t, p, n, c), AllShaped(t), Placed(t),
           NodeType[n] # "fragment",
           NodeType[n] = "doctype" => NodeType[p] = "document",
           NodeType[p] = "document" => NodeFits(t, p, n, c)
    PROVE  LET u == InsertNode(t, p, n, c) IN AllShaped(u) /\ Placed(u)
<1> DEFINE u == InsertNode(t, p, n, c)
<1>1. \A m \in Node : u.parent[m] = IF m = n THEN p ELSE t.parent[m]
  BY InsertNodeLinked DEF Insertable
<1>2. \A a \in Node \ {n} : \A b \in Following(t, a) \ {n} : b \in Following(u, a)
  BY InsertNodeOrder
<1>3. NodeType[p] = "document" => Shaped(u, p)
  BY InsertShaped DEF AllShaped
<1> HIDE DEF u
<1>4. ASSUME NEW d \in Node, NodeType[d] = "document", d # p PROVE Shaped(u, d)
  <2>1. Shaped(t, d)
    BY <1>4 DEF AllShaped
  <2>2. \A ty : Kind(u, d, ty) = Kind(t, d, ty) \ {n}
    BY <1>1, <1>4 DEF Kind
  <2>3. \A e \in Kind(u, d, "element"), y \in Kind(u, d, "doctype") :
           e \in Following(u, y)
    BY <1>2, <2>1, <2>2 DEF Shaped, Kind
  <2> QED BY <2>1, <2>2, <2>3 DEF Shaped, AtMostOne
<1>5. Placed(u)
  BY <1>1 DEF Placed
<1> QED BY <1>3, <1>4, <1>5 DEF AllShaped, u

-----------------------------------------------------------------------------
(* What lxb_dom_node_pre_insert_validity makes sure of in a document.      *)

\* The lists of children are finite, so that counting to one means what it says.
LEMMA AtMostOneIs ==
    ASSUME NEW S \in SUBSET Node
    PROVE  Cardinality(S) <= 1 <=> AtMostOne(S)
<1>0. IsFiniteSet(S)
  BY FiniteAssumption, FS_Subset
<1>1. ASSUME Cardinality(S) <= 1, NEW x \in S, NEW y \in S PROVE x = y
  <2>1. CASE Cardinality(S) = 1
    <3>1. PICK z : S = {z}
      BY <1>0, <2>1, FS_Singleton
    <3> QED BY <3>1
  <2>2. CASE Cardinality(S) = 0
    BY <1>0, <2>2, FS_EmptySet
  <2> QED BY <1>0, <1>1, <2>1, <2>2, FS_CardinalityType
<1>2. ASSUME AtMostOne(S) PROVE Cardinality(S) <= 1
  <2>1. CASE S = {}
    BY <2>1, FS_EmptySet
  <2>2. CASE S # {}
    <3>1. PICK x \in S : S = {x}
      BY <1>2, <2>2 DEF AtMostOne
    <3> QED BY <3>1, FS_Singleton
  <2> QED BY <2>1, <2>2
<1> QED BY <1>1, <1>2 DEF AtMostOne

\* No element in d, and no doctype at c or behind it: there is a gap before c.
LEMMA ElementGap ==
    ASSUME NEW t \in Tree, Linked5(t), NEW d \in Node, NEW c \in Pointer,
           c # NULL => t.parent[c] = d, ElementFits(t, d, c)
    PROVE  Gap(t, d, c)
<1>1. Kind(t, d, "element") = {}
  BY ChildrenAre DEF ElementFits, HasType, Kind
<1>2. ASSUME c # NULL, NEW y \in Kind(t, d, "doctype") PROVE c \in Following(t, y)
  <2>1. c \in Node /\ t.parent[c] = d /\ NodeType[c] # "doctype"
    BY <1>2 DEF ElementFits, Pointer
  <2>2. y \in Node /\ t.parent[y] = d /\ NodeType[y] = "doctype"
    BY <1>2 DEF Kind
  <2>3. y \notin Following(t, c)
    BY <1>2, <2>2 DEF ElementFits, HasType
  <2> QED BY <2>1, <2>2, <2>3, NullAssumption, OrderTotal
<1> QED BY <1>1, <1>2 DEF Gap

\* No element in front of c: every element is c or behind it.
LEMMA DoctypeGap ==
    ASSUME NEW t \in Tree, Linked5(t), NEW d \in Node, NEW c \in Pointer,
           c # NULL => t.parent[c] = d, DoctypeFits(t, d, c)
    PROVE  /\ Kind(t, d, "doctype") = {}
           /\ \A e \in Kind(t, d, "element") :
                 c # NULL /\ (e = c \/ e \in Following(t, c))
<1>1. /\ Kind(t, d, "doctype") = {}
      /\ c = NULL => Kind(t, d, "element") = {}
  BY ChildrenAre DEF DoctypeFits, HasType, Kind
<1>2. ASSUME c # NULL, NEW e \in Kind(t, d, "element"), e # c
      PROVE  e \in Following(t, c)
  <2>1. c \in Node /\ t.parent[c] = d
    BY <1>2 DEF Pointer
  <2>2. e \in Node /\ t.parent[e] = d /\ NodeType[e] = "element"
    BY <1>2 DEF Kind
  <2>3. e \notin Preceding(t, c)
    BY <1>2, <2>2 DEF DoctypeFits, HasType
  <2>4. c \notin Following(t, e)
    BY <2>2, <2>3, PrecedingFollows
  <2> QED BY <1>2, <2>1, <2>2, <2>4, NullAssumption, OrderTotal
<1> QED BY <1>1, <1>2

\* An accepted node fits where pre_insert puts it: in front of its own next
\* sibling when it is to go in front of itself.
LEMMA AcceptedFits ==
    ASSUME NEW t \in Tree, Linked5(t), NEW d \in Node, NEW n \in Node,
           NEW c \in Pointer, PreInsertValidity(t, d, n, c) = Ok,
           NodeType[d] = "document", NodeType[n] # "fragment"
    PROVE  NodeFits(t, d, n, IF c = n THEN t.next[n] ELSE c)
<1>1. /\ c # NULL => t.parent[c] = d
      /\ NodeType[n] # "text" /\ FitsDocument(t, d, n, c)
  BY DEF PreInsertValidity, Ok, Hierarchy, NotFound
<1>2. CASE NodeType[n] \notin {"element", "doctype"}
  BY <1>1, <1>2 DEF NodeFits
<1>3. CASE NodeType[n] = "element"
  <2>1. Gap(t, d, c)
    BY <1>1, <1>3, ElementGap DEF FitsDocument
  <2>2. c # n
    BY <1>1, <1>3, <2>1, NullAssumption DEF Gap, Kind
  <2> QED BY <1>3, <2>1, <2>2 DEF NodeFits
<1>4. CASE NodeType[n] = "doctype"
  <2>1. /\ Kind(t, d, "doctype") = {}
        /\ \A e \in Kind(t, d, "element") :
              c # NULL /\ (e = c \/ e \in Following(t, c))
    BY <1>1, <1>4, DoctypeGap DEF FitsDocument
  <2>2. c # n
    BY <1>1, <1>4, <2>1, NullAssumption DEF Kind
  <2> QED BY <1>4, <2>1, <2>2 DEF NodeFits
<1> QED BY <1>2, <1>3, <1>4

\* The children of an accepted fragment fit.
LEMMA AcceptedRestFits ==
    ASSUME NEW t \in Tree, Linked5(t), NEW d \in Node, NEW n \in Node,
           NEW c \in Pointer, PreInsertValidity(t, d, n, c) = Ok,
           NodeType[d] = "document", NodeType[n] = "fragment"
    PROVE  RestFits(t, d, n, c)
<1> DEFINE elements == {m \in Children(t, n) : NodeType[m] = "element"}
<1>1. (c # NULL => t.parent[c] = d) /\ FragmentFits(t, d, n, c)
  BY DEF PreInsertValidity, FitsDocument, Ok, Hierarchy, NotFound
<1>2. Kind(t, n, "text") = {} /\ elements = Kind(t, n, "element")
  BY <1>1, ChildrenAre DEF FragmentFits, HasType, Kind
<1>3. AtMostOne(elements)
  <2>1. elements \in SUBSET Node /\ Cardinality(elements) <= 1
    BY <1>1, <1>2 DEF FragmentFits, Kind
  <2> HIDE DEF elements
  <2> QED BY <2>1, AtMostOneIs
<1>4. elements # {} => Gap(t, d, c)
  BY <1>1, ElementGap DEF FragmentFits
<1> QED BY <1>2, <1>3, <1>4 DEF RestFits

\* What acceptance means for every parent.
LEMMA AcceptedPlaced ==
    ASSUME NEW t \in Tree, NEW p \in Node, NEW n \in Node, NEW c \in Pointer,
           PreInsertValidity(t, p, n, c) = Ok
    PROVE  NodeType[n] = "doctype" => NodeType[p] = "document"
  BY DEF PreInsertValidity, Ok, Hierarchy, NotFound

-----------------------------------------------------------------------------
(* Where replace_child puts what the check has accepted in the place of c: *)
(* in front of c's previous sibling, or of the next one when c is first.   *)

\* What follows y has a previous sibling, which is y or follows y too.
LEMMA PrevReached ==
    ASSUME NEW t \in Tree, Linked5(t), NEW y \in Node, NEW c \in Following(t, y)
    PROVE  t.prev[c] \in Reach(t.next, y)
<1> DEFINE C == Reach(t.next, y) \ {c}
<1>0. /\ t.next \in [Node -> Pointer] /\ c \in Reach(t.next, y) /\ c # y
      /\ Reach(t.next, y) \in SUBSET Node /\ y \in Reach(t.next, y)
      /\ ClosedUnder(t.next, Reach(t.next, y))
  BY ReachClosed DEF Tree, Following
<1>1. ~ClosedUnder(t.next, C)
  <2>1. C \in SUBSET Node /\ y \in C /\ c \notin C
    BY <1>0
  <2> HIDE DEF C
  <2> QED BY <1>0, <2>1, ReachClosed
<1>2. PICK m \in Reach(t.next, y) : t.next[m] = c
  BY <1>0, <1>1 DEF ClosedUnder
<1>3. m \in Node /\ c \in Node /\ c # NULL
  BY <1>0, <1>2, NullAssumption
<1> QED BY <1>2, <1>3 DEF Linked5, SiblingsAgree

LEMMA BeforeIs ==
    ASSUME tree \in Tree, Linked5(tree), NEW c \in Node
    PROVE  Before(c) \in Pointer /\ Before(c) # c
<1>1. \E m \in {c} : tree.next[m] \notin {c}
  BY DEF Linked5, NoCycle
<1> QED BY <1>1, NullAssumption DEF Before, Tree, Linked5, SiblingsAgree

\* A gap in front of c is one in front of its previous sibling, unless that is
\* the doctype.
LEMMA ReplacedGap ==
    ASSUME tree \in Tree, Linked5(tree), NEW d \in Node, NEW c \in Node,
           Gap(tree, d, c), ~BehindDoctype(c)
    PROVE  Gap(Unlink(tree, c), d, Before(c))
<1> DEFINE u == Unlink(tree, c)
<1>0. Before(c) \in Pointer /\ Before(c) # c /\ c # NULL
  BY BeforeIs, NullAssumption
<1>1. \A m \in Node : u.parent[m] = IF m = c THEN NULL ELSE tree.parent[m]
  BY UnlinkFields
<1>2. \A a \in Node \ {c} : \A b \in Following(tree, a) \ {c} : b \in Following(u, a)
  BY UnlinkOrder
<1> HIDE DEF u
<1>3. \A ty : Kind(u, d, ty) \subseteq Kind(tree, d, ty) \ {c}
  BY <1>1, NullAssumption DEF Kind
<1>4. ASSUME NEW y \in Kind(u, d, "doctype") PROVE Before(c) \in Following(u, y)
  <2>1. /\ y \in Node \ {c} /\ NodeType[y] = "doctype"
        /\ c \in Following(tree, y)
    BY <1>0, <1>3 DEF Gap, Kind
  <2>2. tree.prev[c] \in Reach(tree.next, y) /\ tree.prev[c] \in Node
    BY <2>1, PrevReached, ReachClosed DEF Tree
  <2>3. Before(c) = tree.prev[c] /\ Before(c) # y
    BY <2>1, <2>2, NullAssumption DEF Before, BehindDoctype
  <2>4. Before(c) \in Following(tree, y) \ {c}
    BY <1>0, <2>2, <2>3 DEF Following
  <2> QED BY <1>2, <2>1, <2>4
<1>5. Kind(u, d, "element") = {}
  BY <1>3 DEF Gap
<1> QED BY <1>4, <1>5 DEF Gap, u

\* When no element is in front of c, none is in front of its neighbours.
LEMMA ReplacedBehind ==
    ASSUME tree \in Tree, Linked5(tree), NEW c \in Node, NEW e \in Following(tree, c)
    PROVE  /\ Before(c) # NULL
           /\ e = Before(c) \/ e \in Following(Unlink(tree, c), Before(c))
<1> DEFINE b == Before(c)
<1>0. /\ tree.next \in [Node -> Pointer] /\ tree.prev \in [Node -> Pointer]
      /\ e \in Reach(tree.next, c) /\ e # c
  BY DEF Tree, Following
<1>1. tree.next[c] \in Node /\ e \in Reach(tree.next, tree.next[c])
  BY <1>0, ReachNext
<1>2. b \in Node /\ e \in Reach(tree.next, b)
  <2>1. CASE tree.prev[c] = NULL
    BY <1>1, <2>1 DEF Before
  <2>2. CASE tree.prev[c] # NULL
    <3>1. b = tree.prev[c] /\ b \in Node /\ tree.next[b] = c
      BY <1>0, <2>2 DEF Before, Pointer, Linked5, SiblingsAgree
    <3> HIDE DEF b
    <3>2. b \in Reach(tree.next, b)
      BY <1>0, <3>1, ReachClosed
    <3>3. c \in Reach(tree.next, b)
      BY <1>0, <3>1, <3>2, NullAssumption, ReachStep
    <3> QED BY <1>0, <3>1, <3>3, ReachTransitive
  <2> QED BY <2>1, <2>2
<1>3. b # c
  BY BeforeIs
<1> HIDE DEF b
<1>4. e # b => e \in Following(tree, b)
  BY <1>2 DEF Following
<1>5. e # b => e \in Following(Unlink(tree, c), b)
  BY <1>0, <1>2, <1>3, <1>4, UnlinkOrder
<1>6. b # NULL
  BY <1>2, NullAssumption
<1> QED BY <1>5, <1>6 DEF b

\* A node that is accepted in the place of c fits where it is put.
LEMMA ReplacedFits ==
    ASSUME tree \in Tree, Linked5(tree), NEW d \in Node, NEW n \in Node,
           NEW c \in Node, PreInsertValidity(tree, d, n, c) = Ok,
           NodeType[d] = "document", NodeType[n] # "fragment",
           ~(BehindDoctype(c) /\ BringsElement(n))
    PROVE  NodeFits(Unlink(tree, c), d, n, Before(c))
<1> DEFINE u == Unlink(tree, c)
<1>0. c \in Pointer /\ c # NULL
  BY NullAssumption DEF Pointer
<1>1. /\ tree.parent[c] = d
      /\ NodeType[n] # "text" /\ FitsDocument(tree, d, n, c)
  BY <1>0 DEF PreInsertValidity, Ok, Hierarchy, NotFound
<1>2. \A m \in Node : u.parent[m] = IF m = c THEN NULL ELSE tree.parent[m]
  BY UnlinkFields
<1>3. CASE NodeType[n] = "element"
  <2>1. Gap(tree, d, c)
    BY <1>0, <1>1, <1>3, ElementGap DEF FitsDocument
  <2>2. Gap(u, d, Before(c))
    BY <1>3, <2>1, ReplacedGap DEF BringsElement
  <2> QED BY <1>1, <1>3, <2>2 DEF NodeFits
<1>4. CASE NodeType[n] = "doctype"
  <2>1. /\ Kind(tree, d, "doctype") = {}
        /\ \A e \in Kind(tree, d, "element") : e = c \/ e \in Following(tree, c)
    BY <1>0, <1>1, <1>4, DoctypeGap DEF FitsDocument
  <2>2. \A e \in Following(tree, c) :
           Before(c) # NULL /\ (e = Before(c) \/ e \in Following(u, Before(c)))
    BY ReplacedBehind
  <2> HIDE DEF u
  <2>3. \A ty : Kind(u, d, ty) \subseteq Kind(tree, d, ty) \ {c}
    BY <1>2, NullAssumption DEF Kind
  <2>4. Kind(u, d, "doctype") = {}
    BY <2>1, <2>3
  <2>5. \A e \in Kind(u, d, "element") :
           Before(c) # NULL /\ (e = Before(c) \/ e \in Following(u, Before(c)))
    BY <2>1, <2>2, <2>3
  <2> QED BY <1>4, <2>4, <2>5 DEF NodeFits, u
<1>5. CASE NodeType[n] \notin {"element", "doctype"}
  BY <1>1, <1>5 DEF NodeFits
<1> QED BY <1>3, <1>4, <1>5

\* And so do the children of a fragment.
LEMMA ReplacedRestFits ==
    ASSUME tree \in Tree, Linked5(tree), NEW d \in Node, NEW n \in Node,
           NEW c \in Node, PreInsertValidity(tree, d, n, c) = Ok,
           NodeType[d] = "document", NodeType[n] = "fragment",
           ~(BehindDoctype(c) /\ BringsElement(n))
    PROVE  RestFits(Unlink(tree, c), d, n, Before(c))
<1> DEFINE u == Unlink(tree, c)
<1>0. c \in Pointer
  BY DEF Pointer
<1>1. RestFits(tree, d, n, c)
  BY <1>0, AcceptedRestFits
<1>2. \A m \in Node : u.parent[m] = IF m = c THEN NULL ELSE tree.parent[m]
  BY UnlinkFields
<1>3. Gap(tree, d, c) /\ ~BehindDoctype(c) => Gap(u, d, Before(c))
  BY ReplacedGap
<1> HIDE DEF u
<1>4. \A ty : Kind(u, n, ty) \subseteq Kind(tree, n, ty)
  BY <1>2, NullAssumption DEF Kind
<1>5. Kind(u, n, "text") = {} /\ AtMostOne(Kind(u, n, "element"))
  BY <1>1, <1>4 DEF RestFits, AtMostOne
<1>6. ASSUME Kind(u, n, "element") # {} PROVE Gap(u, d, Before(c))
  <2>1. Kind(tree, n, "element") # {}
    BY <1>4, <1>6
  <2>2. HasType(Children(tree, n), "element")
    BY <2>1, ChildrenAre DEF HasType, Kind
  <2> QED BY <1>1, <1>3, <2>1, <2>2 DEF RestFits, BringsElement
<1> QED BY <1>5, <1>6 DEF RestFits, u

-----------------------------------------------------------------------------
(* The invariant is preserved by the calls that validate and their loops.  *)

LEMMA PreInsertDocInv ==
    ASSUME LInv, DocInv, NEW p \in Node, NEW n \in Node, NEW c \in Pointer,
           PreInsertNow(p, n, c)
    PROVE  DocInv'
<1> DEFINE ex == PreInsertValidity(tree, p, n, c)
           r == IF c = n THEN tree.next[n] ELSE c
<1>0. /\ tree \in Tree /\ Linked5(tree) /\ AllShaped(tree) /\ Placed(tree)
  BY DEF LInv, TypeOK, TreeLinked, DocInv
<1>1. CASE ex # Ok
  BY <1>0, <1>1 DEF PreInsertNow, Reject, DocInv, Idle
<1>2. CASE ex = Ok /\ NodeType[n] # "fragment"
  <2>1. tree' = InsertNode(tree, p, n, r) /\ job' = Idle
    BY <1>2 DEF PreInsertNow, Insert
  <2>2. r \in Pointer /\ Insertable(tree, p, n, r)
    BY <1>0, <1>2, AcceptedInsertable
  <2>3. NodeType[p] = "document" => NodeFits(tree, p, n, r)
    BY <1>0, <1>2, AcceptedFits
  <2>4. NodeType[n] = "doctype" => NodeType[p] = "document"
    BY <1>0, <1>2, AcceptedPlaced
  <2> HIDE DEF r
  <2>5. AllShaped(tree') /\ Placed(tree')
    BY <1>0, <1>2, <2>1, <2>2, <2>3, <2>4, InsertAllShaped
  <2> QED BY <2>1, <2>5 DEF DocInv, Idle
<1>3. CASE ex = Ok /\ NodeType[n] = "fragment"
  <2>1. tree' = tree /\ job' = Inserting(p, tree.first[n], r, n)
    BY <1>3 DEF PreInsertNow, Insert
  <2>2. r = c
    BY <1>0, <1>3, ValidityMeans, NullAssumption DEF Placed
  <2>3. NodeType[p] = "document" => RestFits(tree, p, n, c)
    BY <1>0, <1>3, AcceptedRestFits
  <2>4. CASE tree.first[n] = NULL
    BY <1>0, <2>1, <2>4 DEF Inserting, Idle, DocInv
  <2>5. CASE tree.first[n] # NULL
    <3>1. /\ job'.kind = "insert" /\ job'.parent = p /\ job'.root = n
          /\ job'.mark = c
      BY <2>1, <2>2, <2>5 DEF Inserting, Idle
    <3> QED BY <1>0, <1>3, <2>1, <2>3, <3>1 DEF DocInv
  <2> QED BY <2>4, <2>5
<1> QED BY <1>1, <1>2, <1>3

\* replace_child: the same after c was taken out.
LEMMA ReplaceDocInv ==
    ASSUME LInv, DocInv, NEW p \in Node, NEW n \in Node, NEW c \in Node,
           n # Before(c), ~(BehindDoctype(c) /\ BringsElement(n)),
           ReplaceChild(p, n, c)
    PROVE  DocInv'
<1> DEFINE ex == PreInsertValidity(tree, p, n, c)
           u == Unlink(tree, c)
           r == Before(c)
<1>0. /\ tree \in Tree /\ Linked5(tree) /\ AllShaped(tree) /\ Placed(tree)
      /\ c \in Pointer
  BY DEF LInv, TypeOK, TreeLinked, DocInv, Pointer
<1>1. CASE ex # Ok
  BY <1>1 DEF ReplaceChild, Reject, DocInv
<1>2. u \in Tree /\ Linked5(u) /\ AllShaped(u) /\ Placed(u)
  BY <1>0, UnlinkFields, UnlinkLinked, UnlinkShaped
<1>3. CASE ex = Ok /\ NodeType[n] # "fragment"
  <2>1. tree' = InsertNode(u, p, n, r) /\ job' = Idle
    BY <1>3 DEF ReplaceChild, Insert
  <2>2. r \in Pointer /\ Insertable(u, p, n, r)
    BY <1>0, <1>3, ReplacedInsertable
  <2>3. NodeType[p] = "document" => NodeFits(u, p, n, r)
    BY <1>0, <1>3, ReplacedFits
  <2>4. NodeType[n] = "doctype" => NodeType[p] = "document"
    BY <1>0, <1>3, AcceptedPlaced
  <2> HIDE DEF r, u
  <2>5. AllShaped(tree') /\ Placed(tree')
    BY <1>2, <1>3, <2>1, <2>2, <2>3, <2>4, InsertAllShaped
  <2> QED BY <2>1, <2>5 DEF DocInv, Idle
<1>4. CASE ex = Ok /\ NodeType[n] = "fragment"
  <2>1. tree' = u /\ job' = Inserting(p, u.first[n], r, n)
    BY <1>4 DEF ReplaceChild, Insert
  <2>2. NodeType[p] = "document" => RestFits(u, p, n, r)
    BY <1>0, <1>4, ReplacedRestFits
  <2> HIDE DEF r, u
  <2>3. CASE u.first[n] = NULL
    BY <1>2, <2>1, <2>3 DEF Inserting, Idle, DocInv
  <2>4. CASE u.first[n] # NULL
    <3>1. /\ job'.kind = "insert" /\ job'.parent = p /\ job'.root = n
          /\ job'.mark = r
      BY <2>1, <2>4 DEF Inserting, Idle
    <3> QED BY <1>2, <1>4, <2>1, <2>2, <3>1 DEF DocInv
  <2> QED BY <2>3, <2>4
<1> QED BY <1>1, <1>3, <1>4

\* One iteration of the fragment loop: the child that moves was checked for,
\* and what is left still fits.
LEMMA InsertStepDocInv ==
    ASSUME LInv, DocInv, InsertStep
    PROVE  DocInv'
<1> DEFINE p == job.parent  n == job.node  c == job.mark  f == job.root
<1>0. /\ tree \in Tree /\ Linked5(tree) /\ job \in Job /\ JobOK
      /\ AllShaped(tree) /\ Placed(tree) /\ job.kind = "insert"
      /\ tree' = InsertNode(tree, p, n, c)
      /\ job' = Inserting(p, tree.next[n], c, f)
  BY DEF LInv, TypeOK, TreeLinked, DocInv, InsertStep
<1>1. /\ p \in Node /\ n \in Node /\ f \in Node /\ c \in Pointer
      /\ tree.parent[n] = f /\ NodeType[f] = "fragment"
      /\ NodeType[p] = "document" => RestFits(tree, p, f, c)
      /\ f # p
  BY <1>0 DEF JobOK, Job, DocInv, IsInclusiveAncestor, Reach
<1>2. Insertable(tree, p, n, c)
  BY <1>0, LoopInsertable
<1>3. NodeType[n] # "fragment" /\ NodeType[n] # "doctype"
  BY <1>0, <1>1, NullAssumption DEF Placed
<1>4. NodeType[p] = "document" => NodeFits(tree, p, n, c)
  BY <1>1, <1>3 DEF RestFits, NodeFits, Kind
<1>5. AllShaped(tree') /\ Placed(tree')
  BY <1>0, <1>1, <1>2, <1>3, <1>4, InsertAllShaped
<1>6. /\ \A m \in Node : tree'.parent[m] = IF m = n THEN p ELSE tree.parent[m]
      /\ \A a \in Node \ {n} : \A b \in Following(tree, a) \ {n} :
            b \in Following(tree', a)
  BY <1>0, <1>1, <1>2, InsertNodeLinked, InsertNodeOrder DEF Insertable
<1>7. ASSUME NodeType[p] = "document" PROVE RestFits(tree', p, f, c)
  <2>1. \A ty : Kind(tree', f, ty) = Kind(tree, f, ty) \ {n}
    BY <1>1, <1>6 DEF Kind
  <2>2. Kind(tree', f, "text") = {} /\ AtMostOne(Kind(tree', f, "element"))
    BY <1>1, <1>7, <2>1 DEF RestFits, AtMostOne
  <2>3. ASSUME Kind(tree', f, "element") # {} PROVE Gap(tree', p, c)
    <3>1. NodeType[n] # "element" /\ Gap(tree, p, c)
      BY <1>1, <1>7, <2>1, <2>3 DEF RestFits, AtMostOne, Kind
    <3>2. /\ Kind(tree', p, "element") = Kind(tree, p, "element")
          /\ Kind(tree', p, "doctype") = Kind(tree, p, "doctype")
      BY <1>1, <1>3, <1>6, <3>1 DEF Kind
    <3>3. c # n
      BY <1>1, <1>2, NullAssumption DEF Insertable
    <3> QED BY <1>3, <1>6, <3>1, <3>2, <3>3 DEF Gap, Kind
  <2> QED BY <2>2, <2>3 DEF RestFits
<1>8. CASE tree.next[n] = NULL
  BY <1>0, <1>5, <1>8 DEF Inserting, Idle, DocInv
<1>9. CASE tree.next[n] # NULL
  <2>1. job'.kind = "insert" /\ job'.parent = p /\ job'.root = f /\ job'.mark = c
    BY <1>0, <1>9 DEF Inserting, Idle
  <2> QED BY <1>1, <1>5, <1>7, <2>1 DEF DocInv
<1> QED BY <1>8, <1>9

LEMMA NextDocInv ==
    ASSUME IInv, DocInv, [NextValidated]_vars
    PROVE  DocInv'
<1>0. /\ LInv /\ tree \in Tree /\ Linked5(tree) /\ job \in Job /\ JobOK
      /\ AllShaped(tree) /\ Placed(tree)
  BY DEF IInv, LInv, TypeOK, TreeLinked, DocInv
<1>1. CASE UNCHANGED <<tree, job>>
  BY <1>1 DEF DocInv
<1>2. ASSUME NEW n \in Node, Create(n) PROVE DocInv'
  BY <1>1, <1>2 DEF Create
<1>3. ASSUME NEW p \in Node, NEW n \in Node, AppendChild(p, n) PROVE DocInv'
  BY <1>0, <1>3, PreInsertDocInv DEF AppendChild, Pointer
<1>4. ASSUME NEW p \in Node, NEW n \in Node, NEW c \in Node,
             InsertBeforeSpec(p, n, c)
      PROVE  DocInv'
  BY <1>0, <1>4, PreInsertDocInv DEF InsertBeforeSpec, Pointer
<1>5. ASSUME NEW p \in Node, NEW n \in Node, RemoveChild(p, n) PROVE DocInv'
  <2>1. CASE tree.parent[n] # p
    BY <1>1, <1>5, <2>1 DEF RemoveChild, Reject
  <2>2. CASE tree.parent[n] = p
    <3>1. AllShaped(tree') /\ Placed(tree')
      BY <1>0, <1>5, <2>2, UnlinkShaped DEF RemoveChild
    <3>2. job' = job /\ job.kind = "idle"
      BY <1>5 DEF RemoveChild, Calling
    <3> QED BY <3>1, <3>2 DEF DocInv
  <2> QED BY <2>1, <2>2
<1>6. ASSUME NEW p \in Node, NEW n \in Node, ReplaceAllSpec(p, n) PROVE DocInv'
  BY <1>0, <1>6 DEF ReplaceAllSpec, Clearing, Idle, DocInv
<1>7. CASE ClearStep
  <2>1. job.node \in Node
    BY <1>0, <1>7 DEF ClearStep, Job, Pointer
  <2>2. AllShaped(tree') /\ Placed(tree')
    BY <1>0, <1>7, <2>1, UnlinkShaped DEF ClearStep
  <2>3. job'.kind = "clear"
    BY <1>7 DEF ClearStep, Clearing, Idle
  <2> QED BY <2>2, <2>3 DEF DocInv
<1>8. CASE ClearEnd
  BY <1>0, <1>8, PreInsertDocInv DEF ClearEnd, JobOK, Pointer
<1>9. CASE RefillNext \/ RefillEnd \/ DestroyDescend \/ DestroyUp \/ DestroyNext
           \/ DestroyRoot
  BY <1>9 DEF DocInv, RefillNext, RefillEnd, DestroyDescend, DestroyUp,
     DestroyNext, DestroyRoot, AtBottom
<1>10. CASE UNCHANGED vars
  BY <1>1, <1>10 DEF vars
<1>11. CASE ReplaceInOrder
  BY <1>0, <1>11, ReplaceDocInv DEF ReplaceInOrder
<1>12. CASE JobStep
  BY <1>0, <1>7, <1>8, <1>9, <1>12, InsertStepDocInv DEF JobStep
<1> QED
  BY <1>2, <1>3, <1>4, <1>5, <1>6, <1>10, <1>11, <1>12
     DEF NextValidated, ValidatedCall

-----------------------------------------------------------------------------
(* The theorem.                                                            *)

LEMMA InitDocInv == Init => DocInv
  BY NullAssumption DEF Init, Blank, DocInv, AllShaped, Shaped, Placed, Kind,
     AtMostOne, Idle

\* The calls that validate are calls.
LEMMA ValidatedIInv == SpecValidated => []IInv
<1>1. [NextValidated]_vars => [Next]_vars
  BY DEF NextValidated, Next, ReplaceInOrder, ReplaceApart
<1> QED BY <1>1, InitIInv, NextIInv, PTL DEF SpecValidated

\* Shaped is what the property says.
LEMMA ShapedIs == AllShaped(tree) <=> DocumentsWellFormed
<1>1. ASSUME NEW d \in Node PROVE Shaped(tree, d) <=> DocumentShape(d)
  <2> DEFINE kids == {m \in Node : tree.parent[m] = d}
             some(ty) == {m \in kids : NodeType[m] = ty}
  <2>1. \A ty : some(ty) = Kind(tree, d, ty)
    BY DEF Kind
  <2>2. /\ Cardinality(some("element")) <= 1 <=> AtMostOne(Kind(tree, d, "element"))
        /\ Cardinality(some("doctype")) <= 1 <=> AtMostOne(Kind(tree, d, "doctype"))
    <3>1. \A ty : Kind(tree, d, ty) \in SUBSET Node
      BY DEF Kind
    <3> QED BY <2>1, <3>1, AtMostOneIs
  <2>3. DocumentShape(d) <=>
          /\ some("text") = {}
          /\ Cardinality(some("element")) <= 1
          /\ Cardinality(some("doctype")) <= 1
          /\ \A e \in some("element"), y \in some("doctype") : e \in Following(tree, y)
    BY DEF DocumentShape
  <2> HIDE DEF some
  <2> QED BY <2>1, <2>2, <2>3 DEF Shaped
<1> QED BY <1>1 DEF AllShaped, DocumentsWellFormed

\* As long as only the calls are used that validate, no document ever holds a
\* text, two elements, two doctypes or a doctype behind its element - in the
\* middle of inserting a fragment too, and for any set of nodes.  Of the calls of
\* replace_child only those are left out that ReplaceInOrder names.
THEOREM DocumentsKeepShape == SpecValidated => []DocumentsWellFormed
<1>1. Init => DocInv
  BY InitDocInv
<1>2. IInv /\ DocInv /\ [NextValidated]_vars => DocInv'
  BY NextDocInv
<1>3. DocInv => DocumentsWellFormed
  BY ShapedIs DEF DocInv
<1> QED BY <1>1, <1>2, <1>3, ValidatedIInv, PTL DEF SpecValidated
=============================================================================
