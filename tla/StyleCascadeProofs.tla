------------------------- MODULE StyleCascadeProofs -------------------------
(***************************************************************************)
(* Proof that a connected element has the declarations that a computation  *)
(* from scratch would give it. A list of an element holds a set of         *)
(* declarations if its entries are theirs, one for each; the loops of the  *)
(* code are described by the sets that the lists hold before and after.    *)
(* Outside the document a list still holds what the style attribute        *)
(* declares, and other entries besides, which inserting clears away.       *)
(***************************************************************************)
EXTENDS StyleProofs, FiniteSetTheorems

-----------------------------------------------------------------------------
(* Lists and what they hold.                                               *)

\* The entries of q are those of D, one for each.
Holds(q, D) ==
    \E f \in [DOMAIN q -> D] :
       /\ \A i \in DOMAIN q : q[i] = f[i].entry
       /\ \A i, j \in DOMAIN q : f[i] = f[j] => i = j
       /\ \A d \in D : \E i \in DOMAIN q : f[i] = d

\* Which pairs of entries stand in the wrong order, the first behind the second.
Order(Q) == {t \in Entry \X Entry : Beats(Q, t[1], t[2])}
Heavier == {t \in Entry \X Entry : t[1].sp > t[2].sp}

IsOrder(R) ==
    /\ \A x, y \in Entry : x.sp > y.sp => <<x, y>> \in R
    /\ \A x, y \in Entry : <<x, y>> \in R => y.sp <= x.sp
    /\ \A x \in Entry : <<x, x>> \notin R

InOrder(q, R) == \A i, j \in DOMAIN q : i < j => <<q[j], q[i]>> \notin R

LEMMA OrderIs ==
    ASSUME NEW Q, NEW x \in Entry, NEW y \in Entry
    PROVE  /\ <<x, y>> \in Order(Q) <=> Beats(Q, x, y)
           /\ <<x, y>> \in Heavier <=> x.sp > y.sp
<1> DEFINE t == <<x, y>>
<1>1. t \in Entry \X Entry /\ t[1] = x /\ t[2] = y
  OBVIOUS
<1> HIDE DEF t
<1> SUFFICES /\ t \in Order(Q) <=> Beats(Q, x, y)
             /\ t \in Heavier <=> x.sp > y.sp
  BY DEF t
<1> QED BY <1>1 DEF Order, Heavier

LEMMA HeavierIsOrder ==
    IsOrder(Heavier)
<1>1. \A x, y \in Entry : <<x, y>> \in Heavier <=> x.sp > y.sp
  BY OrderIs
<1> QED BY <1>1, EntryWeight DEF IsOrder

LEMMA OrderIsOrder ==
    ASSUME NEW Q \in Seq(Sheet), IsInjective(Q)
    PROVE  IsOrder(Order(Q))
<1>1. \A x, y \in Entry : <<x, y>> \in Order(Q) <=> Beats(Q, x, y)
  BY OrderIs
<1>2. ASSUME NEW x \in Entry PROVE ~After(Q, x, x)
  <2>1. ~(x.from[2] > x.from[2])
    <3>1. x.from[2] \in Int
      BY DEF Entry, Inline
    <3> QED BY <3>1
  <2>2. \A i, j \in DOMAIN Q : Q[i] = Q[j] => ~(i < j)
    BY DEF IsInjective
  <2> QED BY <2>1, <2>2 DEF After
<1> QED BY <1>1, <1>2, EntryWeight DEF IsOrder, Beats

LEMMA InOrderSorted ==
    ASSUME NEW q \in Seq(Entry), NEW R, IsOrder(R), InOrder(q, R)
    PROVE  Sorted(q)
<1>1. \A i \in DOMAIN q : q[i] \in Entry /\ q[i].sp \in Int
  BY EntryWeight
<1>2. ASSUME NEW i \in DOMAIN q, NEW j \in DOMAIN q, i < j PROVE q[j].sp <= q[i].sp
  <2>1. <<q[j], q[i]>> \notin R
    BY <1>2 DEF InOrder
  <2>2. ~(q[j].sp > q[i].sp)
    BY <1>1, <2>1 DEF IsOrder
  <2> QED BY <1>1, <2>2
<1> QED BY <1>2 DEF Sorted

LEMMA HoldsEntered ==
    ASSUME NEW q \in Seq(Entry), NEW r \in Seq(Entry), NEW x, Entered(r, q, x), NEW D,
           Holds(q, D), NEW d, d \notin D, d.entry = x
    PROVE  Holds(r, D \cup {d})
<1>1. PICK f \in [DOMAIN q -> D] :
         /\ \A i \in DOMAIN q : q[i] = f[i].entry
         /\ \A i, j \in DOMAIN q : f[i] = f[j] => i = j
         /\ \A c \in D : \E i \in DOMAIN q : f[i] = c
  BY DEF Holds
<1>2. PICK k \in 1 .. Len(q) + 1 : Inserted(r, q, k, x)
  BY DEF Entered
<1> DEFINE n == Len(q)
           h == [i \in 1 .. n + 1 |-> IF i < k THEN f[i] ELSE IF i = k THEN d ELSE f[i - 1]]
<1>3. /\ DOMAIN q = 1 .. n /\ n \in Nat /\ DOMAIN r = 1 .. n + 1
      /\ k \in Int /\ 1 <= k /\ k <= n + 1
      /\ \A i \in 1 .. n + 1 : r[i] = IF i < k THEN q[i] ELSE IF i = k THEN x ELSE q[i - 1]
  BY <1>2 DEF Inserted
<1> HIDE DEF n
<1>4. \A i \in 1 .. n + 1 : \/ i < k /\ i \in 1 .. n /\ h[i] = f[i] /\ r[i] = q[i]
                            \/ i = k /\ h[i] = d /\ r[i] = x
                            \/ i > k /\ i - 1 \in 1 .. n /\ h[i] = f[i - 1] /\ r[i] = q[i - 1]
  BY <1>3
<1>5. \A i \in 1 .. n : f[i] \in D /\ f[i] # d /\ q[i] = f[i].entry
  BY <1>1, <1>3
<1> HIDE DEF h
<1>6. h \in [1 .. n + 1 -> D \cup {d}]
  <2>1. \A i \in 1 .. n + 1 : h[i] \in D \cup {d}
    BY <1>4, <1>5
  <2> QED BY <2>1 DEF h
<1>7. \A i \in 1 .. n + 1 : r[i] = h[i].entry
  BY <1>4, <1>5
<1>8. \A i, j \in 1 .. n + 1 : h[i] = h[j] => i = j
  <2>1. \A i, j \in 1 .. n : f[i] = f[j] => i = j
    BY <1>1, <1>3
  <2> TAKE i, j \in 1 .. n + 1
  <2> HAVE h[i] = h[j]
  <2>2. CASE h[i] = d
    BY <1>4, <1>5, <2>2
  <2>3. CASE h[i] # d
    <3>1. (i < k \/ i > k) /\ (j < k \/ j > k)
      BY <1>4, <2>3
    <3>2. CASE i < k /\ j < k
      BY <1>3, <1>4, <2>1, <3>2
    <3>3. CASE i < k /\ j > k
      <4>1. f[i] = f[j - 1] /\ i \in 1 .. n /\ j - 1 \in 1 .. n
        BY <1>3, <1>4, <3>3
      <4>2. i = j - 1
        BY <2>1, <4>1
      <4> QED BY <1>3, <3>3, <4>2
    <3>4. CASE i > k /\ j < k
      <4>1. f[i - 1] = f[j] /\ i - 1 \in 1 .. n /\ j \in 1 .. n
        BY <1>3, <1>4, <3>4
      <4>2. i - 1 = j
        BY <2>1, <4>1
      <4> QED BY <1>3, <3>4, <4>2
    <3>5. CASE i > k /\ j > k
      <4>1. f[i - 1] = f[j - 1] /\ i - 1 \in 1 .. n /\ j - 1 \in 1 .. n
        BY <1>3, <1>4, <3>5
      <4>2. i - 1 = j - 1
        BY <2>1, <4>1
      <4> QED BY <4>2
    <3> QED BY <3>1, <3>2, <3>3, <3>4, <3>5
  <2> QED BY <2>2, <2>3
<1>9. \A c \in D \cup {d} : \E i \in 1 .. n + 1 : h[i] = c
  <2> TAKE c \in D \cup {d}
  <2>1. CASE c = d
    <3>1. k \in 1 .. n + 1 /\ h[k] = d
      BY <1>3, <1>4
    <3> QED BY <2>1, <3>1
  <2>2. CASE c # d
    <3>1. PICK i \in 1 .. n : f[i] = c
      BY <1>1, <1>3, <2>2
    <3>2. i \in 1 .. n + 1 /\ i + 1 \in 1 .. n + 1 /\ i + 1 - 1 = i
      BY <1>3
    <3>3. CASE i < k
      BY <1>4, <3>1, <3>2, <3>3
    <3>4. CASE i >= k
      <4>1. i + 1 > k
        BY <1>3, <3>4
      <4>2. h[i + 1] = f[i]
        BY <1>3, <1>4, <3>2, <4>1
      <4> QED BY <3>1, <3>2, <4>2
    <3> QED BY <1>3, <3>3, <3>4
  <2> QED BY <2>1, <2>2
<1>10. /\ h \in [DOMAIN r -> D \cup {d}]
       /\ \A i \in DOMAIN r : r[i] = h[i].entry
       /\ \A i, j \in DOMAIN r : h[i] = h[j] => i = j
       /\ \A c \in D \cup {d} : \E i \in DOMAIN r : h[i] = c
  BY <1>3, <1>6, <1>7, <1>8, <1>9
<1> QED BY <1>10 DEF Holds

LEMMA InOrderEntered ==
    ASSUME NEW q \in Seq(Entry), NEW r \in Seq(Entry), NEW x \in Entry, Entered(r, q, x),
           NEW R, IsOrder(R), InOrder(q, R),
           \A i \in DOMAIN q : q[i].sp = x.sp => <<q[i], x>> \notin R
    PROVE  InOrder(r, R)
<1> DEFINE n == Len(q)
<1>1. PICK k \in 1 .. n + 1 : /\ Inserted(r, q, k, x)
                              /\ \A i \in 1 .. k - 1 : q[i].sp > x.sp
                              /\ k <= n => q[k].sp <= x.sp
  BY DEF Entered
<1>2. /\ DOMAIN q = 1 .. n /\ n \in Nat /\ DOMAIN r = 1 .. n + 1
      /\ k \in Int /\ 1 <= k /\ k <= n + 1
      /\ \A i \in 1 .. n + 1 : r[i] = IF i < k THEN q[i] ELSE IF i = k THEN x ELSE q[i - 1]
  BY <1>1 DEF Inserted
<1>3. x.sp \in Int /\ \A i \in 1 .. n : q[i] \in Entry /\ q[i].sp \in Int
  BY EntryWeight
<1>4. \A i, j \in 1 .. n : i < j => <<q[j], q[i]>> \notin R /\ q[j].sp <= q[i].sp
  BY <1>2, InOrderSorted DEF InOrder, Sorted
<1> HIDE DEF n
<1>5. \A i \in 1 .. n : i >= k => q[i].sp <= x.sp
  <2> TAKE i \in 1 .. n
  <2> HAVE i >= k
  <2>1. k \in 1 .. n /\ q[k].sp <= x.sp
    BY <1>1, <1>2
  <2>2. CASE i = k
    BY <2>1, <2>2
  <2>3. CASE k < i
    <3>1. q[i].sp <= q[k].sp
      BY <1>4, <2>1, <2>3
    <3> QED BY <1>3, <2>1, <3>1
  <2> QED BY <1>2, <2>2, <2>3
<1>6. \A i \in 1 .. n : i >= k => <<q[i], x>> \notin R
  <2> TAKE i \in 1 .. n
  <2> HAVE i >= k
  <2>1. CASE q[i].sp = x.sp
    BY <1>2, <2>1
  <2>2. CASE q[i].sp < x.sp
    BY <1>3, <2>2 DEF IsOrder
  <2> QED BY <1>3, <1>5, <2>1, <2>2
<1>7. \A i \in 1 .. n : i < k => <<x, q[i]>> \notin R
  <2> TAKE i \in 1 .. n
  <2> HAVE i < k
  <2>1. q[i].sp > x.sp
    BY <1>1, <1>2
  <2> QED BY <1>3, <2>1 DEF IsOrder
<1>8. ASSUME NEW i \in 1 .. n + 1, NEW j \in 1 .. n + 1, i < j
      PROVE  <<r[j], r[i]>> \notin R
  <2>1. CASE j < k
    <3>1. r[i] = q[i] /\ r[j] = q[j] /\ i \in 1 .. n /\ j \in 1 .. n
      BY <1>2, <1>8, <2>1
    <3> QED BY <1>4, <1>8, <3>1
  <2>2. CASE j = k
    <3>1. r[i] = q[i] /\ r[j] = x /\ i \in 1 .. n /\ i < k
      BY <1>2, <1>8, <2>2
    <3> QED BY <1>7, <3>1
  <2>3. CASE j > k /\ i < k
    <3>1. r[i] = q[i] /\ r[j] = q[j - 1] /\ i \in 1 .. n /\ j - 1 \in 1 .. n /\ i < j - 1
      BY <1>2, <1>8, <2>3
    <3> QED BY <1>4, <3>1
  <2>4. CASE j > k /\ i = k
    <3>1. r[i] = x /\ r[j] = q[j - 1] /\ j - 1 \in 1 .. n /\ j - 1 >= k
      BY <1>2, <1>8, <2>4
    <3> QED BY <1>6, <3>1
  <2>5. CASE j > k /\ i > k
    <3>1. /\ r[i] = q[i - 1] /\ r[j] = q[j - 1] /\ i - 1 \in 1 .. n /\ j - 1 \in 1 .. n
          /\ i - 1 < j - 1
      BY <1>2, <1>8, <2>5
    <3> QED BY <1>4, <3>1
  <2> QED BY <1>2, <2>1, <2>2, <2>3, <2>4, <2>5
<1> QED BY <1>2, <1>8 DEF InOrder

LEMMA HoldsPicks ==
    ASSUME NEW T, NEW q \in Seq(T), NEW w \in Seq(T), NEW gone, NEW g,
           Picks(w, q, gone, Len(q), g), NEW D, Holds(q, D)
    PROVE  Holds(w, {d \in D : d.entry \notin gone})
<1>1. PICK f \in [DOMAIN q -> D] :
         /\ \A i \in DOMAIN q : q[i] = f[i].entry
         /\ \A i, j \in DOMAIN q : f[i] = f[j] => i = j
         /\ \A c \in D : \E i \in DOMAIN q : f[i] = c
  BY DEF Holds
<1> DEFINE left == {d \in D : d.entry \notin gone}
           h == [k \in DOMAIN w |-> f[g[k]]]
<1>2. DOMAIN q = 1 .. Len(q) /\ \A k \in DOMAIN w : k \in Int
  OBVIOUS
<1>3. \A k \in DOMAIN w : /\ g[k] \in DOMAIN q /\ g[k] \in Int /\ w[k] = q[g[k]]
                          /\ q[g[k]] \notin gone
  BY <1>2 DEF Picks
<1>4. \A k \in DOMAIN w : h[k] = f[g[k]] /\ h[k] \in left /\ w[k] = h[k].entry
  BY <1>1, <1>3
<1>5. \A k, l \in DOMAIN w : g[k] = g[l] => k = l
  <2>1. \A k, l \in DOMAIN w : k < l => g[k] < g[l]
    BY DEF Picks
  <2> QED BY <1>2, <1>3, <2>1
<1>6. \A k, l \in DOMAIN w : h[k] = h[l] => k = l
  BY <1>1, <1>3, <1>4, <1>5
<1>7. \A c \in left : \E k \in DOMAIN w : h[k] = c
  <2> TAKE c \in left
  <2>1. PICK i \in DOMAIN q : f[i] = c
    BY <1>1
  <2>2. q[i] \notin gone
    BY <1>1, <2>1
  <2>3. PICK k \in DOMAIN w : g[k] = i
    BY <1>2, <2>2 DEF Picks
  <2> QED BY <1>4, <2>1, <2>3
<1>8. h \in [DOMAIN w -> left]
  BY <1>4
<1> HIDE DEF h, left
<1>9. Holds(w, left)
  BY <1>4, <1>6, <1>7, <1>8 DEF Holds
<1> QED BY <1>9 DEF left

LEMMA InOrderPicks ==
    ASSUME NEW T, NEW q \in Seq(T), NEW w \in Seq(T), NEW gone, NEW g,
           Picks(w, q, gone, Len(q), g), NEW R, InOrder(q, R)
    PROVE  InOrder(w, R)
<1>1. DOMAIN q = 1 .. Len(q)
  OBVIOUS
<1> QED BY <1>1 DEF Picks, InOrder

-----------------------------------------------------------------------------
(* The loops, in terms of what the lists hold.                             *)

\* The lists of one element hold what E says, in order.
Full(L, E, R) ==
    \A p \in Properties : Holds(L[p], E[p]) /\ InOrder(L[p], R)

\* The entries that a list of declarations can give.
Weighed(from, sp) == {[from |-> from, sp |-> Weight(sp, d)] : d \in Declaration}

\* They are new, and go in front of those of the same weight.
Foremost(E, R, from, sp) ==
    \A p \in Properties : \A d \in E[p] :
       /\ d.entry.from # from
       /\ \A x \in Weighed(from, sp) : x.sp = d.entry.sp => <<d.entry, x>> \notin R

\* What the first i of a list declare for p.
Firsts(from, sp, decls, p, i) ==
    {[entry |-> [from |-> from, sp |-> Weight(sp, decls[k])], nth |-> k] :
        k \in {k \in 1 .. i : decls[k].prop = p}}

LEMMA ListAppendFull ==
    ASSUME NEW L \in Lists(Entry), NEW E, NEW R, IsOrder(R), Full(L, E, R),
           NEW from, NEW sp, NEW decls \in Seq(Declaration),
           Weighed(from, sp) \subseteq Entry, Foremost(E, R, from, sp)
    PROVE  /\ ListAppend(L, from, sp, decls) \in Lists(Entry)
           /\ Full(ListAppend(L, from, sp, decls),
                   [p \in Properties |-> E[p] \cup Declarations(from, sp, decls, p)], R)
<1> DEFINE n == Len(decls)
           Is(x, i) == \A p \in Properties :
                          /\ Holds(x[p], E[p] \cup Firsts(from, sp, decls, p, i))
                          /\ InOrder(x[p], R)
           A == [i \in 0 .. n |-> {x \in Lists(Entry) : Is(x, i)}]
           new(i) == [from |-> from, sp |-> Weight(sp, decls[i])]
<1>1. n \in Nat /\ DOMAIN decls = 1 .. n /\ \A i \in 1 .. n : decls[i] \in Declaration
  OBVIOUS
<1>2. L \in A[0]
  <2>1. \A p \in Properties : E[p] \cup Firsts(from, sp, decls, p, 0) = E[p]
    BY DEF Firsts
  <2>2. Is(L, 0)
    BY <2>1 DEF Full
  <2> HIDE DEF Is
  <2> QED BY <1>1, <2>2
<1>3. ASSUME NEW i \in 1 .. n, NEW x \in A[i - 1]
      PROVE  [x EXCEPT ![decls[i].prop] = StyleAppend(@, new(i))] \in A[i]
  <2> DEFINE p == decls[i].prop
             r == StyleAppend(x[p], new(i))
             y == [x EXCEPT ![p] = r]
             d == [entry |-> new(i), nth |-> i]
  <2>1. i - 1 \in 0 .. n /\ i \in 0 .. n /\ i \in Int
    BY <1>1
  <2>2. x \in Lists(Entry) /\ Is(x, i - 1)
    <3> HIDE DEF Is
    <3> QED BY <2>1
  <2>3. p \in Properties /\ new(i) \in Weighed(from, sp) /\ new(i) \in Entry
    BY <1>1 DEF Declaration, Weighed
  <2>4. x[p] \in Seq(Entry) /\ Holds(x[p], E[p] \cup Firsts(from, sp, decls, p, i - 1))
        /\ InOrder(x[p], R)
    BY <2>2, <2>3 DEF Lists
  <2>5. r \in Seq(Entry) /\ Entered(r, x[p], new(i))
    <3> HIDE DEF new, p
    <3> QED BY <2>3, <2>4, EntryWeight, InOrderSorted, StyleAppendIs
  <2>6. /\ new(i).from = from
        /\ d.entry = new(i) /\ d.nth = i
        /\ \A c \in Firsts(from, sp, decls, p, i - 1) : c.nth # i /\ c.entry.from = from
    BY <1>1 DEF Firsts
  <2>7. \A q \in Properties : Firsts(from, sp, decls, q, i)
            = Firsts(from, sp, decls, q, i - 1) \cup (IF q = p THEN {d} ELSE {})
    <3>1. \A k \in 1 .. i : k = i \/ k \in 1 .. i - 1
      BY <1>1
    <3>2. i \in 1 .. i /\ \A k \in 1 .. i - 1 : k \in 1 .. i
      BY <1>1
    <3> QED BY <3>1, <3>2 DEF Firsts
  <2>8. d \notin E[p] \cup Firsts(from, sp, decls, p, i - 1)
    BY <2>3, <2>6 DEF Foremost
  <2>9. \A j \in DOMAIN x[p] : x[p][j].sp = new(i).sp => <<x[p][j], new(i)>> \notin R
    <3> TAKE j \in DOMAIN x[p]
    <3>1. PICK c \in E[p] \cup Firsts(from, sp, decls, p, i - 1) : x[p][j] = c.entry
      BY <2>4 DEF Holds
    <3>2. CASE c \in E[p]
      BY <2>3, <3>1, <3>2 DEF Foremost
    <3>3. CASE c \in Firsts(from, sp, decls, p, i - 1)
      <4>1. c.entry = [from |-> from, sp |-> c.entry.sp]
        BY <3>3 DEF Firsts
      <4>2. x[p][j].sp = new(i).sp => x[p][j] = new(i)
        BY <3>1, <4>1
      <4> QED BY <2>3, <4>2 DEF IsOrder
    <3> QED BY <3>1, <3>2, <3>3
  <2> HIDE DEF new
  <2>10. Holds(r, (E[p] \cup Firsts(from, sp, decls, p, i - 1)) \cup {d})
    <3> HIDE DEF p, r, d
    <3> QED BY <2>4, <2>5, <2>6, <2>8, HoldsEntered
  <2>11. InOrder(r, R)
    <3> HIDE DEF p, r
    <3> QED BY <2>3, <2>4, <2>5, <2>9, InOrderEntered
  <2> HIDE DEF p, r, d
  <2>12. y \in Lists(Entry) /\ \A q \in Properties : y[q] = IF q = p THEN r ELSE x[q]
    BY <2>2, <2>5 DEF Lists
  <2>13. Is(y, i)
    <3> HIDE DEF y
    <3> TAKE q \in Properties
    <3>1. CASE q = p
      <4>1. (E[p] \cup Firsts(from, sp, decls, p, i - 1)) \cup {d}
              = E[q] \cup Firsts(from, sp, decls, q, i)
        BY <2>7, <3>1
      <4> QED BY <2>10, <2>11, <2>12, <3>1, <4>1
    <3>2. CASE q # p
      <4>1. E[q] \cup Firsts(from, sp, decls, q, i - 1)
              = E[q] \cup Firsts(from, sp, decls, q, i)
        BY <2>7, <3>2
      <4> QED BY <2>2, <2>12, <3>2, <4>1
    <3> QED BY <3>1, <3>2
  <2>14. y \in A[i]
    <3> HIDE DEF y, Is
    <3> QED BY <2>1, <2>12, <2>13
  <2> QED BY <2>14 DEF p, r
<1>4. ListAppend(L, from, sp, decls) \in A[n]
  <2> HIDE DEF A
  <2> QED BY <1>2, <1>3, ListAppendLoop DEF new
<1>5. n \in 0 .. n
  BY <1>1
<1>6. ListAppend(L, from, sp, decls) \in Lists(Entry) /\ Is(ListAppend(L, from, sp, decls), n)
  <2> HIDE DEF Is, n
  <2> QED BY <1>4, <1>5
<1>7. \A p \in Properties : Firsts(from, sp, decls, p, n) = Declarations(from, sp, decls, p)
  BY <1>1 DEF Firsts, Declarations
<1> QED BY <1>6, <1>7 DEF Full

\* What the first m rules of s declare for e.
OfRules(S, s, e, p, m) ==
    UNION {Declarations(<<s, i>>, Rules[s][i].sp, Rules[s][i].decls, p) :
              i \in {i \in 1 .. m : Matches(S, Rules[s][i], e)}}

LEMMA OfRulesIs ==
    ASSUME NEW S, NEW s, NEW e, NEW p, NEW m
    PROVE  \A d \in OfRules(S, s, e, p, m) : \E i \in 1 .. m : d.entry.from = <<s, i>>
BY DEF OfRules, Declarations

\* The stylesheet s is not in front of one that something in E is from.
Latest(Q, E, s) ==
    \A p \in Properties : \A d \in E[p] :
       /\ d.entry.from[1] # s
       /\ \A i, j \in DOMAIN Q : i < j => ~(Q[i] = s /\ Q[j] = d.entry.from[1])

LEMMA AttachSheetFull ==
    ASSUME NEW S, S.sheets \in Seq(Sheet), IsInjective(S.sheets),
           NEW L \in Lists(Entry), NEW E, Full(L, E, Order(S.sheets)),
           NEW s \in Sheet, NEW e, Latest(S.sheets, E, s)
    PROVE  /\ AttachSheet(S, L, s, e) \in Lists(Entry)
           /\ Full(AttachSheet(S, L, s, e),
                   [p \in Properties |-> E[p] \cup OfRules(S, s, e, p, Len(Rules[s]))],
                   Order(S.sheets))
<1> DEFINE n == Len(Rules[s])
           R == Order(S.sheets)
           To(i) == [p \in Properties |-> E[p] \cup OfRules(S, s, e, p, i)]
           A == [i \in 0 .. n |-> {x \in Lists(Entry) : Full(x, To(i), R)}]
           more(x, i) == ListAppend(x, <<s, i>>, Rules[s][i].sp, Rules[s][i].decls)
<1>1. n \in Nat /\ \A i \in 1 .. n : Rules[s][i] \in Rule
  BY RulesAssumption
<1>2. L \in A[0]
  <2>1. \A p \in Properties : To(0)[p] = E[p]
    BY DEF OfRules
  <2> HIDE DEF To, R
  <2>2. Full(L, To(0), R)
    BY <2>1 DEF Full, R
  <2> QED BY <1>1, <2>2
<1>3. IsOrder(R)
  BY OrderIsOrder
<1>4. ASSUME NEW i \in 1 .. n, NEW x \in A[i - 1]
      PROVE  (IF Matches(S, Rules[s][i], e) THEN more(x, i) ELSE x) \in A[i]
  <2> DEFINE r == Rules[s][i]
  <2>1. i - 1 \in 0 .. n /\ i \in 0 .. n /\ i \in Int
    BY <1>1
  <2>2. x \in Lists(Entry) /\ Full(x, To(i - 1), R)
    <3> HIDE DEF To, R
    <3> QED BY <2>1
  <2>3. (\A k \in 1 .. i : k = i \/ k \in 1 .. i - 1) /\ i \in 1 .. i
        /\ \A k \in 1 .. i - 1 : k \in 1 .. i
    BY <2>1
  <2>4. CASE ~Matches(S, r, e)
    <3>1. \A p \in Properties : To(i)[p] = To(i - 1)[p]
      BY <2>3, <2>4 DEF OfRules
    <3>2. Full(x, To(i), R)
      <4> HIDE DEF To, R
      <4> QED BY <2>2, <3>1 DEF Full
    <3> HIDE DEF To, R, more
    <3> QED BY <2>1, <2>2, <2>4, <3>2
  <2>5. CASE Matches(S, r, e)
    <3> DEFINE Next1 == [p \in Properties |->
                          To(i - 1)[p] \cup Declarations(<<s, i>>, r.sp, r.decls, p)]
    <3>1. r.decls \in Seq(Declaration)
      BY <1>1 DEF Rule
    <3>2. Weighed(<<s, i>>, r.sp) \subseteq Entry
      BY RuleEntry DEF Weighed
    <3>3. Foremost(To(i - 1), R, <<s, i>>, r.sp)
      <4> SUFFICES ASSUME NEW p \in Properties, NEW d \in To(i - 1)[p]
                   PROVE  /\ d.entry.from # <<s, i>>
                          /\ \A y \in Weighed(<<s, i>>, r.sp) :
                                y.sp = d.entry.sp => <<d.entry, y>> \notin R
        BY DEF Foremost
      <4>1. d \in E[p] \/ d \in OfRules(S, s, e, p, i - 1)
        OBVIOUS
      <4> HIDE DEF To
      <4>2. d.entry.from # <<s, i>> /\ (d.entry.from[1] # s \/ ~(d.entry.from[2] > i))
        <5>1. CASE d \in E[p]
          BY <5>1 DEF Latest
        <5>2. CASE d \in OfRules(S, s, e, p, i - 1)
          <6>1. PICK k \in 1 .. i - 1 : d.entry.from = <<s, k>>
            BY <5>2, OfRulesIs
          <6>2. k # i /\ ~(k > i)
            BY <2>1
          <6> QED BY <6>1, <6>2
        <5> QED BY <4>1, <5>1, <5>2
      <4>3. \A a, b \in DOMAIN S.sheets : a < b =>
                ~(S.sheets[a] = s /\ S.sheets[b] = d.entry.from[1])
        <5>1. CASE d \in E[p]
          BY <5>1 DEF Latest
        <5>2. CASE d \in OfRules(S, s, e, p, i - 1)
          <6>1. d.entry.from[1] = s
            BY <5>2, OfRulesIs
          <6>2. \A a, b \in DOMAIN S.sheets : S.sheets[a] = S.sheets[b] => ~(a < b)
            BY DEF IsInjective
          <6> QED BY <6>1, <6>2
        <5> QED BY <4>1, <5>1, <5>2
      <4>4. ASSUME NEW y \in Weighed(<<s, i>>, r.sp), y.sp = d.entry.sp, <<d.entry, y>> \in R
            PROVE  FALSE
        <5>1. y.from = <<s, i>> /\ y.from[1] = s /\ y.from[2] = i /\ y \in Entry
          BY <3>2 DEF Weighed
        <5>2. d.entry \in Entry
          BY <4>4 DEF Order
        <5>3. Beats(S.sheets, d.entry, y)
          BY <4>4, <5>1, <5>2, OrderIs
        <5>4. After(S.sheets, d.entry, y)
          BY <4>4, <5>1, <5>3, EntryWeight DEF Beats
        <5> QED BY <4>2, <4>3, <5>1, <5>4 DEF After
      <4> QED BY <4>2, <4>4
    <3>4. more(x, i) \in Lists(Entry) /\ Full(more(x, i), Next1, R)
      <4> DEFINE E1 == To(i - 1)
                 from == <<s, i>>
                 sp == r.sp
                 decls == r.decls
      <4>1. /\ Full(x, E1, R) /\ decls \in Seq(Declaration)
            /\ Weighed(from, sp) \subseteq Entry /\ Foremost(E1, R, from, sp)
        BY <2>2, <3>1, <3>2, <3>3
      <4> HIDE DEF E1, from, sp, decls, R, A, To, n
      <4>2. /\ ListAppend(x, from, sp, decls) \in Lists(Entry)
            /\ Full(ListAppend(x, from, sp, decls),
                    [p \in Properties |-> E1[p] \cup Declarations(from, sp, decls, p)], R)
        BY <1>3, <2>2, <4>1, ListAppendFull
      <4> QED BY <4>2 DEF E1, from, sp, decls
    <3>5. \A p \in Properties : To(i)[p] = Next1[p]
      BY <2>3, <2>5 DEF OfRules
    <3>6. Full(more(x, i), To(i), R)
      <4> HIDE DEF To, R, Next1, more
      <4> QED BY <3>4, <3>5 DEF Full
    <3> HIDE DEF To, R, more
    <3> QED BY <2>1, <2>5, <3>4, <3>6
  <2> QED BY <2>4, <2>5
<1>5. AttachSheet(S, L, s, e) \in A[n]
  <2> HIDE DEF A
  <2> QED BY <1>2, <1>4, AttachSheetLoop
<1>6. n \in 0 .. n
  BY <1>1
<1>7. AttachSheet(S, L, s, e) \in Lists(Entry) /\ Full(AttachSheet(S, L, s, e), To(n), R)
  <2> HIDE DEF To, R, n
  <2> QED BY <1>5, <1>6
<1> QED BY <1>7

\* What the first m stylesheets declare for e.
OfSheets(S, e, p, m) ==
    UNION {OfRules(S, S.sheets[k], e, p, Len(Rules[S.sheets[k]])) : k \in 1 .. m}

LEMMA OfSheetsIs ==
    ASSUME NEW S, NEW e, NEW p, NEW m, NEW d \in OfSheets(S, e, p, m)
    PROVE  \E k \in 1 .. m : d.entry.from[1] = S.sheets[k]
<1>1. PICK k \in 1 .. m : d \in OfRules(S, S.sheets[k], e, p, Len(Rules[S.sheets[k]]))
  BY DEF OfSheets
<1>2. \E i : d.entry.from = <<S.sheets[k], i>>
  BY <1>1, OfRulesIs
<1> QED BY <1>2

LEMMA CascadedIs ==
    ASSUME NEW S, S.sheets \in Seq(Sheet), NEW e, NEW p
    PROVE  OfSheets(S, e, p, Len(S.sheets)) = Cascaded(S, e, p)
<1> DEFINE all(s) == OfRules(S, s, e, p, Len(Rules[s]))
           given(s) == UNION {Declarations(<<s, i>>, Rules[s][i].sp, Rules[s][i].decls, p) :
                                i \in {i \in DOMAIN Rules[s] : Matches(S, Rules[s][i], e)}}
<1>1. \A s \in Sheet : all(s) = given(s)
  <2>1. \A s \in Sheet : DOMAIN Rules[s] = 1 .. Len(Rules[s])
    BY RulesAssumption
  <2> QED BY <2>1 DEF OfRules
<1>2. Cascaded(S, e, p) = UNION {given(s) : s \in Range(S.sheets)}
  BY DEF Cascaded
<1>3. OfSheets(S, e, p, Len(S.sheets)) = UNION {all(S.sheets[k]) : k \in 1 .. Len(S.sheets)}
  BY DEF OfSheets
<1> HIDE DEF all, given
<1>4. /\ DOMAIN S.sheets = 1 .. Len(S.sheets)
      /\ \A k \in 1 .. Len(S.sheets) : S.sheets[k] \in Sheet
  OBVIOUS
<1>5. {all(S.sheets[k]) : k \in 1 .. Len(S.sheets)} = {given(s) : s \in Range(S.sheets)}
  BY <1>1, <1>4 DEF Range
<1> QED BY <1>2, <1>3, <1>5

LEMMA AttachSheetsFull ==
    ASSUME NEW S, S.sheets \in Seq(Sheet), IsInjective(S.sheets),
           NEW L \in Lists(Entry), NEW E, Full(L, E, Order(S.sheets)), NEW e,
           \A p \in Properties : \A d \in E[p] : d.entry.from = Inline
    PROVE  /\ AttachSheets(S, L, e) \in Lists(Entry)
           /\ Full(AttachSheets(S, L, e),
                   [p \in Properties |-> E[p] \cup Cascaded(S, e, p)], Order(S.sheets))
<1> DEFINE q == S.sheets
           n == Len(q)
           R == Order(q)
           To(i) == [p \in Properties |-> E[p] \cup OfSheets(S, e, p, i)]
           A == [i \in 0 .. n |-> {x \in Lists(Entry) : Full(x, To(i), R)}]
<1>1. /\ n \in Nat /\ DOMAIN q = 1 .. n /\ \A i \in 1 .. n : q[i] \in Sheet /\ q[i] # NULL
      /\ \A i, j \in 1 .. n : q[i] = q[j] => i = j
  BY NamesAssumption DEF IsInjective
<1>2. L \in A[0]
  <2>1. \A p \in Properties : To(0)[p] = E[p]
    BY DEF OfSheets
  <2> HIDE DEF To, R
  <2>2. Full(L, To(0), R)
    BY <2>1 DEF Full, R
  <2> QED BY <1>1, <2>2
<1>3. ASSUME NEW i \in 1 .. n, NEW x \in A[i - 1] PROVE AttachSheet(S, x, q[i], e) \in A[i]
  <2> DEFINE s == q[i]
             E1 == To(i - 1)
  <2>1. i - 1 \in 0 .. n /\ i \in 0 .. n /\ i \in Int /\ s \in Sheet
    BY <1>1
  <2>2. x \in Lists(Entry) /\ Full(x, E1, R)
    <3> HIDE DEF To, R
    <3> QED BY <2>1
  <2>3. Latest(q, E1, s)
    <3>1. ASSUME NEW p \in Properties, NEW d \in E1[p]
          PROVE  /\ d.entry.from[1] # s
                 /\ \A a, b \in DOMAIN q : a < b => ~(q[a] = s /\ q[b] = d.entry.from[1])
      <4>1. d \in E[p] \/ d \in OfSheets(S, e, p, i - 1)
        BY <3>1
      <4>2. CASE d \in E[p]
        <5>1. d.entry.from[1] = NULL
          BY <4>2 DEF Inline
        <5> QED BY <1>1, <5>1
      <4>3. CASE d \in OfSheets(S, e, p, i - 1)
        <5>1. PICK k \in 1 .. i - 1 : d.entry.from[1] = q[k]
          <6> HIDE DEF E1, A, To, n
          <6> QED BY <4>3, OfSheetsIs
        <5>2. k \in 1 .. n /\ k # i /\ ~(i < k)
          BY <1>1
        <5>3. q[k] # q[i]
          BY <1>1, <5>2
        <5>4. ASSUME NEW a \in DOMAIN q, NEW b \in DOMAIN q, q[a] = q[i], q[b] = q[k]
              PROVE  ~(a < b)
          <6>1. a = i /\ b = k
            BY <1>1, <5>2, <5>4
          <6> QED BY <5>2, <6>1
        <5> QED BY <5>1, <5>3, <5>4
      <4> QED BY <4>1, <4>2, <4>3
    <3> HIDE DEF E1
    <3> QED BY <3>1 DEF Latest
  <2> DEFINE y == AttachSheet(S, x, s, e)
             E2 == [p \in Properties |-> E1[p] \cup OfRules(S, s, e, p, Len(Rules[s]))]
  <2>4. y \in Lists(Entry) /\ Full(y, E2, R)
    <3> HIDE DEF E1, A, s, n, To
    <3>1. S.sheets \in Seq(Sheet) /\ Full(x, E1, Order(S.sheets)) /\ Latest(S.sheets, E1, s)
      BY <2>2, <2>3
    <3>2. /\ AttachSheet(S, x, s, e) \in Lists(Entry)
          /\ Full(AttachSheet(S, x, s, e),
                  [p \in Properties |-> E1[p] \cup OfRules(S, s, e, p, Len(Rules[s]))],
                  Order(S.sheets))
      <4> HIDE DEF q, R, y, E2
      <4> QED BY <2>1, <2>2, <3>1, AttachSheetFull
    <3> QED BY <3>2
  <2>5. \A p \in Properties : E2[p] = To(i)[p]
    <3>1. \A k \in 1 .. i : k = i \/ k \in 1 .. i - 1
      BY <1>1
    <3>2. i \in 1 .. i /\ \A k \in 1 .. i - 1 : k \in 1 .. i
      BY <1>1
    <3>3. \A p \in Properties : OfSheets(S, e, p, i)
             = OfSheets(S, e, p, i - 1) \cup OfRules(S, s, e, p, Len(Rules[s]))
      BY <3>1, <3>2 DEF OfSheets
    <3> QED BY <3>3
  <2> HIDE DEF E2, To, R, y
  <2>6. Full(y, To(i), R)
    BY <2>4, <2>5 DEF Full
  <2> QED BY <2>1, <2>4, <2>6 DEF y
<1>4. AttachSheets(S, L, e) \in A[n]
  <2> HIDE DEF A
  <2> QED BY <1>2, <1>3, AttachSheetsLoop
<1>5. n \in 0 .. n
  BY <1>1
<1>6. AttachSheets(S, L, e) \in Lists(Entry) /\ Full(AttachSheets(S, L, e), To(n), R)
  <2> HIDE DEF To, R, n
  <2> QED BY <1>4, <1>5
<1>7. To(n) = [p \in Properties |-> E[p] \cup Cascaded(S, e, p)]
  BY CascadedIs
<1> HIDE DEF To
<1> QED BY <1>6, <1>7

-----------------------------------------------------------------------------
(* Lines that a change of the tree leaves alone.                           *)

\* Nothing below an element without a parent is connected.
LEMMA CutOff ==
    ASSUME NEW S, Ordered(S), NEW e \in Element, S.parent[e] = NULL,
           NEW x \in Element, e \in Line(S, x)
    PROVE  ~Connected(S, x)
<1> DEFINE C == {y \in Element : e \in Line(S, y)} \cup {NULL}
<1>1. ASSUME NEW y \in C \cap Element PROVE S.parent[y] \in C
  <2>1. e \in Line(S, y)
    BY <1>1, NamesAssumption
  <2>2. CASE y = e
    BY <2>2
  <2>3. CASE y # e
    <3>1. Line(S, y) = {y} \cup IF S.parent[y] \in Element THEN Line(S, S.parent[y])
                                ELSE {S.parent[y]}
      BY LineEquation DEF Ordered
    <3>2. S.parent[y] \in Element /\ e \in Line(S, S.parent[y])
      BY <2>1, <2>3, <3>1
    <3> QED BY <3>2
  <2> QED BY <2>2, <2>3
<1>2. x \in C /\ Closed(S, C)
  <2> HIDE DEF C
  <2>1. Closed(S, C)
    BY <1>1 DEF Closed
  <2> QED BY <2>1 DEF C
<1>3. Line(S, x) \subseteq C
  <2> HIDE DEF C
  <2> QED BY <1>2, LineLeast
<1>4. Doc \notin C
  BY NamesAssumption
<1> QED BY <1>3, <1>4 DEF Connected

\* A line that e is not on does not depend on where e is.
LEMMA LinesApart ==
    ASSUME NEW S, NEW T, NEW e \in Element, Ordered(S), Ordered(T),
           \A y \in Element : y # e => T.parent[y] = S.parent[y],
           NEW x \in Element, e \notin Line(S, x)
    PROVE  Line(T, x) = Line(S, x)
<1>1. Closed(S, Line(S, x)) /\ x \in Line(S, x)
  BY LineInside, LineHas DEF Ordered
<1>2. Closed(T, Line(S, x))
  BY <1>1 DEF Closed
<1>3. Line(T, x) \subseteq Line(S, x)
  BY <1>1, <1>2, LineLeast
<1>4. Closed(T, Line(T, x)) /\ x \in Line(T, x)
  BY LineInside, LineHas DEF Ordered
<1>5. Closed(S, Line(T, x))
  BY <1>3, <1>4 DEF Closed
<1>6. Line(S, x) \subseteq Line(T, x)
  BY <1>4, <1>5, LineLeast
<1> QED BY <1>3, <1>6

-----------------------------------------------------------------------------
(* What is declared.                                                       *)

LEMMA DeclaredIs ==
    ASSUME NEW from, NEW sp, NEW decls \in Seq(Declaration), NEW p,
           NEW d \in Declarations(from, sp, decls, p)
    PROVE  \E c \in Declaration : d.entry = [from |-> from, sp |-> Weight(sp, c)]
<1>1. PICK k \in DOMAIN decls :
         d = [entry |-> [from |-> from, sp |-> Weight(sp, decls[k])], nth |-> k]
  BY DEF Declarations
<1>2. decls[k] \in Declaration
  OBVIOUS
<1> QED BY <1>1, <1>2

\* A declaration of a stylesheet says which matching rule it is from.
LEMMA CascadedEntry ==
    ASSUME NEW S, S.sheets \in Seq(Sheet), NEW e, NEW p, NEW d \in Cascaded(S, e, p)
    PROVE  /\ d.entry \in Entry /\ ~IsInline(d.entry) /\ d.entry.from # Inline
           /\ d.entry.from[1] \in Range(S.sheets)
           /\ d.entry.from[2] \in DOMAIN Rules[d.entry.from[1]]
           /\ Matches(S, Rules[d.entry.from[1]][d.entry.from[2]], e)
<1>1. PICK s \in Range(S.sheets) : \E i \in DOMAIN Rules[s] :
         /\ Matches(S, Rules[s][i], e)
         /\ d \in Declarations(<<s, i>>, Rules[s][i].sp, Rules[s][i].decls, p)
  BY DEF Cascaded
<1>2. PICK i \in DOMAIN Rules[s] :
         /\ Matches(S, Rules[s][i], e)
         /\ d \in Declarations(<<s, i>>, Rules[s][i].sp, Rules[s][i].decls, p)
  BY <1>1
<1>3. s \in Sheet /\ i \in 1 .. Len(Rules[s]) /\ i \in Nat /\ i # 0
  BY RulesAssumption DEF Range
<1>4. Rules[s][i].decls \in Seq(Declaration)
  <2>1. Rules[s][i] \in Rule
    BY <1>3, RulesAssumption
  <2> QED BY <2>1 DEF Rule
<1>5. PICK c \in Declaration : d.entry = [from |-> <<s, i>>, sp |-> Weight(Rules[s][i].sp, c)]
  BY <1>2, <1>4, DeclaredIs
<1>6. d.entry \in Entry /\ ~IsInline(d.entry)
  BY <1>3, <1>5, RuleEntry
<1>7. d.entry.from = <<s, i>> /\ d.entry.from[1] = s /\ d.entry.from[2] = i
  BY <1>5
<1>8. d.entry.from # Inline
  BY <1>3, <1>7 DEF Inline
<1> QED BY <1>2, <1>6, <1>7, <1>8

LEMMA InlinedEntry ==
    ASSUME NEW t \in Texts \cup {NULL}, NEW p, NEW d \in Inlined(t, p)
    PROVE  d.entry \in Entry /\ IsInline(d.entry) /\ d.entry.from = Inline
<1>1. t \in Texts /\ d \in Declarations(Inline, InlineBit, t, p)
  BY DEF Inlined
<1>2. PICK c \in Declaration : d.entry = [from |-> Inline, sp |-> Weight(InlineBit, c)]
  BY <1>1, TextsAssumption, DeclaredIs
<1> QED BY <1>2, InlineWeight DEF InlineEntry

\* What is declared depends on the line and on the stylesheets.
LEMMA SameCascade ==
    ASSUME NEW S, NEW T, NEW e, Line(T, e) = Line(S, e),
           Range(T.sheets) = Range(S.sheets), NEW p
    PROVE  Cascaded(T, e, p) = Cascaded(S, e, p)
BY DEF Cascaded, Matches

\* Without a stylesheet, what it declares is missing, and nothing else.
LEMMA LessCascade ==
    ASSUME NEW S, NEW T, NEW e, Line(T, e) = Line(S, e), S.sheets \in Seq(Sheet),
           NEW s, Range(T.sheets) = Range(S.sheets) \ {s}, NEW p
    PROVE  \A d : d \in Cascaded(T, e, p) <=> d \in Cascaded(S, e, p) /\ d.entry.from[1] # s
<1> DEFINE given(r) == UNION {Declarations(<<r, i>>, Rules[r][i].sp, Rules[r][i].decls, p) :
                                i \in {i \in DOMAIN Rules[r] : Matches(S, Rules[r][i], e)}}
<1>1. Cascaded(S, e, p) = UNION {given(r) : r \in Range(S.sheets)}
  BY DEF Cascaded
<1>2. Cascaded(T, e, p) = UNION {given(r) : r \in Range(T.sheets)}
  BY DEF Cascaded, Matches
<1>3. \A r : \A d \in given(r) : d.entry.from[1] = r
  BY DEF Declarations
<1> HIDE DEF given
<1> QED BY <1>1, <1>2, <1>3

\* With one more, what it declares is there too.
LEMMA MoreCascade ==
    ASSUME NEW S, NEW T, NEW e, Line(T, e) = Line(S, e), S.sheets \in Seq(Sheet),
           NEW s \in Sheet, Range(T.sheets) = Range(S.sheets) \cup {s}, NEW p
    PROVE  Cascaded(T, e, p) = Cascaded(S, e, p) \cup OfRules(T, s, e, p, Len(Rules[s]))
<1> DEFINE given(r) == UNION {Declarations(<<r, i>>, Rules[r][i].sp, Rules[r][i].decls, p) :
                                i \in {i \in DOMAIN Rules[r] : Matches(S, Rules[r][i], e)}}
<1>1. Cascaded(S, e, p) = UNION {given(r) : r \in Range(S.sheets)}
  BY DEF Cascaded
<1>2. Cascaded(T, e, p) = UNION {given(r) : r \in Range(T.sheets)}
  BY DEF Cascaded, Matches
<1>3. OfRules(T, s, e, p, Len(Rules[s])) = given(s)
  <2>1. DOMAIN Rules[s] = 1 .. Len(Rules[s])
    BY RulesAssumption
  <2> QED BY <2>1 DEF OfRules, Matches
<1> HIDE DEF given
<1> QED BY <1>1, <1>2, <1>3

-----------------------------------------------------------------------------
(* What the lists of an element hold.                                      *)

LEMMA FullSame ==
    ASSUME NEW L, NEW E, NEW F, NEW R, Full(L, E, R), \A p \in Properties : F[p] = E[p]
    PROVE  Full(L, F, R)
BY DEF Full

LEMMA FullWeaker ==
    ASSUME NEW L, NEW E, NEW Q, NEW R, Full(L, E, R), Q \subseteq R
    PROVE  Full(L, E, Q)
BY DEF Full, InOrder

LEMMA FullEntry ==
    ASSUME NEW L, NEW E, NEW R, Full(L, E, R), NEW p \in Properties
    PROVE  /\ \A i \in DOMAIN L[p] : \E d \in E[p] : L[p][i] = d.entry
           /\ \A d \in E[p] : \E i \in DOMAIN L[p] : L[p][i] = d.entry
BY DEF Full, Holds

LEMMA FullWithout ==
    ASSUME NEW L \in Lists(Entry), NEW E, NEW R, Full(L, E, R), NEW gone
    PROVE  /\ [p \in Properties |-> Without(L[p], gone)] \in Lists(Entry)
           /\ Full([p \in Properties |-> Without(L[p], gone)],
                   [p \in Properties |-> {d \in E[p] : d.entry \notin gone}], R)
<1>1. ASSUME NEW p \in Properties
      PROVE  /\ Without(L[p], gone) \in Seq(Entry)
             /\ Holds(Without(L[p], gone), {d \in E[p] : d.entry \notin gone})
             /\ InOrder(Without(L[p], gone), R)
  <2>1. L[p] \in Seq(Entry) /\ Holds(L[p], E[p]) /\ InOrder(L[p], R)
    BY DEF Lists, Full
  <2>2. Without(L[p], gone) \in Seq(Entry)
    BY <2>1, WithoutPicks
  <2>3. PICK g : Picks(Without(L[p], gone), L[p], gone, Len(L[p]), g)
    BY <2>1, WithoutPicks
  <2> QED BY <2>1, <2>2, <2>3, HoldsPicks, InOrderPicks
<1> QED BY <1>1 DEF Lists, Full

\* Entries of the style attribute are ordered alike with any stylesheets.
LEMMA InlineOrder ==
    ASSUME NEW L \in Lists(Entry), NEW E, Full(L, E, Heavier),
           \A p \in Properties : \A d \in E[p] : d.entry.from = Inline,
           NEW Q \in Seq(Sheet)
    PROVE  Full(L, E, Order(Q))
<1> SUFFICES ASSUME NEW p \in Properties, NEW i \in DOMAIN L[p], NEW j \in DOMAIN L[p], i < j
             PROVE  <<L[p][j], L[p][i]>> \notin Order(Q)
  BY DEF Full, InOrder
<1> DEFINE x == L[p][j]
           y == L[p][i]
<1>1. x \in Entry /\ y \in Entry
  BY DEF Lists
<1>2. x.from = Inline /\ y.from = Inline
  BY FullEntry
<1>3. ~(x.sp > y.sp)
  <2>1. <<x, y>> \notin Heavier
    BY DEF Full, InOrder
  <2> HIDE DEF x, y
  <2> QED BY <1>1, <2>1, OrderIs
<1> HIDE DEF x, y
<1>4. ~After(Q, x, y)
  <2>1. x.from[1] = NULL /\ x.from[2] = 0 /\ y.from[1] = NULL /\ y.from[2] = 0
    BY <1>2 DEF Inline
  <2>2. \A k \in DOMAIN Q : Q[k] # NULL
    BY NamesAssumption
  <2> QED BY <2>1, <2>2 DEF After
<1>5. ~Beats(Q, x, y)
  BY <1>3, <1>4 DEF Beats
<1>6. <<x, y>> \notin Order(Q)
  BY <1>1, <1>5, OrderIs
<1> QED BY <1>6 DEF x, y
\* Where a stylesheet is added at the end, the order of what is there stays.
LEMMA OrderMore ==
    ASSUME NEW L \in Lists(Entry), NEW E, NEW Q \in Seq(Sheet), NEW s \in Sheet,
           Full(L, E, Order(Q)), \A p \in Properties : \A d \in E[p] : d.entry.from[1] # s
    PROVE  Full(L, E, Order(Append(Q, s)))
<1> DEFINE W == Append(Q, s)
<1> SUFFICES ASSUME NEW p \in Properties, NEW i \in DOMAIN L[p], NEW j \in DOMAIN L[p], i < j
             PROVE  <<L[p][j], L[p][i]>> \notin Order(W)
  BY DEF Full, InOrder
<1> DEFINE x == L[p][j]
           y == L[p][i]
<1>1. x \in Entry /\ y \in Entry
  BY DEF Lists
<1>2. x.from[1] # s /\ y.from[1] # s
  BY FullEntry
<1>3. ~Beats(Q, x, y)
  <2>1. <<x, y>> \notin Order(Q)
    BY DEF Full, InOrder
  <2> HIDE DEF x, y
  <2> QED BY <1>1, <2>1, OrderIs
<1> HIDE DEF x, y, W
<1>4. \A k \in DOMAIN W : W[k] # s => k \in DOMAIN Q /\ W[k] = Q[k]
  BY DEF W
<1>5. ~Beats(W, x, y)
  BY <1>2, <1>3, <1>4 DEF Beats, After
<1>6. <<x, y>> \notin Order(W)
  BY <1>1, <1>5, OrderIs
<1> QED BY <1>6 DEF x, y

\* Where some are taken out, nothing else is in order than before.
LEMMA OrderLess ==
    ASSUME NEW Q \in Seq(Sheet), NEW W \in Seq(Sheet), NEW gone, NEW g,
           Picks(W, Q, gone, Len(Q), g)
    PROVE  Order(W) \subseteq Order(Q)
<1> SUFFICES ASSUME NEW x \in Entry, NEW y \in Entry, Beats(W, x, y) PROVE Beats(Q, x, y)
  BY DEF Order
<1>1. \A k \in DOMAIN W : g[k] \in DOMAIN Q /\ W[k] = Q[g[k]]
  BY DEF Picks
<1>2. \A k, l \in DOMAIN W : k < l => g[k] < g[l]
  BY DEF Picks
<1> QED BY <1>1, <1>2 DEF Beats, After

-----------------------------------------------------------------------------
(* What an element has.                                                    *)

\* What a computation from scratch would give e.
Whole(S, l, e) == [p \in Properties |-> Cascaded(S, e, p) \cup Inlined(l[e], p)]

Current(S, l, e) == Full(S.style[e], Whole(S, l, e), Order(S.sheets))

\* The lists have what the style attribute declares, and anything else.
Proper(D) == \A d \in D : IsInline(d.entry) <=> d.entry.from = Inline

Owns(E, t) ==
    \A p \in Properties : /\ Proper(E[p])
                          /\ {d \in E[p] : IsInline(d.entry)} = Inlined(t, p)

Owned(L, t) == \E E : Full(L, E, Heavier) /\ Owns(E, t)

LEMMA WholeOwns ==
    ASSUME NEW S, S.sheets \in Seq(Sheet), NEW l, NEW e, l[e] \in Texts \cup {NULL}
    PROVE  Owns(Whole(S, l, e), l[e])
<1> SUFFICES ASSUME NEW p \in Properties
             PROVE  /\ Proper(Cascaded(S, e, p) \cup Inlined(l[e], p))
                    /\ {d \in Cascaded(S, e, p) \cup Inlined(l[e], p) : IsInline(d.entry)}
                          = Inlined(l[e], p)
  BY DEF Owns, Whole
<1>1. \A d \in Cascaded(S, e, p) : ~IsInline(d.entry) /\ d.entry.from # Inline
  BY CascadedEntry
<1>2. \A d \in Inlined(l[e], p) : IsInline(d.entry) /\ d.entry.from = Inline
  BY InlinedEntry
<1> QED BY <1>1, <1>2 DEF Proper

LEMMA HeavierIn ==
    ASSUME NEW R, IsOrder(R)
    PROVE  Heavier \subseteq R
<1> SUFFICES ASSUME NEW t \in Entry \X Entry, t[1].sp > t[2].sp PROVE t \in R
  BY DEF Heavier
<1>1. t[1] \in Entry /\ t[2] \in Entry /\ t = <<t[1], t[2]>>
  OBVIOUS
<1>2. <<t[1], t[2]>> \in R
  BY <1>1 DEF IsOrder
<1> QED BY <1>1, <1>2

LEMMA CurrentOwned ==
    ASSUME NEW S, S.sheets \in Seq(Sheet), IsInjective(S.sheets), NEW l, NEW e,
           l[e] \in Texts \cup {NULL}, Current(S, l, e)
    PROVE  Owned(S.style[e], l[e])
<1>1. Heavier \subseteq Order(S.sheets)
  BY OrderIsOrder, HeavierIn
<1>2. Full(S.style[e], Whole(S, l, e), Heavier)
  BY <1>1, FullWeaker DEF Current
<1> QED BY <1>2, WholeOwns DEF Owned

\* Without what is not from the style attribute, the rest is what it declares.
LEMMA OwnedBare ==
    ASSUME NEW L \in Lists(Entry), NEW t, Owned(L, t), NEW gone,
           \A p \in Properties : \A i \in DOMAIN L[p] :
              L[p][i] \in gone <=> ~IsInline(L[p][i])
    PROVE  /\ [p \in Properties |-> Without(L[p], gone)] \in Lists(Entry)
           /\ Full([p \in Properties |-> Without(L[p], gone)],
                   [p \in Properties |-> Inlined(t, p)], Heavier)
<1>1. PICK E : Full(L, E, Heavier) /\ Owns(E, t)
  BY DEF Owned
<1> DEFINE M == [p \in Properties |-> Without(L[p], gone)]
           F == [p \in Properties |-> {d \in E[p] : d.entry \notin gone}]
<1>2. M \in Lists(Entry) /\ Full(M, F, Heavier)
  BY <1>1, FullWithout
<1>3. ASSUME NEW p \in Properties PROVE F[p] = Inlined(t, p)
  <2>1. \A d \in E[p] : \E i \in DOMAIN L[p] : L[p][i] = d.entry
    BY <1>1, FullEntry
  <2>2. \A d \in E[p] : d.entry \notin gone <=> IsInline(d.entry)
    BY <2>1
  <2>3. {d \in E[p] : IsInline(d.entry)} = Inlined(t, p)
    BY <1>1 DEF Owns
  <2> QED BY <2>2, <2>3
<1> HIDE DEF M, F
<1>4. Full(M, [p \in Properties |-> Inlined(t, p)], Heavier)
  BY <1>2, <1>3, FullSame
<1> QED BY <1>2, <1>4 DEF M

\* A list with nothing else is that already.
LEMMA OwnedInline ==
    ASSUME NEW L \in Lists(InlineEntry), NEW t, Owned(L, t)
    PROVE  Full(L, [p \in Properties |-> Inlined(t, p)], Heavier)
<1>1. PICK E : Full(L, E, Heavier) /\ Owns(E, t)
  BY DEF Owned
<1>2. ASSUME NEW p \in Properties PROVE E[p] = Inlined(t, p)
  <2>1. \A i \in DOMAIN L[p] : IsInline(L[p][i])
    <3>1. L[p] \in Seq(InlineEntry)
      BY DEF Lists
    <3>2. \A i \in DOMAIN L[p] : L[p][i] \in InlineEntry
      BY <3>1
    <3> QED BY <3>2 DEF InlineEntry
  <2>2. \A d \in E[p] : IsInline(d.entry)
    BY <1>1, <2>1, FullEntry
  <2>3. {d \in E[p] : IsInline(d.entry)} = Inlined(t, p)
    BY <1>1 DEF Owns
  <2> QED BY <2>2, <2>3
<1> QED BY <1>1, <1>2, FullSame

\* A new style attribute takes the place of the old one.
Restyled(E, u) ==
    [p \in Properties |-> {d \in E[p] : ~IsInline(d.entry)} \cup Inlined(u, p)]

LEMMA InlineDropped ==
    ASSUME NEW L \in Lists(Entry), NEW E, NEW R, Full(L, E, R), NEW t, Owns(E, t),
           NEW gone, \A p \in Properties : \A i \in DOMAIN L[p] :
                        L[p][i] \in gone <=> IsInline(L[p][i]),
           NEW M, M = IF t = NULL THEN L ELSE [p \in Properties |-> Without(L[p], gone)]
    PROVE  M \in Lists(Entry) /\ Full(M, Restyled(E, NULL), R)
<1> DEFINE F == Restyled(E, NULL)
<1>1. \A p \in Properties : F[p] = {d \in E[p] : ~IsInline(d.entry)}
  BY DEF Restyled, Inlined
<1> HIDE DEF F
<1>2. CASE t = NULL
  <2>1. \A p \in Properties : F[p] = E[p]
    <3>1. \A p \in Properties : {d \in E[p] : IsInline(d.entry)} = {}
      BY <1>2 DEF Owns, Inlined
    <3> QED BY <1>1, <3>1
  <2>2. M = L
    BY <1>2
  <2> QED BY <2>1, <2>2, FullSame DEF F
<1>3. CASE t # NULL
  <2> DEFINE K == [p \in Properties |-> Without(L[p], gone)]
             G == [p \in Properties |-> {d \in E[p] : d.entry \notin gone}]
  <2>1. K \in Lists(Entry) /\ Full(K, G, R)
    BY FullWithout
  <2>2. \A p \in Properties : F[p] = G[p]
    <3>1. \A p \in Properties : \A d \in E[p] : \E i \in DOMAIN L[p] : L[p][i] = d.entry
      BY FullEntry
    <3>2. \A p \in Properties : \A d \in E[p] : d.entry \notin gone <=> ~IsInline(d.entry)
      BY <3>1
    <3> QED BY <1>1, <3>2
  <2>3. M = K
    BY <1>3
  <2> HIDE DEF K, G
  <2> QED BY <2>1, <2>2, <2>3, FullSame DEF F
<1> QED BY <1>2, <1>3

LEMMA InlineAdded ==
    ASSUME NEW M \in Lists(Entry), NEW E, NEW R, IsOrder(R), Full(M, Restyled(E, NULL), R),
           NEW t, Owns(E, t), NEW u \in Texts
    PROVE  /\ ListAppend(M, Inline, InlineBit, u) \in Lists(Entry)
           /\ Full(ListAppend(M, Inline, InlineBit, u), Restyled(E, u), R)
<1> DEFINE F == Restyled(E, NULL)
           N == ListAppend(M, Inline, InlineBit, u)
           G == [p \in Properties |-> F[p] \cup Declarations(Inline, InlineBit, u, p)]
<1>1. \A p \in Properties : F[p] = {d \in E[p] : ~IsInline(d.entry)}
  BY DEF Restyled, Inlined
<1> HIDE DEF F
<1>2. Foremost(F, R, Inline, InlineBit)
  <2>1. ASSUME NEW p \in Properties, NEW d \in F[p]
        PROVE  /\ d.entry.from # Inline
               /\ \A x \in Weighed(Inline, InlineBit) : x.sp # d.entry.sp
    <3>1. ~IsInline(d.entry) /\ d.entry.from # Inline
      BY <1>1 DEF Owns, Proper
    <3>2. \A x \in Weighed(Inline, InlineBit) : IsInline(x)
      BY InlineWeight DEF Weighed, InlineEntry
    <3> QED BY <3>1, <3>2 DEF IsInline
  <2> QED BY <2>1 DEF Foremost
<1>3. Weighed(Inline, InlineBit) \subseteq Entry
  BY InlineWeight DEF Weighed, InlineEntry
<1>4. u \in Seq(Declaration) /\ \A p : Inlined(u, p) = Declarations(Inline, InlineBit, u, p)
  BY TextsAssumption, NamesAssumption DEF Inlined
<1>5. N \in Lists(Entry) /\ Full(N, G, R)
  BY <1>2, <1>3, <1>4, ListAppendFull DEF F
<1>6. \A p \in Properties : Restyled(E, u)[p] = G[p]
  BY <1>1, <1>4 DEF Restyled
<1> HIDE DEF N, G
<1>7. Full(N, Restyled(E, u), R)
  BY <1>5, <1>6, FullSame
<1> QED BY <1>5, <1>7 DEF N

-----------------------------------------------------------------------------
(* Stylesheets come and go.                                                *)

LEMMA AppendIs ==
    ASSUME NEW Q \in Seq(Sheet), IsInjective(Q), NEW s \in Sheet
    PROVE  /\ Append(Q, s) \in Seq(Sheet) /\ Range(Append(Q, s)) = Range(Q) \cup {s}
           /\ s \notin Range(Q) => IsInjective(Append(Q, s))
<1> DEFINE W == Append(Q, s)
<1>1. /\ W \in Seq(Sheet) /\ DOMAIN W = 1 .. Len(Q) + 1 /\ DOMAIN Q = 1 .. Len(Q)
      /\ W[Len(Q) + 1] = s
      /\ \A i \in 1 .. Len(Q) : W[i] = Q[i] /\ i \in 1 .. Len(Q) + 1
      /\ \A i \in 1 .. Len(Q) + 1 : i \in 1 .. Len(Q) \/ i = Len(Q) + 1
      /\ Len(Q) + 1 \in 1 .. Len(Q) + 1
  OBVIOUS
<1> HIDE DEF W
<1>2. W \in Seq(Sheet) /\ Range(W) = Range(Q) \cup {s} /\ (s \notin Range(Q) => IsInjective(W))
  BY <1>1 DEF IsInjective, Range
<1> QED BY <1>2 DEF W

LEMMA StrikeRange ==
    ASSUME NEW Q \in Seq(Sheet), IsInjective(Q), NEW s
    PROVE  /\ Strike(Q, s) \in Seq(Sheet) /\ IsInjective(Strike(Q, s))
           /\ Range(Strike(Q, s)) = Range(Q) \ {s}
<1> DEFINE W == Strike(Q, s)
<1>1. PICK g : Picks(W, Q, {s}, Len(Q), g)
  BY StrikePicks
<1>2. W \in Seq(Sheet)
  BY StrikeIs
<1> HIDE DEF W
<1>3. DOMAIN Q = 1 .. Len(Q)
  OBVIOUS
<1>4. \A k \in DOMAIN W : g[k] \in DOMAIN Q /\ W[k] = Q[g[k]] /\ Q[g[k]] # s
  BY <1>1, <1>3 DEF Picks
<1>5. \A j \in DOMAIN Q : Q[j] # s => \E k \in DOMAIN W : W[k] = Q[j]
  BY <1>1, <1>3 DEF Picks
<1>6. IsInjective(W)
  <2>1. \A k, l \in DOMAIN W : W[k] = W[l] => g[k] = g[l]
    BY <1>4 DEF IsInjective
  <2>2. \A k, l \in DOMAIN W : g[k] = g[l] => ~(k < l)
    <3>1. \A k, l \in DOMAIN W : k < l => g[k] < g[l]
      BY <1>1 DEF Picks
    <3>2. \A k \in DOMAIN W : g[k] \in Int
      BY <1>3, <1>4
    <3> QED BY <3>1, <3>2
  <2>3. \A k, l \in DOMAIN W : ~(k < l) /\ ~(l < k) => k = l
    BY <1>2
  <2> QED BY <2>1, <2>2, <2>3 DEF IsInjective
<1>7. Range(W) = Range(Q) \ {s}
  BY <1>4, <1>5 DEF Range
<1> QED BY <1>2, <1>6, <1>7 DEF W

LEMMA AttachedCurrent ==
    ASSUME NEW S \in Typed, IsInjective(S.sheets),
           NEW s \in Sheet, s \notin Range(S.sheets), NEW l, NEW x \in Element,
           l[x] \in Texts \cup {NULL}, Connected(S, x), Current(S, l, x)
    PROVE  Current(StylesheetAttach(S, s), l, x)
<1> DEFINE Q == S.sheets
           W == Append(Q, s)
           T == [S EXCEPT !.sheets = W]
           U == StylesheetAttach(S, s)
           E == Whole(S, l, x)
           F == [p \in Properties |-> E[p] \cup OfRules(T, s, x, p, Len(Rules[s]))]
           L == AttachSheet(T, S.style[x], s, x)
<1>1. Q \in Seq(Sheet) /\ W \in Seq(Sheet) /\ S.style[x] \in Lists(Entry)
  BY DEF Typed, Lists
<1>2. IsInjective(W) /\ Range(W) = Range(Q) \cup {s}
  BY <1>1, AppendIs
<1>3. /\ T.sheets = W /\ T.parent = S.parent /\ T.style = S.style /\ T \in Typed
      /\ Line(T, x) = Line(S, x) /\ Connected(T, x)
  <2>1. T.sheets = W /\ T.parent = S.parent /\ T.style = S.style /\ T \in Typed
    BY <1>1 DEF Typed
  <2> HIDE DEF T
  <2> QED BY <2>1, SameLines
<1>4. \A p \in Properties : \A d \in E[p] : d.entry.from[1] \in Range(Q) \cup {NULL}
  <2>1. \A p \in Properties : \A d \in Cascaded(S, x, p) : d.entry.from[1] \in Range(Q)
    BY <1>1, CascadedEntry
  <2>2. \A p \in Properties : \A d \in Inlined(l[x], p) : d.entry.from[1] = NULL
    <3> HIDE DEF Q, W, T, U, E, F, L
    <3>1. \A p \in Properties : \A d \in Inlined(l[x], p) : d.entry.from = Inline
      BY InlinedEntry
    <3>2. Inline[1] = NULL
      BY DEF Inline
    <3> QED BY <3>1, <3>2
  <2> QED BY <2>1, <2>2 DEF Whole
<1>5. Full(S.style[x], E, Order(W))
  <2>1. \A p \in Properties : \A d \in E[p] : d.entry.from[1] # s
    BY <1>4, NamesAssumption
  <2>2. Full(S.style[x], E, Order(Q))
    BY DEF Current
  <2> HIDE DEF E, Q
  <2> QED BY <1>1, <2>1, <2>2, OrderMore
<1>6. Latest(W, E, s)
  <2>1. ASSUME NEW p \in Properties, NEW d \in E[p]
        PROVE  /\ d.entry.from[1] # s
               /\ \A i, j \in DOMAIN W : i < j => ~(W[i] = s /\ W[j] = d.entry.from[1])
    <3>1. d.entry.from[1] # s
      BY <1>4, NamesAssumption
    <3>2. \A i, j \in DOMAIN W : W[i] = s /\ i < j => FALSE
      <4>1. \A i \in DOMAIN W : W[i] = s => i = Len(Q) + 1
        <5>1. Len(Q) + 1 \in DOMAIN W /\ W[Len(Q) + 1] = s
          BY <1>1
        <5> HIDE DEF W
        <5> QED BY <1>2, <5>1 DEF IsInjective
      <4>2. \A j \in DOMAIN W : ~(Len(Q) + 1 < j)
        BY <1>1
      <4> HIDE DEF W, Q
      <4> QED BY <4>1, <4>2
    <3> HIDE DEF W, Q
    <3> QED BY <3>1, <3>2
  <2> HIDE DEF E, W
  <2> QED BY <2>1 DEF Latest
<1>7. Full(L, F, Order(W))
  <2> DEFINE M == S.style[x]
  <2> HIDE DEF T, E, W, M, U, F
  <2>1. /\ T.sheets \in Seq(Sheet) /\ IsInjective(T.sheets) /\ Order(T.sheets) = Order(W)
        /\ Latest(T.sheets, E, s) /\ M \in Lists(Entry) /\ Full(M, E, Order(T.sheets))
    BY <1>1, <1>2, <1>3, <1>5, <1>6 DEF M
  <2>2. Full(AttachSheet(T, M, s, x),
             [p \in Properties |-> E[p] \cup OfRules(T, s, x, p, Len(Rules[s]))],
             Order(T.sheets))
    <3> HIDE DEF L, Q
    <3> QED BY <2>1, AttachSheetFull, ZenonT(60)
  <2> QED BY <2>1, <2>2 DEF M, F
<1>8. /\ U.style[x] = L /\ U.sheets = W /\ Line(U, x) = Line(S, x)
  <2>1. U = Apply(T, s)
    BY DEF StylesheetAttach
  <2> HIDE DEF T, U, L
  <2>2. U.style[x] = AttachSheet(T, T.style[x], s, x) /\ U.sheets = T.sheets
        /\ U.parent = T.parent
    BY <1>3, <2>1 DEF Apply, Typed
  <2>3. Line(U, x) = Line(T, x)
    BY <2>2, SameLines
  <2> QED BY <1>3, <2>2, <2>3 DEF L
<1>9. \A p \in Properties : Whole(U, l, x)[p] = F[p]
  <2>1. \A p \in Properties :
           Cascaded(U, x, p) = Cascaded(S, x, p) \cup OfRules(T, s, x, p, Len(Rules[s]))
    <3>1. \A p : Cascaded(U, x, p) = Cascaded(S, x, p) \cup OfRules(U, s, x, p, Len(Rules[s]))
      <4> HIDE DEF U, W
      <4> QED BY <1>1, <1>2, <1>8, MoreCascade
    <3>2. \A p : OfRules(U, s, x, p, Len(Rules[s])) = OfRules(T, s, x, p, Len(Rules[s]))
      <4> HIDE DEF U, T
      <4> QED BY <1>3, <1>8 DEF OfRules, Matches
    <3> HIDE DEF U, T
    <3> QED BY <3>1, <3>2
  <2> HIDE DEF U, T
  <2> QED BY <2>1 DEF Whole
<1> HIDE DEF U, F, L, T, W
<1>10. Full(U.style[x], Whole(U, l, x), Order(U.sheets))
  BY <1>7, <1>8, <1>9, FullSame
<1> QED BY <1>10 DEF Current, U

LEMMA RemovedCurrent ==
    ASSUME NEW S \in Typed, IsInjective(S.sheets),
           NEW s \in Sheet, NEW l, NEW x \in Element,
           l[x] \in Texts \cup {NULL}, Connected(S, x), Current(S, l, x)
    PROVE  Current(StylesheetRemove(S, s), l, x)
<1> DEFINE Q == S.sheets
           W == Strike(Q, s)
           U == StylesheetRemove(S, s)
           L == S.style[x]
           gone == {y \in Entries(S, x) : y.from[1] = s /\ Matches(S, Rules[s][y.from[2]], x)}
           M == [p \in Properties |-> Without(L[p], gone)]
           E == Whole(S, l, x)
           F == [p \in Properties |-> {d \in E[p] : d.entry \notin gone}]
<1>1. Q \in Seq(Sheet) /\ W \in Seq(Sheet) /\ L \in Lists(Entry)
  BY StrikeIs DEF Typed
<1>2. PICK g : Picks(W, Q, {s}, Len(Q), g)
  BY <1>1, StrikePicks
<1>3. Range(W) = Range(Q) \ {s}
  BY <1>1, StrikeRange
<1>4. U.style[x] = M /\ U.sheets = W /\ U.parent = S.parent
  <2> DEFINE T == Unapply(S, s)
  <2>1. T.style[x] = Drop(S, x, gone).style[x]
    BY DEF Unapply, Typed
  <2>2. Drop(S, x, gone).style[x] = M
    <3> HIDE DEF gone
    <3> QED BY DEF Drop, Typed
  <2>3. T \in Typed /\ T.sheets = Q /\ T.parent = S.parent
    BY UnapplyIs
  <2> HIDE DEF T, gone, M
  <2>4. U = [T EXCEPT !.sheets = Strike(T.sheets, s)]
    BY DEF StylesheetRemove, T
  <2> HIDE DEF U
  <2> QED BY <2>1, <2>2, <2>3, <2>4 DEF Typed
<1>5. Full(M, F, Order(W))
  <2>1. Order(W) \subseteq Order(Q)
    BY <1>1, <1>2, OrderLess
  <2>2. Full(L, E, Order(Q))
    BY DEF Current
  <2> HIDE DEF gone, E, L, W, Q, U
  <2>3. Full(M, F, Order(Q))
    <3> DEFINE R == Order(Q)
    <3>1. L \in Lists(Entry) /\ Full(L, E, R)
      BY <1>1, <2>2
    <3> HIDE DEF R, M, F
    <3>2. Full([p \in Properties |-> Without(L[p], gone)],
               [p \in Properties |-> {d \in E[p] : d.entry \notin gone}], R)
      BY <3>1, FullWithout
    <3> QED BY <3>2 DEF M, F, R
  <2> HIDE DEF M, F
  <2> QED BY <2>1, <2>3, FullWeaker
<1>6. ASSUME NEW p \in Properties, NEW d \in E[p]
      PROVE  /\ d \in Cascaded(S, x, p) => (d.entry \notin gone <=> d.entry.from[1] # s)
             /\ d \in Inlined(l[x], p) => d.entry \notin gone
  <2>1. d.entry \in Entries(S, x)
    <3>1. PICK i \in DOMAIN L[p] : L[p][i] = d.entry
      <4> HIDE DEF E, L
      <4>1. Full(L, E, Order(Q))
        BY DEF Current, L, E
      <4> QED BY <1>6, <4>1, FullEntry
    <3> QED BY <3>1 DEF Entries, Range
  <2>2. d \in Cascaded(S, x, p) => Matches(S, Rules[d.entry.from[1]][d.entry.from[2]], x)
    BY <1>1, CascadedEntry
  <2>3. d \in Inlined(l[x], p) => d.entry.from[1] # s
    BY InlinedEntry, NamesAssumption DEF Inline
  <2> QED BY <2>1, <2>2, <2>3
<1>7. Line(U, x) = Line(S, x)
  <2> HIDE DEF U
  <2> QED BY <1>4, SameLines
<1>8. \A p \in Properties : Whole(U, l, x)[p] = F[p]
  <2>1. \A p : Cascaded(U, x, p) = {d \in Cascaded(S, x, p) : d.entry.from[1] # s}
    <3> HIDE DEF U, W
    <3>1. Line(U, x) = Line(S, x) /\ Range(U.sheets) = Range(S.sheets) \ {s}
      BY <1>3, <1>4, <1>7
    <3>2. S.sheets \in Seq(Sheet)
      BY <1>1
    <3> HIDE DEF M, Q
    <3>3. \A p, d : d \in Cascaded(U, x, p) <=> d \in Cascaded(S, x, p) /\ d.entry.from[1] # s
      BY <3>1, <3>2, LessCascade
    <3> QED BY <3>3
  <2>2. \A p \in Properties : E[p] = Cascaded(S, x, p) \cup Inlined(l[x], p)
    BY DEF Whole
  <2>3. \A p \in Properties : \A d \in Inlined(l[x], p) : d \in E[p]
    BY <2>2
  <2> HIDE DEF gone, U, E
  <2>4. ASSUME NEW p \in Properties
        PROVE  {d \in Cascaded(S, x, p) : d.entry.from[1] # s} \cup Inlined(l[x], p)
                  = {d \in E[p] : d.entry \notin gone}
    BY <1>6, <2>2
  <2> QED BY <2>1, <2>4 DEF Whole
<1> HIDE DEF U, F, M, W, E
<1>9. Full(U.style[x], Whole(U, l, x), Order(U.sheets))
  BY <1>4, <1>5, <1>8, FullSame
<1> QED BY <1>9 DEF Current, U

\* What the insertion of x does to x itself.
Told(T, x) ==
    LET U == IF T.dirty[x] THEN Drop(T, x, {y \in Entries(T, x) : ~IsInline(y)}) ELSE T
    IN  [U EXCEPT !.dirty[x] = FALSE, !.style[x] = AttachSheets(T, @, x)]

LEMMA ToldCurrent ==
    ASSUME NEW T \in Typed, IsInjective(T.sheets), NEW x \in Element, NEW l,
           l[x] \in Texts \cup {NULL}, Owned(T.style[x], l[x]),
           T.dirty[x] \/ T.style[x] \in Lists(InlineEntry)
    PROVE  /\ Told(T, x).parent = T.parent /\ Told(T, x).sheets = T.sheets
           /\ Told(T, x).parsed = T.parsed
           /\ \A y \in Element : y # x => /\ Told(T, x).style[y] = T.style[y]
                                          /\ Told(T, x).dirty[y] = T.dirty[y]
           /\ Current(Told(T, x), l, x)
<1> DEFINE gone == {y \in Entries(T, x) : ~IsInline(y)}
           U == IF T.dirty[x] THEN Drop(T, x, gone) ELSE T
           M == AttachSheets(T, U.style[x], x)
           V == Told(T, x)
           I == [p \in Properties |-> Inlined(l[x], p)]
<1>1. T.style[x] \in Lists(Entry) /\ T.sheets \in Seq(Sheet)
  BY DEF Typed
<1>2. /\ U \in Typed /\ U.parent = T.parent /\ U.sheets = T.sheets /\ U.parsed = T.parsed
      /\ U.dirty = T.dirty /\ \A y \in Element : y # x => U.style[y] = T.style[y]
  <2>1. CASE T.dirty[x]
    <3> HIDE DEF gone
    <3>1. /\ Drop(T, x, gone) \in Typed
          /\ \A y \in Element : y # x => Drop(T, x, gone).style[y] = T.style[y]
          /\ \A f \in {"parent", "dirty", "sheets", "parsed"} : Drop(T, x, gone)[f] = T[f]
      BY DropIs
    <3> QED BY <2>1, <3>1
  <2>2. CASE ~T.dirty[x]
    BY <2>2
  <2> QED BY <2>1, <2>2
<1>3. U.style[x] \in Lists(Entry) /\ Full(U.style[x], I, Heavier)
  <2>1. CASE T.dirty[x]
    <3> DEFINE L == T.style[x]
               K == [p \in Properties |-> Without(L[p], gone)]
    <3>1. \A p \in Properties : \A i \in DOMAIN L[p] : L[p][i] \in gone <=> ~IsInline(L[p][i])
      BY DEF Entries, Range
    <3>2. U.style[x] = K
      <4> HIDE DEF gone
      <4> QED BY <2>1 DEF Drop, Typed
    <3> HIDE DEF gone, L, U
    <3>3. K \in Lists(Entry) /\ Full(K, I, Heavier)
      <4>1. L \in Lists(Entry) /\ Owned(L, l[x])
        BY <1>1 DEF L
      <4> QED BY <3>1, <4>1, OwnedBare
    <3> QED BY <3>2, <3>3
  <2>2. CASE ~T.dirty[x]
    <3>1. U.style[x] = T.style[x]
      BY <2>2
    <3> HIDE DEF U
    <3> QED BY <1>1, <2>2, <3>1, OwnedInline
  <2> QED BY <2>1, <2>2
<1>4. V = [U EXCEPT !.dirty = [U.dirty EXCEPT ![x] = FALSE],
                    !.style = [U.style EXCEPT ![x] = M]]
  <2> HIDE DEF gone
  <2> QED BY DEF Told, gone
<1> HIDE DEF U, M, V, I
<1>5. /\ V.parent = T.parent /\ V.sheets = T.sheets /\ V.parsed = T.parsed /\ V.style[x] = M
      /\ \A y \in Element : y # x => V.style[y] = T.style[y] /\ V.dirty[y] = T.dirty[y]
  BY <1>2, <1>4 DEF Typed
<1>6. Full(U.style[x], I, Order(T.sheets))
  <2>1. \A p \in Properties : \A d \in I[p] : d.entry.from = Inline
    BY InlinedEntry DEF I
  <2> QED BY <1>1, <1>3, <2>1, InlineOrder
<1>7. Full(M, [p \in Properties |-> I[p] \cup Cascaded(T, x, p)], Order(T.sheets))
  <2>1. \A p \in Properties : \A d \in I[p] : d.entry.from = Inline
    BY InlinedEntry DEF I
  <2> QED BY <1>1, <1>3, <1>6, <2>1, AttachSheetsFull DEF M
<1>8. Line(V, x) = Line(T, x)
  BY <1>5, SameLines
<1>9. \A p \in Properties : Whole(V, l, x)[p] = I[p] \cup Cascaded(T, x, p)
  <2>1. \A p : Cascaded(V, x, p) = Cascaded(T, x, p)
    BY <1>5, <1>8, SameCascade
  <2> QED BY <2>1 DEF Whole, I
<1>10. Current(V, l, x)
  <2> DEFINE F == [p \in Properties |-> I[p] \cup Cascaded(T, x, p)]
  <2>1. \A p \in Properties : Whole(V, l, x)[p] = F[p]
    BY <1>9
  <2>2. Full(M, F, Order(V.sheets))
    BY <1>5, <1>7
  <2> HIDE DEF F
  <2>3. Full(M, Whole(V, l, x), Order(V.sheets))
    BY <2>1, <2>2, FullSame
  <2> QED BY <1>5, <2>3 DEF Current
<1> QED BY <1>5, <1>10 DEF V

\* What x has depends on its lists, on its line and on the stylesheets.
LEMMA CurrentSame ==
    ASSUME NEW S, NEW T, NEW l, NEW x, Current(S, l, x), T.style[x] = S.style[x],
           T.sheets = S.sheets, Line(T, x) = Line(S, x)
    PROVE  Current(T, l, x)
<1>1. \A p \in Properties : Whole(T, l, x)[p] = Whole(S, l, x)[p]
  BY SameCascade DEF Whole
<1> QED BY <1>1, FullSame DEF Current

-----------------------------------------------------------------------------
(* The events of the tree.                                                 *)

\* Every element has what it should: a connected one the whole cascade, any
\* other at least what its style attribute declares.
Styles(S, l) ==
    \A x \in Element : IF Connected(S, x) THEN Current(S, l, x) ELSE Owned(S.style[x], l[x])

\* The <style> element is a child of the document or nowhere, nothing is below
\* it, and the document has the stylesheet of its last parse while it is there.
Placed(S) ==
    /\ IsInjective(S.sheets)
    /\ S.parent[Tag] \in {Doc, NULL}
    /\ \A x \in Element : S.parent[x] # Tag
    /\ \A k \in DOMAIN TagSheets :
          TagSheets[k] \in Range(S.sheets) <=> k = S.parsed /\ S.parent[Tag] = Doc

Inlines == [Element -> Texts \cup {NULL}]

LEMMA TagAlone ==
    ASSUME NEW S, Ordered(S), \A x \in Element : S.parent[x] # Tag,
           NEW x \in Element, Tag \in Line(S, x)
    PROVE  x = Tag
<1> SUFFICES ASSUME x # Tag PROVE FALSE
  OBVIOUS
<1> DEFINE C == Pointer \ {Tag}
<1>1. Closed(S, C) /\ x \in C
  BY DEF Closed, Ordered, Pointer
<1>2. Line(S, x) \subseteq C
  <2> HIDE DEF C
  <2> QED BY <1>1, LineLeast
<1> QED BY <1>2

LEMMA TagAtTop ==
    ASSUME NEW S, Ordered(S), S.parent[Tag] \in {Doc, NULL}, NEW e \in Element,
           e \in Line(S, Tag)
    PROVE  e = Tag
<1>1. Tag \in Element /\ S.parent[Tag] \notin Element
  BY ElementsAssumption, NamesAssumption
<1>2. Line(S, Tag) = {Tag} \cup {S.parent[Tag]}
  BY <1>1, LineEquation DEF Ordered
<1> QED BY <1>1, <1>2

\* All below e is told, and nothing else changes.
LEMMA NotifyStyles ==
    ASSUME NEW S \in Typed, Ordered(S), IsInjective(S.sheets), NEW e \in Element,
           NEW l \in Inlines,
           \A x \in Element : e \in Line(S, x) =>
              /\ x # Tag /\ Connected(S, x) /\ Owned(S.style[x], l[x])
              /\ S.dirty[x] \/ S.style[x] \in Lists(InlineEntry)
    PROVE  LET T == Notify(S, e)
           IN  /\ T.parent = S.parent /\ T.sheets = S.sheets /\ T.parsed = S.parsed
               /\ \A x \in Element : IF e \in Line(S, x) THEN Current(T, l, x)
                                     ELSE T.style[x] = S.style[x]
<1> DEFINE told == Below(S, e)
           n == Len(told)
           Been(x, i) == \E j \in 1 .. i : told[j] = x
           So(T, i) == /\ T.parent = S.parent /\ T.sheets = S.sheets /\ T.parsed = S.parsed
                       /\ \A x \in Element :
                             IF Been(x, i) THEN Current(T, l, x)
                             ELSE T.style[x] = S.style[x] /\ T.dirty[x] = S.dirty[x]
           A == [i \in 0 .. n |-> {T \in Typed : So(T, i)}]
<1>1. /\ told \in Seq(Element) /\ IsInjective(told)
      /\ \A k \in DOMAIN told : told[k] \in Element /\ e \in Line(S, told[k])
      /\ \A x \in Element : e \in Line(S, x) => \E k \in DOMAIN told : told[k] = x
  BY BelowIs
<1> HIDE DEF told
<1>2. n \in Nat /\ DOMAIN told = 1 .. n
  BY <1>1
<1>3. S \in A[0]
  <2>1. \A x : ~Been(x, 0)
    OBVIOUS
  <2>2. So(S, 0)
    <3> HIDE DEF Been
    <3> QED BY <2>1
  <2> HIDE DEF So
  <2> QED BY <1>2, <2>2
<1>4. ASSUME NEW i \in 1 .. n, NEW T \in A[i - 1] PROVE InsertedSteps(T, told[i]) \in A[i]
  <2> DEFINE x == told[i]
             V == InsertedSteps(T, x)
  <2>1. T \in Typed /\ So(T, i - 1) /\ i - 1 \in 0 .. n /\ i \in 0 .. n
    <3> HIDE DEF So
    <3> QED BY <1>2
  <2>2. x \in Element /\ e \in Line(S, x) /\ x # Tag
    BY <1>1, <1>2
  <2>3. ~Been(x, i - 1)
    BY <1>1, <1>2 DEF IsInjective
  <2>4. \A y \in Element : Been(y, i) <=> (Been(y, i - 1) \/ y = x)
    BY <1>2
  <2>5. T.style[x] = S.style[x] /\ T.dirty[x] = S.dirty[x]
        /\ T.parent = S.parent /\ T.sheets = S.sheets /\ T.parsed = S.parsed
    <3> HIDE DEF Been, x
    <3> QED BY <2>1, <2>2, <2>3
  <2>6. /\ \A y : Line(T, y) = Line(S, y)
        /\ \A y : Connected(T, y) <=> Connected(S, y)
    BY <2>5, SameLines
  <2>7. V = Told(T, x)
    BY <2>2 DEF InsertedSteps, Told
  <2>8. V \in Typed
    <3>1. T.parsed + Parses(x) <= Len(TagSheets)
      BY <2>1, <2>2, SheetsAssumption DEF Parses, Typed
    <3>2. Connected(T, x)
      BY <2>2, <2>6
    <3> HIDE DEF x, A, So
    <3> QED BY <2>1, <2>2, <3>1, <3>2, InsertedStepsIs
  <2> HIDE DEF V, x, A
  <2>9. /\ V.parent = T.parent /\ V.sheets = T.sheets /\ V.parsed = T.parsed
        /\ \A y \in Element : y # x => V.style[y] = T.style[y] /\ V.dirty[y] = T.dirty[y]
        /\ Current(V, l, x)
    <3>1. IsInjective(T.sheets) /\ l[x] \in Texts \cup {NULL} /\ Owned(T.style[x], l[x])
          /\ (T.dirty[x] \/ T.style[x] \in Lists(InlineEntry))
      BY <2>2, <2>5 DEF Inlines
    <3> HIDE DEF So
    <3> QED BY <2>1, <2>2, <2>7, <3>1, ToldCurrent
  <2>10. So(V, i)
    <3>1. ASSUME NEW y \in Element
          PROVE  IF Been(y, i) THEN Current(V, l, y)
                 ELSE V.style[y] = S.style[y] /\ V.dirty[y] = S.dirty[y]
      <4>1. CASE y = x
        <5> HIDE DEF Been
        <5> QED BY <2>4, <2>9, <4>1
      <4>2. CASE y # x
        <5>1. Line(V, y) = Line(T, y)
          BY <2>9, SameLines
        <5>2. Current(T, l, y) => Current(V, l, y)
          BY <2>9, <4>2, <5>1, CurrentSame
        <5> HIDE DEF Been
        <5> QED BY <2>1, <2>4, <2>9, <4>2, <5>2
      <4> QED BY <4>1, <4>2
    <3> HIDE DEF Been
    <3> QED BY <2>5, <2>9, <3>1
  <2> HIDE DEF So
  <2> QED BY <2>1, <2>8, <2>10 DEF A, V, x
<1>5. Notify(S, e) \in A[n]
  <2> HIDE DEF A
  <2> QED BY <1>1, <1>3, <1>4, NotifyLoop DEF told
<1>6. n \in 0 .. n
  BY <1>2
<1>7. So(Notify(S, e), n)
  <2> HIDE DEF So, n
  <2> QED BY <1>5, <1>6
<1>8. \A x \in Element : Been(x, n) <=> e \in Line(S, x)
  BY <1>1, <1>2
<1> HIDE DEF Been
<1> QED BY <1>7, <1>8

\* The <style> element is told alone.
LEMMA NotifyTag ==
    ASSUME NEW S, S.parent \in [Element -> Pointer], Ordered(S),
           \A x \in Element : S.parent[x] # Tag
    PROVE  Notify(S, Tag) = InsertedSteps(S, Tag)
<1> DEFINE told == Below(S, Tag)
           n == Len(told)
           A == [i \in 0 .. n |-> IF i = 0 THEN {S} ELSE {InsertedSteps(S, Tag)}]
<1>1. /\ told \in Seq(Element) /\ IsInjective(told)
      /\ \A k \in DOMAIN told : told[k] = Tag
      /\ \E k \in DOMAIN told : told[k] = Tag
  <2>1. Tag \in Element
    BY ElementsAssumption
  <2>2. Tag \in Line(S, Tag)
    BY <2>1, LineHas
  <2> QED BY <2>1, <2>2, BelowIs, TagAlone
<1> HIDE DEF told
<1>2. n \in Nat /\ DOMAIN told = 1 .. n
  BY <1>1
<1>3. n = 1
  <2>1. n >= 1 /\ 1 \in DOMAIN told /\ n \in DOMAIN told
    BY <1>1, <1>2
  <2> QED BY <1>1, <2>1 DEF IsInjective
<1>4. S \in A[0] /\ \A i \in 1 .. n : \A x \in A[i - 1] : InsertedSteps(x, told[i]) \in A[i]
  BY <1>1, <1>2, <1>3
<1>5. Notify(S, Tag) \in A[n]
  <2> HIDE DEF A
  <2> QED BY <1>1, <1>4, NotifyLoop DEF told
<1> QED BY <1>3, <1>5

\* Of a stylesheet without a rule for x, x gets nothing.
LEMMA Unmatched ==
    ASSUME NEW S, NEW L, NEW s \in Sheet, NEW x,
           \A i \in DOMAIN Rules[s] : x \notin Rules[s][i].to
    PROVE  AttachSheet(S, L, s, x) = L
<1> DEFINE n == Len(Rules[s])
           A == [i \in 0 .. n |-> {L}]
<1>1. n \in Nat /\ DOMAIN Rules[s] = 1 .. n
  BY RulesAssumption
<1>2. L \in A[0] /\ \A i \in 1 .. n : \A y \in A[i - 1] :
         (IF Matches(S, Rules[s][i], x)
          THEN ListAppend(y, <<s, i>>, Rules[s][i].sp, Rules[s][i].decls) ELSE y) \in A[i]
  <2>1. \A i \in 1 .. n : ~Matches(S, Rules[s][i], x)
    BY <1>1 DEF Matches
  <2>2. 0 \in 0 .. n /\ \A i \in 1 .. n : i \in 0 .. n /\ i - 1 \in 0 .. n
    BY <1>1
  <2> HIDE DEF n
  <2> QED BY <2>1, <2>2
<1>3. AttachSheet(S, L, s, x) \in A[n]
  <2> HIDE DEF A
  <2> QED BY <1>2, AttachSheetLoop
<1> QED BY <1>1, <1>3

LEMMA TagInsertedStyles ==
    ASSUME NEW S \in Typed, Ordered(S), IsInjective(S.sheets), S.parsed < Len(TagSheets),
           TagSheets[S.parsed + 1] \notin Range(S.sheets), NEW l \in Inlines
    PROVE  /\ TagInserted(S).sheets = Append(S.sheets, TagSheets[S.parsed + 1])
           /\ \A x \in Element : Connected(S, x) /\ Current(S, l, x)
                                   => Current(TagInserted(S), l, x)
           /\ TagUnstyled => TagInserted(S).style[Tag] = S.style[Tag]
<1> DEFINE s == TagSheets[S.parsed + 1]
           R == [S EXCEPT !.parsed = S.parsed + 1]
           Q == [R EXCEPT !.sheets = Append(R.sheets, s)]
           T == StylesheetAttach(R, s)
<1>1. S.parsed + 1 \in 1 .. Len(TagSheets) /\ s \in Sheet /\ s \in Range(TagSheets)
  BY SheetsAssumption DEF Typed, Range
<1>2. /\ R \in Typed /\ R.parent = S.parent /\ R.style = S.style /\ R.sheets = S.sheets
  BY <1>1 DEF Typed
<1>3. TagInserted(S) = T
  BY DEF TagInserted
<1> HIDE DEF R, s
<1>4. /\ T = Apply(Q, s) /\ Q.sheets = Append(S.sheets, s)
      /\ Q.style = S.style /\ Q.parent = S.parent /\ Q \in Typed
  <2>1. Append(R.sheets, s) \in Seq(Sheet)
    BY <1>1, <1>2 DEF Typed
  <2> QED BY <1>2, <2>1 DEF StylesheetAttach, Typed
<1> HIDE DEF Q, T
<1>5. T.sheets = Append(S.sheets, s)
  BY <1>1, <1>4, ApplyIs
<1>6. ASSUME NEW x \in Element, Connected(S, x), Current(S, l, x) PROVE Current(T, l, x)
  <2>1. Connected(R, x) /\ Line(R, x) = Line(S, x)
    BY <1>2, <1>6, SameLines
  <2>2. Current(R, l, x)
    BY <1>2, <1>6, <2>1, CurrentSame
  <2>3. l[x] \in Texts \cup {NULL} /\ IsInjective(R.sheets) /\ s \notin Range(R.sheets)
    BY <1>2 DEF Inlines, s
  <2> QED BY <1>1, <1>2, <2>1, <2>2, <2>3, AttachedCurrent DEF T
<1>7. ASSUME TagUnstyled PROVE T.style[Tag] = S.style[Tag]
  <2>1. Tag \in Element
    BY ElementsAssumption
  <2>2. AttachSheet(Q, Q.style[Tag], s, Tag) = Q.style[Tag]
    BY <1>1, <1>7, Unmatched DEF TagUnstyled
  <2>3. Apply(Q, s).style[Tag] = Q.style[Tag]
    BY <1>4, <2>1, <2>2 DEF Apply, Typed
  <2> QED BY <1>4, <2>3
<1> QED BY <1>3, <1>5, <1>6, <1>7 DEF s

LEMMA UnlinkedStyles ==
    ASSUME NEW S, Good(S), Placed(S), NEW l \in Inlines, Styles(S, l), NEW e \in Element
    PROVE  Placed(Unlinked(S, e)) /\ Styles(Unlinked(S, e), l)
<1> DEFINE R == [S EXCEPT !.parent = [S.parent EXCEPT ![e] = NULL]]
           T == IF e = Tag THEN TagRemoved(R) ELSE R
           new == [x \in Element |-> \/ T.dirty[x]
                                     \/ IF x = e THEN Styled(T, e) ELSE e \in Line(R, x)]
           U == [T EXCEPT !.dirty = new]
<1>1. /\ R \in Typed /\ R.parent = [S.parent EXCEPT ![e] = NULL]
      /\ R.style = S.style /\ R.sheets = S.sheets /\ R.parsed = S.parsed
  <2>1. [S.parent EXCEPT ![e] = NULL] \in [Element -> Pointer]
    BY DEF Good, Typed, Pointer
  <2> QED BY <2>1 DEF Good, Typed
<1>2. Unlinked(S, e) = U
  BY DEF Unlinked, RemovedSteps
<1> HIDE DEF R
<1>3. /\ Ordered(R) /\ R.parent[e] = NULL
      /\ \A x \in Element : x # e => S.parent[x] = R.parent[x]
  <2>1. Ordered(R)
    BY <1>1, LinesBroken DEF Good
  <2> QED BY <1>1, <2>1 DEF Good, Ordered
<1>4. T \in Typed /\ Beside(R, T)
  BY <1>1, TagRemovedIs DEF Beside
<1>5. /\ e = Tag /\ S.parsed # 0 => T = StylesheetRemove(R, TagSheets[S.parsed])
      /\ e # Tag \/ S.parsed = 0 => T = R
      /\ S.parsed # 0 => TagSheets[S.parsed] \in Sheet
      /\ T.parsed = S.parsed
  <2>1. S.parsed # 0 => TagSheets[S.parsed] \in Sheet
    BY SheetsAssumption DEF Good, Typed
  <2> HIDE DEF T
  <2>2. /\ e = Tag /\ S.parsed # 0 => T = StylesheetRemove(R, TagSheets[S.parsed])
        /\ e # Tag \/ S.parsed = 0 => T = R
    BY <1>1 DEF TagRemoved, T
  <2>3. T.parsed = S.parsed
    BY <1>1, <2>2, StylesheetRemoveIs
  <2> QED BY <2>1, <2>2, <2>3
<1> HIDE DEF T
<1>6. /\ U.parent = R.parent /\ U.style = T.style /\ U.sheets = T.sheets /\ U.parsed = T.parsed
      /\ \A x : Line(U, x) = Line(R, x) /\ (Connected(U, x) <=> Connected(R, x))
      /\ \A x : Line(U, x) = Line(T, x)
  <2>1. U.parent = R.parent /\ U.style = T.style /\ U.sheets = T.sheets /\ U.parsed = T.parsed
    BY <1>4 DEF Typed, Beside
  <2> HIDE DEF U
  <2>2. U.parent = T.parent
    BY <1>4, <2>1 DEF Beside
  <2> QED BY <2>1, <2>2, SameLines
<1> HIDE DEF U
<1>7. S.sheets \in Seq(Sheet) /\ IsInjective(S.sheets) /\ IsInjective(R.sheets)
  BY <1>1 DEF Good, Typed, Placed
<1>8. ASSUME NEW x \in Element, Connected(R, x) PROVE Current(U, l, x)
  <2>1. e \notin Line(R, x)
    BY <1>3, <1>8, CutOff
  <2>2. Line(S, x) = Line(R, x)
    BY <1>3, <2>1, LinesApart DEF Good
  <2>3. Current(S, l, x)
    BY <1>8, <2>2 DEF Styles, Connected
  <2>4. Current(R, l, x)
    BY <1>1, <2>2, <2>3, CurrentSame
  <2>5. Current(T, l, x)
    <3>1. CASE e = Tag /\ S.parsed # 0
      <4>1. l[x] \in Texts \cup {NULL}
        BY DEF Inlines
      <4> QED BY <1>1, <1>5, <1>7, <1>8, <2>4, <3>1, <4>1, RemovedCurrent
    <3>2. CASE e # Tag \/ S.parsed = 0
      BY <1>5, <2>4, <3>2
    <3> QED BY <3>1, <3>2
  <2> QED BY <1>6, <2>5, CurrentSame
<1>9. ASSUME NEW x \in Element, ~Connected(R, x) PROVE Owned(U.style[x], l[x])
  <2>1. U.style[x] = S.style[x]
    BY <1>1, <1>4, <1>6, <1>9 DEF Beside
  <2>2. Owned(S.style[x], l[x])
    <3>1. l[x] \in Texts \cup {NULL}
      BY DEF Inlines
    <3> QED BY <1>7, <3>1, CurrentOwned DEF Styles
  <2> QED BY <2>1, <2>2
<1>10. Styles(U, l)
  BY <1>6, <1>8, <1>9 DEF Styles
<1>11. Placed(U)
  <2>1. \A x \in Element : U.parent[x] = IF x = e THEN NULL ELSE S.parent[x]
    BY <1>1, <1>6 DEF Good, Ordered
  <2>2. Tag \in Element /\ NULL # Tag /\ NULL # Doc
    BY ElementsAssumption, NamesAssumption
  <2>3. U.parent[Tag] \in {Doc, NULL} /\ \A x \in Element : U.parent[x] # Tag
    BY <2>1, <2>2 DEF Placed
  <2>4. CASE e # Tag \/ S.parsed = 0
    <3>1. U.sheets = S.sheets /\ U.parsed = S.parsed
      BY <1>1, <1>5, <1>6, <2>4
    <3>2. S.parsed = 0 => \A k \in DOMAIN TagSheets : k # S.parsed
      BY SheetsAssumption
    <3>3. \A k \in DOMAIN TagSheets :
             TagSheets[k] \in Range(U.sheets) <=> k = U.parsed /\ U.parent[Tag] = Doc
      BY <2>1, <2>2, <2>4, <3>1, <3>2 DEF Placed
    <3> QED BY <1>7, <2>3, <3>1, <3>3 DEF Placed
  <2>5. CASE e = Tag /\ S.parsed # 0
    <3> DEFINE s == TagSheets[S.parsed]
    <3>1. U.sheets = Strike(S.sheets, s)
      <4>1. StylesheetRemove(R, s).sheets = Strike(R.sheets, s)
        <5> DEFINE X == Unapply(R, s)
        <5>1. X \in Typed /\ X.sheets = R.sheets
          BY <1>1, UnapplyIs
        <5> HIDE DEF X
        <5>2. StylesheetRemove(R, s) = [X EXCEPT !.sheets = Strike(X.sheets, s)]
          BY DEF StylesheetRemove, X
        <5> QED BY <5>1, <5>2 DEF Typed
      <4> QED BY <1>1, <1>5, <1>6, <2>5, <4>1
    <3>2. IsInjective(U.sheets) /\ Range(U.sheets) = Range(S.sheets) \ {s}
      BY <1>7, <3>1, StrikeRange
    <3>3. \A k \in DOMAIN TagSheets : TagSheets[k] \notin Range(U.sheets)
      BY <3>2 DEF Placed
    <3> QED BY <2>1, <2>2, <2>3, <2>5, <3>2, <3>3 DEF Placed
  <2> QED BY <2>4, <2>5
<1> QED BY <1>2, <1>10, <1>11

LEMMA LinkedStyles ==
    ASSUME TagUnstyled,
           NEW S, Good(S), Placed(S), NEW l \in Inlines, Styles(S, l),
           NEW e \in Element, NEW p \in Element \cup {Doc}, S.parent[e] = NULL, p # Tag,
           p # Doc => /\ Connected(S, p) /\ e # Tag
                      /\ \E i, j \in DOMAIN Elements :
                            i < j /\ Elements[i] = p /\ Elements[j] = e,
           e = Tag => S.parsed + 1 <= Len(TagSheets)
    PROVE  Placed(Linked(S, p, e)) /\ Styles(Linked(S, p, e), l)
<1> DEFINE R == [S EXCEPT !.parent = [S.parent EXCEPT ![e] = p]]
           U == Notify(R, e)
<1>1. /\ R \in Typed /\ R.parent = [S.parent EXCEPT ![e] = p] /\ R.style = S.style
      /\ R.dirty = S.dirty /\ R.sheets = S.sheets /\ R.parsed = S.parsed
  <2>1. [S.parent EXCEPT ![e] = p] \in [Element -> Pointer]
    BY DEF Good, Typed, Pointer
  <2> QED BY <2>1 DEF Good, Typed
<1>2. Linked(S, p, e) = U
  BY DEF Linked
<1> HIDE DEF R
<1>3. /\ Ordered(R)
      /\ \A x \in Element : e \in Line(R, x) => Connected(R, x)
  BY <1>1, LinesJoined DEF Good
<1>4. \A x \in Element : R.parent[x] = IF x = e THEN p ELSE S.parent[x]
  BY <1>1 DEF Good, Ordered
<1>5. ASSUME NEW x \in Element, e \in Line(R, x)
      PROVE  /\ Owned(R.style[x], l[x])
             /\ R.dirty[x] \/ R.style[x] \in Lists(InlineEntry)
  <2>1. e \in Line(S, x)
    BY <1>3, <1>4, <1>5, LinesApart DEF Good
  <2>2. ~Connected(S, x)
    BY <2>1, CutOff DEF Good
  <2> QED BY <1>1, <2>2 DEF Styles, Good, Hidden
<1>6. ASSUME NEW x \in Element, e \notin Line(R, x)
      PROVE  /\ Line(S, x) = Line(R, x) /\ (Connected(S, x) <=> Connected(R, x))
             /\ Connected(R, x) => Current(R, l, x)
             /\ ~Connected(R, x) => Owned(R.style[x], l[x])
  <2>1. Line(S, x) = Line(R, x)
    BY <1>3, <1>4, <1>6, LinesApart DEF Good
  <2>2. Connected(S, x) <=> Connected(R, x)
    BY <2>1 DEF Connected
  <2>3. Connected(R, x) => Current(R, l, x)
    BY <1>1, <2>1, <2>2, CurrentSame DEF Styles
  <2> QED BY <1>1, <2>1, <2>2, <2>3 DEF Styles
<1>7. /\ Tag \in Element /\ NULL # Doc /\ R.sheets \in Seq(Sheet) /\ IsInjective(R.sheets)
      /\ \A x \in Element : R.parent[x] # Tag
  BY <1>1, <1>4, ElementsAssumption, NamesAssumption DEF Placed, Typed
<1>8. CASE e # Tag
  <2>1. R.parent[Tag] \in {Doc, NULL}
    BY <1>4, <1>7, <1>8 DEF Placed
  <2>2. \A x \in Element : e \in Line(R, x) => x # Tag
    BY <1>3, <1>8, <2>1, TagAtTop
  <2>3. /\ U.parent = R.parent /\ U.sheets = R.sheets /\ U.parsed = R.parsed
        /\ \A x \in Element : IF e \in Line(R, x) THEN Current(U, l, x)
                              ELSE U.style[x] = R.style[x]
    BY <1>1, <1>3, <1>5, <1>7, <2>2, NotifyStyles
  <2> HIDE DEF U
  <2>4. \A x : Line(U, x) = Line(R, x) /\ (Connected(U, x) <=> Connected(R, x))
    BY <2>3, SameLines
  <2>5. \A x \in Element : e \notin Line(R, x) /\ Connected(R, x) => Current(U, l, x)
    BY <1>6, <2>3, <2>4, CurrentSame
  <2>6. Styles(U, l)
    BY <1>3, <1>6, <2>3, <2>4, <2>5 DEF Styles
  <2>7. Placed(U)
    <3>1. U.parent[Tag] = S.parent[Tag]
      BY <1>4, <1>7, <1>8, <2>3
    <3> QED BY <1>1, <1>7, <2>3, <3>1 DEF Placed
  <2> QED BY <1>2, <2>6, <2>7
<1>9. CASE e = Tag
  <2> DEFINE T == TagInserted(R)
             s == TagSheets[R.parsed + 1]
  <2>1. p = Doc /\ R.parent[Tag] = Doc /\ S.parent[Tag] = NULL
    BY <1>4, <1>7, <1>9
  <2>2. R.parsed < Len(TagSheets) /\ R.parsed + 1 \in DOMAIN TagSheets /\ s \in Sheet
    BY <1>1, <1>9, SheetsAssumption DEF Typed
  <2>3. \A k \in DOMAIN TagSheets : TagSheets[k] \notin Range(R.sheets)
    BY <1>1, <1>7, <2>1 DEF Placed
  <2>4. /\ T.sheets = Append(R.sheets, s)
        /\ \A x \in Element : Connected(R, x) /\ Current(R, l, x) => Current(T, l, x)
        /\ T.style[Tag] = R.style[Tag]
    BY <1>1, <1>3, <1>7, <2>2, <2>3, TagInsertedStyles
  <2>5. T \in Typed /\ Beside(R, T) /\ T.dirty = R.dirty /\ T.parsed = R.parsed + 1
    BY <1>1, <2>2, TagInsertedIs
  <2>6. U = Told(T, Tag)
    BY <1>3, <1>7, <1>9, NotifyTag DEF InsertedSteps, Told, Ordered
  <2> HIDE DEF T, U
  <2>7. /\ IsInjective(T.sheets) /\ Range(T.sheets) = Range(R.sheets) \cup {s}
    BY <1>7, <2>2, <2>3, <2>4, AppendIs
  <2>8. Tag \in Line(R, Tag)
    BY <1>3, <1>7, LineHas DEF Ordered
  <2>9. /\ U.parent = T.parent /\ U.sheets = T.sheets /\ U.parsed = T.parsed
        /\ \A y \in Element : y # Tag => U.style[y] = T.style[y]
        /\ Current(U, l, Tag)
    <3>1. l[Tag] \in Texts \cup {NULL} /\ Owned(T.style[Tag], l[Tag])
          /\ (T.dirty[Tag] \/ T.style[Tag] \in Lists(InlineEntry))
      BY <1>5, <1>7, <1>9, <2>4, <2>5, <2>8 DEF Inlines
    <3> QED BY <1>7, <2>5, <2>6, <2>7, <3>1, ToldCurrent
  <2>10. \A x : /\ Line(U, x) = Line(R, x) /\ Line(U, x) = Line(T, x)
                /\ Connected(U, x) <=> Connected(R, x)
    <3>1. U.parent = T.parent /\ U.parent = R.parent
      BY <2>5, <2>9 DEF Beside
    <3> QED BY <3>1, SameLines
  <2>11. ASSUME NEW x \in Element, x # Tag
         PROVE  IF Connected(U, x) THEN Current(U, l, x) ELSE Owned(U.style[x], l[x])
    <3>1. Tag \notin Line(R, x)
      BY <1>3, <1>7, <2>11, TagAlone
    <3>2. CASE Connected(R, x)
      <4>1. Current(T, l, x)
        BY <1>6, <1>9, <2>4, <3>1, <3>2
      <4> QED BY <2>9, <2>10, <2>11, <3>2, <4>1, CurrentSame
    <3>3. CASE ~Connected(R, x)
      <4>1. U.style[x] = R.style[x]
        BY <2>5, <2>9, <2>11, <3>3 DEF Beside
      <4> QED BY <1>6, <1>9, <2>10, <3>1, <3>3, <4>1
    <3> QED BY <3>2, <3>3
  <2>12. Styles(U, l)
    <3>1. Connected(U, Tag)
      BY <1>3, <1>7, <1>9, <2>8, <2>10
    <3> QED BY <2>9, <2>11, <3>1 DEF Styles
  <2>13. Placed(U)
    <3>1. U.parent = R.parent /\ U.parsed = R.parsed + 1
      BY <2>5, <2>9 DEF Beside
    <3>2. \A k \in DOMAIN TagSheets : TagSheets[k] \in Range(U.sheets) <=> k = R.parsed + 1
      BY <2>2, <2>3, <2>7, <2>9, SheetsAssumption DEF IsInjective
    <3> QED BY <1>7, <2>1, <2>7, <2>9, <3>1, <3>2 DEF Placed
  <2> QED BY <1>2, <2>12, <2>13
<1> QED BY <1>8, <1>9

-----------------------------------------------------------------------------
(* The actions.                                                            *)

\* The invariant of the cascade.
Cascades == IInv /\ Placed(State) /\ Styles(State, list)

LEMMA AttachedSheets ==
    ASSUME NEW S \in Typed, NEW s \in Sheet
    PROVE  StylesheetAttach(S, s).sheets = Append(S.sheets, s)
<1> DEFINE R == [S EXCEPT !.sheets = Append(S.sheets, s)]
<1>1. R \in Typed /\ R.sheets = Append(S.sheets, s)
  <2>1. Append(S.sheets, s) \in Seq(Sheet)
    BY DEF Typed
  <2> QED BY <2>1 DEF Typed
<1>2. StylesheetAttach(S, s) = Apply(R, s)
  BY DEF StylesheetAttach
<1> HIDE DEF R
<1> QED BY <1>1, <1>2, ApplyIs

LEMMA RemovedSheets ==
    ASSUME NEW S \in Typed, NEW s
    PROVE  StylesheetRemove(S, s).sheets = Strike(S.sheets, s)
<1> DEFINE R == Unapply(S, s)
<1>1. R \in Typed /\ R.sheets = S.sheets
  BY UnapplyIs
<1> HIDE DEF R
<1>2. StylesheetRemove(S, s) = [R EXCEPT !.sheets = Strike(R.sheets, s)]
  BY DEF StylesheetRemove, R
<1> QED BY <1>1, <1>2 DEF Typed

\* The stylesheets of the program are not those of the <style> element.
LEMMA ApiSheet ==
    ASSUME NEW s \in ApiSheets
    PROVE  s \in Sheet /\ \A k \in DOMAIN TagSheets : TagSheets[k] # s
BY SheetsAssumption DEF Sheet, Range

LEMMA AttachCascades ==
    ASSUME Cascades, NEW s \in ApiSheets, Attach(s)
    PROVE  Cascades'
<1> DEFINE T == StylesheetAttach(State, s)
<1>1. State \in Typed /\ list \in Inlines /\ s \in Sheet /\ State.sheets \in Seq(Sheet)
      /\ IsInjective(State.sheets)
  BY ApiSheet DEF Cascades, IInv, Good, Inlines, Typed, Placed
<1>2. T \in Typed /\ Beside(State, T) /\ T.parsed = State.parsed
      /\ T.sheets = Append(State.sheets, s)
  BY <1>1, StylesheetAttachIs, AttachedSheets
<1>3. s \notin Range(State.sheets)
  BY <1>1, StateIs DEF Attach, Contains, Range
<1>4. IsInjective(T.sheets) /\ Range(T.sheets) = Range(State.sheets) \cup {s}
  BY <1>1, <1>2, <1>3, AppendIs
<1>5. ASSUME NEW x \in Element, Connected(State, x) PROVE Current(T, list, x)
  BY <1>1, <1>3, <1>5, AttachedCurrent DEF Cascades, Styles, Inlines
<1> HIDE DEF T
<1>6. \A x \in Element : Connected(T, x) <=> Connected(State, x)
  BY <1>2, SameLines DEF Beside
<1>7. Styles(T, list)
  BY <1>2, <1>5, <1>6 DEF Cascades, Styles, Beside
<1>8. Placed(T)
  BY <1>2, <1>4, ApiSheet DEF Cascades, Placed, Beside
<1>9. State' = T /\ list' = list
  BY <1>2, BecomesIs DEF Attach, T
<1>10. Placed(State') /\ Styles(State', list')
  BY <1>7, <1>8, <1>9
<1> QED BY <1>10, AttachGood DEF Cascades

LEMMA DetachCascades ==
    ASSUME Cascades, NEW s \in ApiSheets, Detach(s)
    PROVE  Cascades'
<1> DEFINE T == StylesheetRemove(State, s)
<1>1. State \in Typed /\ list \in Inlines /\ s \in Sheet /\ State.sheets \in Seq(Sheet)
      /\ IsInjective(State.sheets)
  BY ApiSheet DEF Cascades, IInv, Good, Inlines, Typed, Placed
<1>2. T \in Typed /\ Beside(State, T) /\ T.parsed = State.parsed
      /\ T.sheets = Strike(State.sheets, s)
  BY <1>1, StylesheetRemoveIs, RemovedSheets
<1>3. IsInjective(T.sheets) /\ Range(T.sheets) = Range(State.sheets) \ {s}
  BY <1>1, <1>2, StrikeRange
<1>4. ASSUME NEW x \in Element, Connected(State, x) PROVE Current(T, list, x)
  BY <1>1, <1>4, RemovedCurrent DEF Cascades, Styles, Inlines
<1> HIDE DEF T
<1>5. \A x \in Element : Connected(T, x) <=> Connected(State, x)
  BY <1>2, SameLines DEF Beside
<1>6. Styles(T, list)
  BY <1>2, <1>4, <1>5 DEF Cascades, Styles, Beside
<1>7. Placed(T)
  BY <1>2, <1>3, ApiSheet DEF Cascades, Placed, Beside
<1>8. State' = T /\ list' = list
  BY <1>2, BecomesIs DEF Detach, T
<1>9. Placed(State') /\ Styles(State', list')
  BY <1>6, <1>7, <1>8
<1> QED BY <1>9, DetachGood DEF Cascades

LEMMA RemoveElementCascades ==
    ASSUME Cascades, NEW e \in Element, RemoveElement(e)
    PROVE  Cascades'
<1> DEFINE T == Unlinked(State, e)
<1>1. Good(State) /\ Placed(State) /\ list \in Inlines /\ Styles(State, list)
  BY DEF Cascades, IInv, Inlines
<1>2. Placed(T) /\ Styles(T, list) /\ Good(T)
  BY <1>1, UnlinkedStyles, UnlinkedGood
<1> HIDE DEF T
<1>3. State' = T /\ list' = list
  BY <1>2, BecomesIs DEF RemoveElement, Good, T
<1>4. Placed(State') /\ Styles(State', list')
  BY <1>2, <1>3
<1> QED BY <1>4, RemoveElementGood DEF Cascades

LEMMA TagBelow ==
    ASSUME NEW S, S.parent \in [Element -> Pointer]
    PROVE  Contains(Below(S, Tag), Tag)
<1>1. Tag \in Element /\ Tag \in Line(S, Tag)
  BY ElementsAssumption, LineHas
<1>2. Below(S, Tag) \in Seq(Element) /\ \E k \in DOMAIN Below(S, Tag) : Below(S, Tag)[k] = Tag
  BY <1>1, BelowIs
<1> QED BY <1>2 DEF Contains

LEMMA InsertChildCascades ==
    ASSUME TagUnstyled, Cascades, NEW e \in Element, NEW p \in Element \cup {Doc},
           p # Doc => Connected(State, p) /\ e # Tag, InsertChild(p, e)
    PROVE  Cascades'
<1> DEFINE T == Linked(State, p, e)
<1>1. Good(State) /\ Placed(State) /\ list \in Inlines /\ Styles(State, list)
  BY DEF Cascades, IInv, Inlines
<1>2. p = Doc \/ \E i, j \in DOMAIN Elements : i < j /\ Elements[i] = p /\ Elements[j] = e
  BY DEF InsertChild, Room
<1>3. State.parent[e] = NULL /\ p # Tag
      /\ (Contains(Below(State, e), Tag) => State.parsed + 1 <= Len(TagSheets))
  BY StateIs DEF InsertChild, Room
<1>4. e = Tag => State.parsed + 1 <= Len(TagSheets)
  <2> SUFFICES ASSUME e = Tag PROVE Contains(Below(State, e), Tag)
    BY <1>3
  <2> QED BY <1>1, TagBelow DEF Good, Ordered
<1>5. Placed(T) /\ Styles(T, list)
  BY <1>1, <1>2, <1>3, <1>4, LinkedStyles
<1>6. Good(T)
  BY <1>1, <1>2, <1>3, LinkedGood
<1> HIDE DEF T
<1>7. State' = T /\ list' = list
  BY <1>6, BecomesIs DEF InsertChild, Good, T
<1>8. Placed(State') /\ Styles(State', list')
  BY <1>5, <1>7
<1> QED BY <1>8, InsertChildGood DEF Cascades

LEMMA OwnsNew ==
    ASSUME NEW E, NEW t, Owns(E, t), NEW u \in Texts \cup {NULL}
    PROVE  Owns(Restyled(E, u), u)
<1> SUFFICES ASSUME NEW p \in Properties
             PROVE  LET D == {d \in E[p] : ~IsInline(d.entry)} \cup Inlined(u, p)
                    IN  Proper(D) /\ {d \in D : IsInline(d.entry)} = Inlined(u, p)
  BY DEF Owns, Restyled
<1>1. \A d \in Inlined(u, p) : IsInline(d.entry) /\ d.entry.from = Inline
  BY InlinedEntry
<1>2. \A d \in E[p] : IsInline(d.entry) <=> d.entry.from = Inline
  BY DEF Owns, Proper
<1> QED BY <1>1, <1>2 DEF Proper

\* A new style attribute of e, and nothing else.
LEMMA ChangedStyles ==
    ASSUME NEW S, Good(S), Placed(S), NEW l \in Inlines, Styles(S, l),
           NEW e \in Element, NEW u \in Texts \cup {NULL}, NEW T,
           T.parent = S.parent, T.sheets = S.sheets, T.parsed = S.parsed,
           \A x \in Element : x # e => T.style[x] = S.style[x],
           \A E, R : IsOrder(R) /\ Full(S.style[e], E, R) /\ Owns(E, l[e]) =>
              Full(T.style[e], Restyled(E, u), R)
    PROVE  Placed(T) /\ Styles(T, [l EXCEPT ![e] = u])
<1> DEFINE m == [l EXCEPT ![e] = u]
<1>1. m[e] = u /\ \A x \in Element : x # e => m[x] = l[x]
  BY DEF Inlines
<1> HIDE DEF m
<1>2. Placed(T)
  BY DEF Placed
<1>3. \A x : Line(T, x) = Line(S, x) /\ (Connected(T, x) <=> Connected(S, x))
  BY SameLines
<1>4. S.sheets \in Seq(Sheet) /\ IsInjective(S.sheets) /\ l[e] \in Texts \cup {NULL}
  BY DEF Good, Typed, Placed, Inlines
<1>5. ASSUME NEW x \in Element, x # e
      PROVE  IF Connected(T, x) THEN Current(T, m, x) ELSE Owned(T.style[x], m[x])
  <2>1. CASE Connected(S, x)
    <3>1. Current(T, l, x)
      BY <1>3, <1>5, <2>1, CurrentSame DEF Styles
    <3>2. Whole(T, m, x) = Whole(T, l, x)
      BY <1>1, <1>5 DEF Whole
    <3> QED BY <1>3, <2>1, <3>1, <3>2 DEF Current
  <2>2. CASE ~Connected(S, x)
    BY <1>1, <1>3, <1>5, <2>2 DEF Styles
  <2> QED BY <2>1, <2>2
<1>6. CASE Connected(S, e)
  <2> DEFINE E == Whole(S, l, e)
             R == Order(S.sheets)
  <2>1. IsOrder(R) /\ Full(S.style[e], E, R) /\ Owns(E, l[e])
    BY <1>4, <1>6, OrderIsOrder, WholeOwns DEF Styles, Current
  <2>2. \A p \in Properties : Whole(T, m, e)[p] = Restyled(E, u)[p]
    <3>1. \A p : Cascaded(T, e, p) = Cascaded(S, e, p)
      BY <1>3, SameCascade
    <3>2. \A p : \A d \in Cascaded(S, e, p) : ~IsInline(d.entry)
      BY <1>4, CascadedEntry
    <3>3. \A p : \A d \in Inlined(l[e], p) : IsInline(d.entry)
      BY <1>4, InlinedEntry
    <3> QED BY <1>1, <3>1, <3>2, <3>3 DEF Whole, Restyled
  <2> HIDE DEF E, R
  <2>3. Full(T.style[e], Restyled(E, u), R)
    BY <2>1
  <2>4. Current(T, m, e)
    BY <2>2, <2>3, FullSame DEF Current, R
  <2> QED BY <1>2, <1>3, <1>5, <1>6, <2>4 DEF Styles, m
<1>7. CASE ~Connected(S, e)
  <2>1. PICK E : Full(S.style[e], E, Heavier) /\ Owns(E, l[e])
    BY <1>7 DEF Styles, Owned
  <2>2. Full(T.style[e], Restyled(E, u), Heavier)
    BY <2>1, HeavierIsOrder
  <2>3. Owns(Restyled(E, u), u)
    BY <2>1, OwnsNew
  <2>4. Owned(T.style[e], m[e])
    BY <1>1, <2>2, <2>3 DEF Owned
  <2> QED BY <1>2, <1>3, <1>5, <1>7, <2>4 DEF Styles, m
<1> QED BY <1>6, <1>7

\* Without the old style attribute.
LEMMA WithoutInlineIs ==
    ASSUME IInv, NEW e \in Element
    PROVE  /\ WithoutInline(e) \in Typed
           /\ WithoutInline(e).parent = State.parent /\ WithoutInline(e).sheets = State.sheets
           /\ WithoutInline(e).parsed = State.parsed
           /\ \A x \in Element : x # e => WithoutInline(e).style[x] = State.style[x]
           /\ WithoutInline(e).style[e] \in Lists(Entry)
           /\ \A E, R : IsOrder(R) /\ Full(State.style[e], E, R) /\ Owns(E, list[e]) =>
                 /\ Full(WithoutInline(e).style[e], Restyled(E, NULL), R)
                 /\ \A u \in Texts :
                       Full(ListAppend(WithoutInline(e).style[e], Inline, InlineBit, u),
                            Restyled(E, u), R)
<1> DEFINE gone == {x \in Entries(State, e) : IsInline(x)}
           T == Drop(State, e, gone)
           W == WithoutInline(e)
           K == State.style[e]
           t == list[e]
           M == IF t = NULL THEN K ELSE [p \in Properties |-> Without(K[p], gone)]
<1>1. State \in Typed /\ K \in Lists(Entry) /\ t \in Texts \cup {NULL}
  BY DEF IInv, Good, Typed
<1>2. \A p \in Properties : \A i \in DOMAIN K[p] : K[p][i] \in gone <=> IsInline(K[p][i])
  BY DEF Entries, Range
<1> HIDE DEF gone, K
<1>3. /\ T \in Typed
      /\ \A x \in Element : x # e => T.style[x] = State.style[x]
      /\ \A f \in {"parent", "dirty", "sheets", "parsed"} : T[f] = State[f]
  BY <1>1, DropIs
<1>4. T.style[e] = [p \in Properties |-> Without(K[p], gone)]
  BY <1>1 DEF Drop, Typed, K
<1>5. W = IF list[e] = NULL THEN State ELSE T
  BY DEF WithoutInline, gone
<1> HIDE DEF T, t
<1>6. W.style[e] = M
  BY <1>4, <1>5 DEF K, t
<1>7. ASSUME NEW E, NEW R, IsOrder(R), Full(K, E, R), Owns(E, t)
      PROVE  /\ Full(M, Restyled(E, NULL), R)
             /\ \A u \in Texts : Full(ListAppend(M, Inline, InlineBit, u), Restyled(E, u), R)
  <2> HIDE DEF W
  <2>1. M = IF t = NULL THEN K ELSE [p \in Properties |-> Without(K[p], gone)]
    OBVIOUS
  <2> HIDE DEF M
  <2>2. M \in Lists(Entry) /\ Full(M, Restyled(E, NULL), R)
    BY <1>1, <1>2, <1>7, <2>1, InlineDropped
  <2> QED BY <1>1, <1>7, <2>2, InlineAdded
<1> HIDE DEF W, M
<1>8. W \in Typed /\ W.parent = State.parent /\ W.sheets = State.sheets
      /\ W.parsed = State.parsed
      /\ (\A x \in Element : x # e => W.style[x] = State.style[x])
  BY <1>1, <1>3, <1>5
<1>9. W.style[e] \in Lists(Entry)
  BY <1>8 DEF Typed
<1> QED BY <1>6, <1>7, <1>8, <1>9 DEF W, K, t

\* A call that leaves all but the attribute alone.
LEMMA CascadesStay ==
    ASSUME Cascades, UNCHANGED <<parent, style, list, dirty, sheets, parsed>>, IInv'
    PROVE  Cascades'
<1>1. State' = State /\ list' = list
  BY DEF State
<1>2. Placed(State') /\ Styles(State', list')
  BY <1>1 DEF Cascades
<1> QED BY <1>2 DEF Cascades

LEMMA AttrSetCascades ==
    ASSUME Cascades, NEW e \in Element, NEW t \in Texts, AttrSet(e, t)
    PROVE  Cascades'
<1>1. IInv /\ IInv' /\ Good(State) /\ Placed(State) /\ list \in Inlines /\ Styles(State, list)
  BY AttrSetGood DEF Cascades, IInv, Inlines
<1>2. CASE RemoveFails(e)
  BY <1>1, <1>2, CascadesStay DEF AttrSet
<1>3. CASE ~RemoveFails(e)
  <2> DEFINE S == WithoutInline(e)
             new == ListAppend(S.style[e], Inline, InlineBit, t)
             T == [S EXCEPT !.style = [S.style EXCEPT ![e] = new]]
  <2>1. /\ S \in Typed /\ S.parent = State.parent /\ S.sheets = State.sheets
        /\ S.parsed = State.parsed
        /\ \A x \in Element : x # e => S.style[x] = State.style[x]
        /\ S.style[e] \in Lists(Entry)
    BY <1>1, WithoutInlineIs
  <2>2. \A E, R : IsOrder(R) /\ Full(State.style[e], E, R) /\ Owns(E, list[e]) =>
                     Full(new, Restyled(E, t), R)
    BY <1>1, WithoutInlineIs
  <2>3. Becomes(T) /\ list' = [list EXCEPT ![e] = t]
    BY <1>3 DEF AttrSet
  <2> HIDE DEF S
  <2>4. new \in Lists(Entry)
    <3>1. \A d \in Declaration : [from |-> Inline, sp |-> Weight(InlineBit, d)] \in Entry
      BY InlineWeight DEF InlineEntry
    <3>2. t \in Seq(Declaration)
      BY TextsAssumption
    <3> QED BY <2>1, <3>1, <3>2, EntryWeight, ListAppendIs
  <2> HIDE DEF new
  <2>5. [S.style EXCEPT ![e] = new] \in [Element -> Lists(Entry)]
    BY <2>1, <2>4 DEF Typed
  <2>6. /\ T \in Typed /\ T.parent = S.parent /\ T.sheets = S.sheets /\ T.parsed = S.parsed
        /\ T.style = [S.style EXCEPT ![e] = new]
    BY <2>1, <2>5 DEF Typed
  <2> HIDE DEF T
  <2>7. T.style[e] = new /\ \A x \in Element : x # e => T.style[x] = State.style[x]
    BY <2>1, <2>6 DEF Typed
  <2>8. Placed(T) /\ Styles(T, [list EXCEPT ![e] = t])
    <3>1. t \in Texts \cup {NULL}
      OBVIOUS
    <3>2. \A E, R : IsOrder(R) /\ Full(State.style[e], E, R) /\ Owns(E, list[e]) =>
                       Full(T.style[e], Restyled(E, t), R)
      BY <2>2, <2>7
    <3>3. /\ T.parent = State.parent /\ T.sheets = State.sheets
          /\ T.parsed = State.parsed
          /\ \A x \in Element : x # e => T.style[x] = State.style[x]
      BY <2>1, <2>6, <2>7
    <3> QED BY <1>1, <3>1, <3>2, <3>3, ChangedStyles
  <2>9. State' = T
    BY <2>3, <2>6, BecomesIs
  <2>10. Placed(State') /\ Styles(State', list')
    BY <2>3, <2>8, <2>9
  <2> QED BY <1>1, <2>10 DEF Cascades
<1> QED BY <1>2, <1>3

LEMMA AttrRemoveCascades ==
    ASSUME Cascades, NEW e \in Element, AttrRemove(e) \/ AttrEmpty(e)
    PROVE  Cascades'
<1>1. IInv /\ IInv' /\ Good(State) /\ Placed(State) /\ list \in Inlines /\ Styles(State, list)
  BY AttrRemoveGood DEF Cascades, IInv, Inlines
<1>2. CASE RemoveFails(e)
  BY <1>1, <1>2, CascadesStay DEF AttrRemove, AttrEmpty
<1>3. CASE ~RemoveFails(e)
  <2> DEFINE T == WithoutInline(e)
  <2>1. /\ T \in Typed /\ T.parent = State.parent /\ T.sheets = State.sheets
        /\ T.parsed = State.parsed
        /\ \A x \in Element : x # e => T.style[x] = State.style[x]
    BY <1>1, WithoutInlineIs
  <2>2. \A E, R : IsOrder(R) /\ Full(State.style[e], E, R) /\ Owns(E, list[e]) =>
                     Full(T.style[e], Restyled(E, NULL), R)
    BY <1>1, WithoutInlineIs
  <2>3. Becomes(T) /\ list' = [list EXCEPT ![e] = NULL]
    BY <1>3 DEF AttrRemove, AttrEmpty
  <2> HIDE DEF T
  <2>4. Placed(T) /\ Styles(T, [list EXCEPT ![e] = NULL])
    <3>1. NULL \in Texts \cup {NULL}
      OBVIOUS
    <3> QED BY <1>1, <2>1, <2>2, <3>1, ChangedStyles
  <2>5. State' = T
    BY <2>1, <2>3, BecomesIs
  <2>6. Placed(State') /\ Styles(State', list')
    BY <2>3, <2>4, <2>5
  <2> QED BY <1>1, <2>6 DEF Cascades
<1> QED BY <1>2, <1>3

LEMMA NothingHeld ==
    ASSUME NEW R
    PROVE  Holds(<<>>, {}) /\ InOrder(<<>>, R)
<1>1. DOMAIN <<>> = {}
  OBVIOUS
<1> DEFINE q == <<>>
<1>2. DOMAIN q = {}
  BY <1>1
<1> HIDE DEF q
<1>3. InOrder(q, R)
  BY <1>2 DEF InOrder
<1>4. Holds(q, {})
  <2> DEFINE f == [y \in {} |-> y]
  <2>1. f \in [{} -> {}]
    OBVIOUS
  <2> HIDE DEF f
  <2> QED BY <1>2, <2>1 DEF Holds
<1> QED BY <1>3, <1>4 DEF q

LEMMA StartedCascades ==
    ASSUME TagUnstyled, Init
    PROVE  Cascades
<1> DEFINE l == [e \in Element |-> NULL]
<1>1. l \in Inlines
  BY DEF Inlines
<1>2. ASSUME NEW p \in {NULL, Doc}
      PROVE  /\ Fresh(p) \in Typed /\ Ordered(Fresh(p)) /\ Fresh(p).parsed = 0
             /\ Placed(Fresh(p)) /\ Styles(Fresh(p), l)
             /\ \A x \in Element : Fresh(p).parent[x] = p
  <2> DEFINE S == Fresh(p)
  <2>1. <<>> \in Seq(Entry) /\ <<>> \in Seq(Sheet) /\ 0 \in 0 .. Len(TagSheets)
    BY SheetsAssumption
  <2>2. [e \in Element |-> [q \in Properties |-> <<>>]] \in [Element -> Lists(Entry)]
    BY <2>1 DEF Lists
  <2>3. S \in Typed
    BY <2>1, <2>2 DEF Fresh, Typed, Pointer
  <2>4. /\ S.sheets = <<>> /\ S.parsed = 0
        /\ \A x \in Element : S.parent[x] = p /\ \A q \in Properties : S.style[x][q] = <<>>
    BY DEF Fresh
  <2> HIDE DEF S
  <2>5. p \notin Element /\ Tag \in Element /\ \A j \in DOMAIN Elements :
            Elements[j] \in Element
    BY NamesAssumption, ElementsAssumption
  <2>6. Ordered(S)
    BY <2>3, <2>4, <2>5 DEF Ordered, Typed
  <2>7. Placed(S)
    <3>1. IsInjective(<<>>) /\ Range(<<>>) = {}
      BY DEF IsInjective, Range
    <3>2. \A k \in DOMAIN TagSheets : k # 0
      BY SheetsAssumption
    <3> QED BY <2>4, <2>5, <3>1, <3>2 DEF Placed
  <2>8. ASSUME NEW x \in Element PROVE Current(S, l, x)
    <3>1. \A q \in Properties : Whole(S, l, x)[q] = {}
      <4>1. Range(S.sheets) = {}
        BY <2>4 DEF Range
      <4>2. l[x] = NULL
        OBVIOUS
      <4> HIDE DEF l
      <4> QED BY <4>1, <4>2 DEF Whole, Cascaded, Inlined
    <3>2. \A R : Holds(<<>>, {}) /\ InOrder(<<>>, R)
      BY NothingHeld
    <3> HIDE DEF l
    <3> QED BY <2>4, <3>1, <3>2 DEF Current, Full
  <2>9. Styles(S, l)
    <3>1. S.sheets \in Seq(Sheet) /\ IsInjective(S.sheets)
      BY <2>1, <2>4, <2>7 DEF Placed
    <3>2. \A x \in Element : l[x] \in Texts \cup {NULL}
      BY <1>1 DEF Inlines
    <3> HIDE DEF l
    <3> QED BY <2>8, <3>1, <3>2, CurrentOwned DEF Styles
  <2> QED BY <2>3, <2>4, <2>6, <2>7, <2>9 DEF S
<1> HIDE DEF l
<1>3. Placed(TagInserted(Fresh(Doc))) /\ Styles(TagInserted(Fresh(Doc)), l)
      /\ TagInserted(Fresh(Doc)) \in Typed
  <2> DEFINE S == Fresh(Doc)
             s == TagSheets[S.parsed + 1]
             T == TagInserted(S)
  <2>1. /\ S \in Typed /\ Ordered(S) /\ S.parsed = 0 /\ Placed(S) /\ Styles(S, l)
        /\ \A x \in Element : S.parent[x] = Doc
    BY <1>2
  <2> HIDE DEF S
  <2>2. S.parsed < Len(TagSheets) /\ S.parsed + 1 \in DOMAIN TagSheets /\ s \in Sheet
    BY <2>1, SheetsAssumption
  <2>3. S.sheets \in Seq(Sheet) /\ IsInjective(S.sheets)
        /\ \A k \in DOMAIN TagSheets : TagSheets[k] \notin Range(S.sheets)
    <3>1. \A k \in DOMAIN TagSheets : k # 0
      BY SheetsAssumption
    <3> QED BY <2>1, <3>1 DEF Placed, Typed
  <2>4. /\ T.sheets = Append(S.sheets, s)
        /\ \A x \in Element : Connected(S, x) /\ Current(S, l, x) => Current(T, l, x)
    BY <1>1, <2>1, <2>2, <2>3, TagInsertedStyles
  <2>5. T \in Typed /\ Beside(S, T) /\ T.parsed = S.parsed + 1
    BY <2>1, <2>2, TagInsertedIs
  <2>6. IsInjective(T.sheets) /\ Range(T.sheets) = Range(S.sheets) \cup {s}
    BY <2>2, <2>3, <2>4, AppendIs
  <2> HIDE DEF T
  <2>7. \A x \in Element : Connected(S, x) /\ (Connected(T, x) <=> Connected(S, x))
    <3>1. \A x \in Element : Connected(S, x)
      BY <2>1, LineHas DEF Connected, Ordered
    <3> QED BY <2>5, <3>1, SameLines DEF Beside
  <2>8. Styles(T, l)
    BY <2>1, <2>4, <2>7 DEF Styles
  <2>9. Placed(T)
    <3>1. Tag \in Element /\ Doc # Tag
      BY ElementsAssumption, NamesAssumption
    <3>2. \A k \in DOMAIN TagSheets : TagSheets[k] \in Range(T.sheets) <=> k = S.parsed + 1
      BY <2>2, <2>3, <2>6, SheetsAssumption DEF IsInjective
    <3> QED BY <2>1, <2>5, <2>6, <3>1, <3>2 DEF Placed, Beside
  <2> QED BY <2>5, <2>8, <2>9 DEF S, T
<1>4. PICK S \in {Fresh(NULL), TagInserted(Fresh(Doc))} :
         /\ parent = S.parent /\ style = S.style /\ dirty = S.dirty
         /\ sheets = S.sheets /\ parsed = S.parsed
  BY DEF Init
<1>5. S \in Typed /\ Placed(S) /\ Styles(S, l)
  BY <1>2, <1>3
<1>6. State = S /\ list = l
  BY <1>4, <1>5 DEF State, Typed, Init, l
<1> QED BY <1>5, <1>6, Started DEF Cascades

LEMMA CascadesKept ==
    ASSUME TagUnstyled, Cascades, [Next]_vars
    PROVE  Cascades'
<1>1. ASSUME NEW e \in Element, RemoveElement(e) PROVE Cascades'
  BY <1>1, RemoveElementCascades
<1>2. ASSUME NEW e \in Element, AttrRemove(e) \/ AttrEmpty(e) PROVE Cascades'
  BY <1>2, AttrRemoveCascades
<1>3. ASSUME NEW e \in Element, NEW t \in Texts, AttrSet(e, t) PROVE Cascades'
  BY <1>3, AttrSetCascades
<1>4. ASSUME NEW s \in ApiSheets, Attach(s) PROVE Cascades'
  BY <1>4, AttachCascades
<1>5. ASSUME NEW s \in ApiSheets, Detach(s) PROVE Cascades'
  BY <1>5, DetachCascades
<1>6. ASSUME NEW e \in Element, NEW p \in Element \cup {Doc},
             p # Doc => Connected(State, p) /\ e # Tag, InsertChild(p, e)
      PROVE  Cascades'
  BY <1>6, InsertChildCascades
<1>7. CASE UNCHANGED vars
  BY <1>7, Kept, CascadesStay DEF vars, Cascades
<1> QED BY <1>1, <1>2, <1>3, <1>4, <1>5, <1>6, <1>7 DEF Next

-----------------------------------------------------------------------------
(* The theorem.                                                            *)

\* A function that is onto and one to one is a bijection.
LEMMA Bijective ==
    ASSUME NEW X, NEW Y, NEW f \in [X -> Y],
           \A i, j \in X : f[i] = f[j] => i = j, \A y \in Y : \E i \in X : f[i] = y
    PROVE  ExistsBijection(X, Y)
<1>1. f \in Injection(X, Y)
  BY DEF Injection, IsInjective
<1>2. f \in Surjection(X, Y)
  BY DEF Surjection
<1> QED BY <1>1, <1>2 DEF ExistsBijection, Bijection

\* A list that holds D is as long as D, and has each entry as often as D does.
LEMMA HoldsCounted ==
    ASSUME NEW T, NEW q \in Seq(T), NEW D, Holds(q, D)
    PROVE  /\ Len(q) = Cardinality(D)
           /\ \A d \in D : Cardinality({i \in DOMAIN q : q[i] = d.entry})
                             = Cardinality({c \in D : c.entry = d.entry})
<1>1. PICK f \in [DOMAIN q -> D] :
         /\ \A i \in DOMAIN q : q[i] = f[i].entry
         /\ \A i, j \in DOMAIN q : f[i] = f[j] => i = j
         /\ \A c \in D : \E i \in DOMAIN q : f[i] = c
  BY DEF Holds
<1>2. DOMAIN q = 1 .. Len(q) /\ Len(q) \in Nat
  OBVIOUS
<1>3. Len(q) = Cardinality(D)
  <2> DEFINE n == Len(q)
  <2>1. n \in Nat /\ f \in [1 .. n -> D]
    BY <1>2
  <2>2. /\ \A i, j \in 1 .. n : f[i] = f[j] => i = j
        /\ \A c \in D : \E i \in 1 .. n : f[i] = c
    BY <1>1, <1>2
  <2> HIDE DEF n
  <2>3. ExistsBijection(1 .. n, D)
    BY <2>1, <2>2, Bijective
  <2>4. Cardinality(D) = n
    BY <2>1, <2>3, FS_CountingElements
  <2> QED BY <2>4 DEF n
<1>4. ASSUME NEW d \in D
      PROVE  Cardinality({i \in DOMAIN q : q[i] = d.entry})
               = Cardinality({c \in D : c.entry = d.entry})
  <2> DEFINE X == {i \in DOMAIN q : q[i] = d.entry}
             Y == {c \in D : c.entry = d.entry}
             g == [i \in X |-> f[i]]
  <2>1. \A i \in X : g[i] = f[i] /\ f[i] \in Y
    BY <1>1
  <2>2. \A i, j \in X : g[i] = g[j] => i = j
    BY <1>1, <2>1
  <2>3. \A y \in Y : \E i \in X : g[i] = y
    <3> TAKE y \in Y
    <3>1. PICK i \in DOMAIN q : f[i] = y
      BY <1>1
    <3>2. i \in X
      BY <1>1, <3>1
    <3> QED BY <2>1, <3>1, <3>2
  <2>4. g \in [X -> Y]
    BY <2>1
  <2>5. IsFiniteSet(X)
    <3>1. IsFiniteSet(DOMAIN q) /\ X \subseteq DOMAIN q
      BY <1>2, FS_Interval
    <3> HIDE DEF X
    <3> QED BY <3>1, FS_Subset
  <2> HIDE DEF X, Y, g
  <2>6. ExistsBijection(X, Y)
    BY <2>2, <2>3, <2>4, Bijective
  <2>7. Cardinality(X) = Cardinality(Y)
    BY <2>5, <2>6, FS_Bijection
  <2> QED BY <2>7 DEF X, Y
<1> QED BY <1>3, <1>4

LEMMA CascadesCurrent ==
    ASSUME Cascades
    PROVE  CascadeCurrent
<1> SUFFICES ASSUME NEW e \in Element, NEW p \in Properties, Connected(State, e)
             PROVE  LET q == style[e][p]
                        D == Cascaded(State, e, p) \cup Inlined(list[e], p)
                    IN  /\ Len(q) = Cardinality(D)
                        /\ \A d \in D : Cardinality({i \in DOMAIN q : q[i] = d.entry})
                                          = Cardinality({c \in D : c.entry = d.entry})
                        /\ \A i, j \in DOMAIN q : Beats(sheets, q[i], q[j]) => i < j
  BY DEF CascadeCurrent
<1> DEFINE q == style[e][p]
           D == Cascaded(State, e, p) \cup Inlined(list[e], p)
           R == Order(sheets)
<1>1. State \in Typed /\ State.style = style /\ State.sheets = sheets
      /\ IsInjective(sheets) /\ Current(State, list, e)
  BY StateIs DEF Cascades, IInv, Good, Placed, Styles
<1>2. sheets \in Seq(Sheet) /\ q \in Seq(Entry)
  BY <1>1 DEF Typed, Lists
<1>3. Holds(q, D) /\ InOrder(q, R)
  BY <1>1 DEF Current, Full, Whole
<1>4. IsOrder(R)
  BY <1>1, <1>2, OrderIsOrder
<1>5. \A i, j \in DOMAIN q : Beats(sheets, q[i], q[j]) => i < j
  <2> HIDE DEF q
  <2> TAKE i, j \in DOMAIN q
  <2> HAVE Beats(sheets, q[i], q[j])
  <2>1. q[i] \in Entry /\ q[j] \in Entry /\ i \in Int /\ j \in Int
    BY <1>2
  <2>2. <<q[i], q[j]>> \in R
    BY <2>1, OrderIs
  <2> HIDE DEF R
  <2>3. i # j
    BY <1>4, <2>1, <2>2 DEF IsOrder
  <2>4. ~(j < i)
    BY <1>3, <2>2 DEF InOrder
  <2> QED BY <2>1, <2>3, <2>4
<1> HIDE DEF q, D, R
<1>6. /\ Len(q) = Cardinality(D)
      /\ \A d \in D : Cardinality({i \in DOMAIN q : q[i] = d.entry})
                        = Cardinality({c \in D : c.entry = d.entry})
  BY <1>2, <1>3, HoldsCounted
<1> QED BY <1>5, <1>6 DEF q, D

\* Whatever is attached and detached, inserted and removed, given a style
\* attribute and stripped of one, in whatever order: a connected element has
\* the declarations of the rules that match it and of its own style attribute,
\* no other, none twice and none lost, in the order of the cascade.
THEOREM StyleCascades ==
    ASSUME TagUnstyled
    PROVE  Spec => []CascadeCurrent
<1>1. Init => Cascades
  BY StartedCascades
<1>2. Cascades /\ [Next]_vars => Cascades'
  BY CascadesKept
<1>3. Cascades => CascadeCurrent
  BY CascadesCurrent
<1> QED BY <1>1, <1>2, <1>3, PTL DEF Spec

=============================================================================
