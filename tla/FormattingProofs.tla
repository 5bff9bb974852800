--------------------------- MODULE FormattingProofs ---------------------------
(***************************************************************************)
(* Proofs about Formatting: for every vocabulary, however large the        *)
(* documents, the stack of open elements is always a way down the          *)
(* document, and both lists hold what they should.                         *)
(*                                                                         *)
(* A handler works on a tree by itself and only what it leaves is seen, so *)
(* the lemmas are about operators on trees, in the order in which the      *)
(* module defines them; the actions come last.                             *)
(***************************************************************************)
EXTENDS Formatting, FiniteSetTheorems, SequenceTheorems, WellFoundedInduction, TLAPS

-----------------------------------------------------------------------------
(* Numbers, and loops: a function on 0 .. n that is defined step by step.  *)

\* A set of natural numbers has a least element.
LEMMA LeastExists ==
    ASSUME NEW S \in SUBSET Nat, S # {}
    PROVE  \E m \in S : \A k \in S : m <= k
<1> DEFINE Upto(m) == {k \in S : k <= m}
           R == StrictSubsetOrdering(Nat)
           D == {Upto(m) : m \in S}
<1>1. D \subseteq FiniteSubsetsOf(Nat) /\ D # {}
  <2>1. ASSUME NEW m \in S PROVE Upto(m) \in FiniteSubsetsOf(Nat)
    <3>1. Upto(m) \in SUBSET Nat /\ m \in Nat /\ \A k \in Upto(m) : k <= m
      OBVIOUS
    <3> HIDE DEF Upto
    <3>2. IsFiniteSet(Upto(m))
      BY <3>1, FS_BoundedSetOfNaturals
    <3> QED BY <3>1, <3>2 DEF FiniteSubsetsOf
  <2> HIDE DEF Upto
  <2> QED BY <2>1
<1>2. IsWellFoundedOn(R, FiniteSubsetsOf(Nat))
  BY FS_StrictSubsetOrderingWellFounded
<1>3. PICK d \in D : \A c \in D : ~ (<<c, d>> \in R)
  <2> HIDE DEF D, R
  <2> QED BY <1>1, <1>2, WFMin
<1>4. PICK m \in S : d = Upto(m)
  OBVIOUS
<1>5. ASSUME NEW k \in S, ~ (m <= k) PROVE FALSE
  <2>1. Upto(k) \subseteq Upto(m) /\ m \in Upto(m) /\ m \notin Upto(k)
    <3>1. k \in Int /\ m \in Int /\ k < m /\ \A j \in S : j \in Int
      BY <1>5
    <3>2. \A j \in S : j <= k => j <= m
      BY <3>1
    <3>3. m \in Upto(m) /\ m \notin Upto(k)
      BY <3>1
    <3> QED BY <3>2, <3>3
  <2>2. <<Upto(k), Upto(m)>> \in R
    <3>1. Upto(k) \in SUBSET Nat /\ Upto(m) \in SUBSET Nat
      OBVIOUS
    <3> HIDE DEF Upto
    <3> QED BY <2>1, <3>1 DEF StrictSubsetOrdering
  <2> QED BY <1>3, <1>4, <2>2
<1> QED BY <1>5

\* What holds at 0 and is handed on by each step holds up to n.
LEMMA Climbing ==
    ASSUME NEW n \in Nat, NEW P, 0 \in P,
           \A i \in 1 .. n : i - 1 \in P => i \in P
    PROVE  0 .. n \subseteq P
<1> SUFFICES ASSUME ~ (0 .. n \subseteq P) PROVE FALSE
  OBVIOUS
<1> DEFINE S == (0 .. n) \ P
<1>1. PICK m \in S : \A k \in S : m <= k
  <2>1. S \in SUBSET Nat /\ S # {}
    OBVIOUS
  <2> HIDE DEF S
  <2> QED BY <2>1, LeastExists
<1>2. m \in 1 .. n /\ m - 1 \in 0 .. n
  OBVIOUS
<1>3. m - 1 \in P
  BY <1>1, <1>2
<1> QED BY <1>2, <1>3

\* Step is a loop body: it leads from A[i - 1] to A[i].
Leads(n, A, b, Step) ==
    /\ b \in A[0]
    /\ \A i \in 1 .. n : \A x \in A[i - 1] : Step[i][x] \in A[i]

\* The table of such a loop.
IsTable(f, n, b, Step) ==
    f = [i \in 0 .. n |-> IF i = 0 THEN b ELSE Step[i][f[i - 1]]]

\* Such a table exists, for whatever the body is.
LEMMA TableExists ==
    ASSUME NEW n \in Nat, NEW b, NEW Step
    PROVE  \E f : IsTable(f, n, b, Step)
<1> DEFINE P == {m \in 0 .. n : \E f : IsTable(f, m, b, Step)}
<1>1. 0 \in P
  <2>1. IsTable([i \in 0 .. 0 |-> b], 0, b, Step)
    BY DEF IsTable
  <2> QED BY <2>1
<1>2. ASSUME NEW i \in 1 .. n, i - 1 \in P PROVE i \in P
  <2>1. PICK f : IsTable(f, i - 1, b, Step)
    BY <1>2
  <2> DEFINE g == [j \in 0 .. i |-> IF j = i THEN Step[i][f[i - 1]] ELSE f[j]]
  <2>5. i \in Nat /\ i >= 1 /\ 0 \in 0 .. i - 1
    OBVIOUS
  <2>6. f[0] = b
    BY <2>1, <2>5 DEF IsTable
  <2>7. \A j \in 1 .. i - 1 : f[j] = Step[j][f[j - 1]]
    BY <2>1, <2>5 DEF IsTable
  <2>2. \A j \in 0 .. i : g[j] = IF j = 0 THEN b ELSE Step[j][g[j - 1]]
    <3> TAKE j \in 0 .. i
    <3>1. CASE j = 0
      <4>1. g[j] = f[0]
        BY <2>5, <3>1
      <4> QED BY <2>6, <3>1, <4>1
    <3>2. CASE j = i
      <4>1. g[j] = Step[i][f[i - 1]] /\ j # 0
        BY <2>5, <3>2
      <4>2. g[j - 1] = f[i - 1]
        BY <2>5, <3>2
      <4> QED BY <3>2, <4>1, <4>2
    <3>3. CASE j \in 1 .. i - 1
      <4>1. j \in 0 .. i /\ j - 1 \in 0 .. i /\ j # i /\ j - 1 # i /\ j # 0
        BY <2>5, <3>3
      <4>2. g[j] = f[j] /\ g[j - 1] = f[j - 1]
        BY <4>1
      <4> QED BY <2>7, <3>3, <4>1, <4>2
    <3> QED BY <3>1, <3>2, <3>3
  <2>3. g = [j \in 0 .. i |-> IF j = 0 THEN b ELSE Step[j][g[j - 1]]]
    <3>1. g = [j \in 0 .. i |-> g[j]]
      OBVIOUS
    <3> HIDE DEF g
    <3> QED BY <2>2, <3>1
  <2>4. IsTable(g, i, b, Step)
    <3> HIDE DEF g
    <3> QED BY <2>3 DEF IsTable
  <2> HIDE DEF g
  <2> QED BY <2>4
<1>3. n \in P
  <2> HIDE DEF P
  <2> QED BY <1>1, <1>2, Climbing
<1> QED BY <1>3

\* Every place of the table is where the body leads to.
LEMMA TableIn ==
    ASSUME NEW n \in Nat, NEW A, NEW b, NEW Step, NEW f,
           Leads(n, A, b, Step), f[0] = b,
           \A i \in 1 .. n : f[i - 1] \in A[i - 1] => f[i] = Step[i][f[i - 1]]
    PROVE  \A i \in 0 .. n : f[i] \in A[i]
<1> DEFINE P == {i \in 0 .. n : f[i] \in A[i]}
<1>1. 0 \in P
  BY DEF Leads
<1>2. ASSUME NEW i \in 1 .. n, i - 1 \in P PROVE i \in P
  BY <1>2 DEF Leads
<1>3. 0 .. n \subseteq P
  <2> HIDE DEF P
  <2> QED BY <1>1, <1>2, Climbing
<1> QED BY <1>3

\* The shape of every loop below.
LEMMA TableOf ==
    ASSUME NEW n \in Nat, NEW A, NEW b, NEW Step, Leads(n, A, b, Step)
    PROVE  \E f : /\ IsTable(f, n, b, Step)
                 /\ \A i \in 0 .. n : f[i] \in A[i]
<1>1. PICK f : IsTable(f, n, b, Step)
  BY TableExists
<1>2. f[0] = b /\ \A i \in 1 .. n : f[i] = Step[i][f[i - 1]]
  BY <1>1 DEF IsTable
<1>3. \A i \in 0 .. n : f[i] \in A[i]
  BY <1>2, TableIn
<1> QED BY <1>1, <1>3

\* Min of the community modules, as the least element.
LEMMA MinIs ==
    ASSUME NEW S \in SUBSET Nat, S # {}
    PROVE  Min(S) \in S /\ \A x \in S : Min(S) <= x
<1>1. PICK m \in S : \A k \in S : m <= k
  BY LeastExists
<1> QED BY <1>1 DEF Min

\* Max likewise: a bound is needed for there to be one.
LEMMA MaxIs ==
    ASSUME NEW n \in Nat, NEW S \in SUBSET (0 .. n), S # {}
    PROVE  Max(S) \in S /\ \A x \in S : x <= Max(S)
<1> DEFINE R == {n - x : x \in S}
<1>1. R \in SUBSET Nat /\ R # {}
  <2>1. ASSUME NEW x \in S PROVE n - x \in Nat
    <3>1. x \in 0 .. n
      OBVIOUS
    <3> QED BY <3>1
  <2> QED BY <2>1
<1>2. PICK k \in R : \A j \in R : k <= j
  <2> HIDE DEF R
  <2> QED BY <1>1, LeastExists
<1>3. PICK m \in S : k = n - m
  OBVIOUS
<1>4. ASSUME NEW x \in S PROVE m >= x
  <2>1. n - x \in R
    OBVIOUS
  <2>2. n - m <= n - x
    BY <1>2, <1>3, <2>1
  <2>3. x \in Int /\ m \in Int
    OBVIOUS
  <2> QED BY <2>2, <2>3
<1>5. Max(S) \in S /\ \A y \in S : Max(S) >= y
  BY <1>4 DEF Max
<1>6. \A x \in S : x \in Int
  OBVIOUS
<1> QED BY <1>5, <1>6

-----------------------------------------------------------------------------
(* Sequences.                                                              *)

\* LastAt finds the last place of x, and 0 only if there is none.
LEMMA LastAtIs ==
    ASSUME NEW X, NEW s \in Seq(X), NEW x
    PROVE  /\ LastAt(s, x) \in 0 .. Len(s)
           /\ LastAt(s, x) # 0 => s[LastAt(s, x)] = x
           /\ \A i \in 1 .. Len(s) : s[i] = x => i <= LastAt(s, x) /\ LastAt(s, x) # 0
<1> DEFINE S == {i \in DOMAIN s : s[i] = x} \cup {0}
<1>1. Len(s) \in Nat /\ DOMAIN s = 1 .. Len(s)
  BY LenProperties
<1>2. S \in SUBSET (0 .. Len(s)) /\ S # {}
  BY <1>1
<1>3. Max(S) \in S /\ \A y \in S : y <= Max(S)
  <2> HIDE DEF S
  <2> QED BY <1>1, <1>2, MaxIs
<1>4. LastAt(s, x) = Max(S)
  BY DEF LastAt
<1> QED BY <1>1, <1>3, <1>4

\* q is s without place i.
Shortened(q, s, i) ==
    /\ Len(q) = Len(s) - 1
    /\ \A j \in 1 .. Len(s) - 1 : q[j] = IF j < i THEN s[j] ELSE s[j + 1]

\* RemoveAt takes place i out and moves up what is behind it.
LEMMA RemoveAtIs ==
    ASSUME NEW X, NEW s \in Seq(X), NEW i \in 1 .. Len(s)
    PROVE  RemoveAt(s, i) \in Seq(X) /\ Shortened(RemoveAt(s, i), s, i)
<1> DEFINE a == SubSeq(s, 1, i - 1)
           b == SubSeq(s, i + 1, Len(s))
           n == Len(s)
<1>1. n \in Nat /\ i \in Int /\ 1 <= i /\ i <= n
  BY LenProperties
<1>2. a \in Seq(X) /\ Len(a) = i - 1 /\ \A j \in 1 .. i - 1 : a[j] = s[j]
  <2>1. \A j \in 1 .. i - 1 : s[j] \in X
    BY <1>1, ElementOfSeq
  <2> QED BY <1>1, <2>1, SubSeqProperties
<1>3. b \in Seq(X) /\ Len(b) = n - i /\ \A j \in 1 .. n - i : b[j] = s[i + j]
  <2>1. \A j \in i + 1 .. n : s[j] \in X
    BY <1>1, ElementOfSeq
  <2>2. b \in Seq(X) /\ Len(b) = IF i + 1 <= n THEN n - (i + 1) + 1 ELSE 0
    BY <1>1, <2>1, SubSeqProperties
  <2>3. \A j \in 1 .. n - (i + 1) + 1 : b[j] = s[(i + 1) + j - 1]
    BY <1>1, <2>1, SubSeqProperties
  <2> QED BY <1>1, <2>2, <2>3
<1>4. RemoveAt(s, i) = a \o b
  BY DEF RemoveAt
<1> HIDE DEF a, b, n
<1>5. a \o b \in Seq(X) /\ Len(a \o b) = n - 1
  <2>1. a \o b \in Seq(X) /\ Len(a \o b) = Len(a) + Len(b)
    BY <1>2, <1>3, ConcatProperties
  <2> QED BY <1>1, <1>2, <1>3, <2>1
<1>6. \A j \in 1 .. n - 1 : (a \o b)[j] = IF j <= i - 1 THEN a[j] ELSE b[j - (i - 1)]
  <2>1. \A j \in 1 .. Len(a) + Len(b) :
           (a \o b)[j] = IF j <= Len(a) THEN a[j] ELSE b[j - Len(a)]
    BY <1>2, <1>3, ConcatProperties
  <2>2. Len(a) + Len(b) = n - 1
    BY <1>1, <1>2, <1>3
  <2> QED BY <1>2, <2>1, <2>2
<1>7. ASSUME NEW j \in 1 .. n - 1
      PROVE  (a \o b)[j] = IF j < i THEN s[j] ELSE s[j + 1]
  <2>1. CASE j < i
    BY <1>1, <1>2, <1>6, <1>7, <2>1
  <2>2. CASE ~ (j < i)
    <3>1. j - (i - 1) \in 1 .. n - i /\ ~ (j <= i - 1) /\ i + (j - (i - 1)) = j + 1
      BY <1>1, <1>7, <2>2
    <3> QED BY <1>3, <1>6, <1>7, <2>2, <3>1
  <2> QED BY <2>1, <2>2
<1> QED BY <1>4, <1>5, <1>7 DEF Shortened, n

\* q is s with x put at place i.
Lengthened(q, s, i, x) ==
    /\ Len(q) = Len(s) + 1
    /\ \A j \in 1 .. Len(s) + 1 : q[j] = IF j < i THEN s[j] ELSE IF j = i THEN x ELSE s[j - 1]

\* InsertAt puts x at place i and moves down what was there and behind it.
LEMMA InsertAtIs ==
    ASSUME NEW X, NEW s \in Seq(X), NEW i \in 1 .. Len(s) + 1, NEW x \in X
    PROVE  InsertAt(s, i, x) \in Seq(X) /\ Lengthened(InsertAt(s, i, x), s, i, x)
<1> DEFINE a == SubSeq(s, 1, i - 1)
           b == SubSeq(s, i, Len(s))
           n == Len(s)
           c == a \o <<x>>
<1>1. n \in Nat /\ i \in Int /\ 1 <= i /\ i <= n + 1
  BY LenProperties
<1>2. a \in Seq(X) /\ Len(a) = i - 1 /\ \A j \in 1 .. i - 1 : a[j] = s[j]
  <2>1. \A j \in 1 .. i - 1 : s[j] \in X
    BY <1>1, ElementOfSeq
  <2> QED BY <1>1, <2>1, SubSeqProperties
<1>3. b \in Seq(X) /\ Len(b) = n - i + 1 /\ \A j \in 1 .. n - i + 1 : b[j] = s[i + j - 1]
  <2>1. \A j \in i .. n : s[j] \in X
    BY <1>1, ElementOfSeq
  <2> QED BY <1>1, <2>1, SubSeqProperties
<1>4. InsertAt(s, i, x) = c \o b
  BY DEF InsertAt
<1>5. <<x>> \in Seq(X) /\ Len(<<x>>) = 1 /\ <<x>>[1] = x
  OBVIOUS
<1> HIDE DEF a, b, n
<1>6. c \in Seq(X) /\ Len(c) = i
  BY <1>1, <1>2, <1>5, ConcatProperties
<1>7. \A j \in 1 .. i : c[j] = IF j < i THEN s[j] ELSE x
  <2>1. \A j \in 1 .. Len(a) + Len(<<x>>) :
           c[j] = IF j <= Len(a) THEN a[j] ELSE <<x>>[j - Len(a)]
    BY <1>2, <1>5, ConcatProperties
  <2> HIDE DEF c
  <2> TAKE j \in 1 .. i
  <2>2. c[j] = IF j <= i - 1 THEN a[j] ELSE <<x>>[j - (i - 1)]
    BY <1>1, <1>2, <1>5, <2>1
  <2>3. CASE j < i
    BY <1>1, <1>2, <2>2, <2>3
  <2>4. CASE ~ (j < i)
    <3>1. j - (i - 1) = 1 /\ ~ (j <= i - 1)
      BY <1>1, <2>4
    <3> QED BY <1>5, <2>2, <2>4, <3>1
  <2> QED BY <2>3, <2>4
<1> HIDE DEF c
<1>8. c \o b \in Seq(X) /\ Len(c \o b) = n + 1
  <2>1. c \o b \in Seq(X) /\ Len(c \o b) = Len(c) + Len(b)
    BY <1>3, <1>6, ConcatProperties
  <2> QED BY <1>1, <1>3, <1>6, <2>1
<1>9. \A j \in 1 .. n + 1 : (c \o b)[j] = IF j <= i THEN c[j] ELSE b[j - i]
  <2>1. \A j \in 1 .. Len(c) + Len(b) :
           (c \o b)[j] = IF j <= Len(c) THEN c[j] ELSE b[j - Len(c)]
    BY <1>3, <1>6, ConcatProperties
  <2>2. Len(c) + Len(b) = n + 1
    BY <1>1, <1>3, <1>6
  <2> QED BY <1>6, <2>1, <2>2
<1>10. ASSUME NEW j \in 1 .. n + 1
       PROVE  (c \o b)[j] = IF j < i THEN s[j] ELSE IF j = i THEN x ELSE s[j - 1]
  <2>1. CASE j <= i
    <3>1. j \in 1 .. i
      BY <1>1, <1>10, <2>1
    <3>2. j < i \/ j = i
      BY <1>1, <2>1
    <3> QED BY <1>7, <1>9, <1>10, <2>1, <3>1, <3>2
  <2>2. CASE ~ (j <= i)
    <3>1. j - i \in 1 .. n - i + 1 /\ ~ (j < i) /\ j # i /\ i + (j - i) - 1 = j - 1
      BY <1>1, <1>10, <2>2
    <3> QED BY <1>3, <1>9, <1>10, <2>2, <3>1
  <2> QED BY <2>1, <2>2
<1> QED BY <1>4, <1>8, <1>10 DEF Lengthened, n

\* Only the last place of x goes, and nothing if there is none.
LEMMA RemoveByNodeIs ==
    ASSUME NEW X, NEW s \in Seq(X), NEW x
    PROVE  /\ RemoveByNode(s, x) \in Seq(X)
           /\ LastAt(s, x) = 0 => RemoveByNode(s, x) = s
           /\ LastAt(s, x) # 0 => Shortened(RemoveByNode(s, x), s, LastAt(s, x))
<1>1. LastAt(s, x) \in 0 .. Len(s) /\ Len(s) \in Nat
  BY LastAtIs, LenProperties
<1>2. CASE LastAt(s, x) = 0
  <2>1. SubSeq(s, 1, 0 - 1) = << >>
    BY SubSeqEmpty
  <2>2. SubSeq(s, 0 + 1, Len(s)) = s
    BY SubSeqFull
  <2>3. << >> \o s = s
    BY ConcatEmptySeq
  <2> QED BY <1>2, <2>1, <2>2, <2>3 DEF RemoveByNode, RemoveAt
<1>3. CASE LastAt(s, x) # 0
  <2>1. LastAt(s, x) \in 1 .. Len(s)
    BY <1>1, <1>3
  <2> QED BY <1>3, <2>1, RemoveAtIs DEF RemoveByNode
<1> QED BY <1>2, <1>3

-----------------------------------------------------------------------------
(* What is around an element.  As long as no element is inside itself it   *)
(* can be given a depth that is less than that of what is inside it.       *)

\* above, with no promise that the way up ends.
Links == [Node -> Node \cup {NULL}]

Depths(above, d) ==
    /\ d \in [Node -> Nat]
    /\ \A n \in Node : above[n] # NULL => d[above[n]] < d[n]

Ranked(above) == above \in Links /\ \E d : Depths(above, d)

\* C holds with an element what that is put into.
Upward(above, C) == \A m \in C : above[m] # NULL => above[m] \in C

\* Around satisfies the equation it is defined by, also where links go in circles:
\* then the whole of Node solves it.
LEMMA AroundEquation ==
    ASSUME NEW above \in Links, NEW n \in Node
    PROVE  Around(above, n) =
             {n} \cup IF above[n] = NULL THEN {} ELSE Around(above, above[n])
<1> DEFINE Line(x) == {y \in Node : \A C \in SUBSET Node :
                            x \in C /\ Upward(above, C) => y \in C}
           Body(f) == [m \in Node |-> {m} \cup IF above[m] = NULL THEN {} ELSE f[above[m]]]
           up == CHOOSE f : f = Body(f)
           h == [x \in Node |-> Line(x)]
<1>1. ASSUME NEW x \in Node
      PROVE  Line(x) = {x} \cup IF above[x] = NULL THEN {} ELSE Line(above[x])
  <2> DEFINE p == above[x]
             rest == IF p = NULL THEN {} ELSE Line(p)
  <2>1. p \in Node \cup {NULL} /\ rest \in SUBSET Node /\ (p # NULL => p \in rest)
    BY DEF Links
  <2>2. ASSUME NEW y \in {x} \cup rest PROVE y \in Line(x)
    <3>1. ASSUME NEW C \in SUBSET Node, x \in C, Upward(above, C) PROVE y \in C
      <4>1. p # NULL => p \in C
        BY <3>1 DEF Upward
      <4> QED BY <2>2, <3>1, <4>1
    <3> QED BY <2>1, <2>2, <3>1
  <2>3. Upward(above, {x} \cup rest)
    <3>1. ASSUME NEW z \in {x} \cup rest, above[z] # NULL PROVE above[z] \in {x} \cup rest
      <4>1. CASE z = x
        BY <2>1, <3>1, <4>1
      <4>2. CASE z # x
        <5>1. p # NULL /\ z \in Line(p) /\ above[z] \in Node
          BY <2>1, <3>1, <4>2 DEF Links
        <5>2. above[z] \in Line(p)
          BY <3>1, <5>1 DEF Upward
        <5> QED BY <5>1, <5>2
      <4> QED BY <4>1, <4>2
    <3> HIDE DEF rest
    <3> QED BY <3>1 DEF Upward
  <2>4. Line(x) \subseteq {x} \cup rest
    <3>1. {x} \cup rest \in SUBSET Node /\ x \in {x} \cup rest
      BY <2>1
    <3> HIDE DEF rest
    <3> QED BY <2>3, <3>1
  <2>5. Line(x) = {x} \cup rest
    <3> HIDE DEF rest, Line
    <3> QED BY <2>2, <2>4
  <2> QED BY <2>5
<1>2. h = Body(h)
  <2>1. \A x \in Node : above[x] = NULL \/ above[x] \in Node
    BY DEF Links
  <2> HIDE DEF Line
  <2> QED BY <1>1, <2>1
<1>3. up = Body(up)
  <2> HIDE DEF Body, h
  <2> QED BY <1>2
<1>4. \A x \in Node : Around(above, x) = up[x]
  BY DEF Around
<1>5. \A x \in Node : up[x] = {x} \cup IF above[x] = NULL THEN {} ELSE up[above[x]]
  <2> HIDE DEF up
  <2> QED BY <1>3
<1> HIDE DEF up
<1>6. above[n] = NULL \/ above[n] \in Node
  BY DEF Links
<1> QED BY <1>4, <1>5, <1>6

\* Without circles it is the least set that is closed upward and holds n.
LEMMA AroundLeast ==
    ASSUME NEW above, Ranked(above), NEW C \in SUBSET Node, Upward(above, C), NEW n \in C
    PROVE  Around(above, n) \subseteq C
<1>1. PICK d : Depths(above, d)
  BY DEF Ranked
<1>2. above \in Links
  BY DEF Ranked
<1> DEFINE B == {m \in C : ~ (Around(above, m) \subseteq C)}
           D == {d[m] : m \in B}
<1>3. SUFFICES ASSUME B # {} PROVE FALSE
  OBVIOUS
<1>4. D \in SUBSET Nat /\ D # {}
  BY <1>1, <1>3 DEF Depths
<1>5. PICK k \in D : \A j \in D : k <= j
  <2> HIDE DEF D
  <2> QED BY <1>4, LeastExists
<1>6. PICK m \in B : k = d[m]
  OBVIOUS
<1>7. m \in Node /\ m \in C
  OBVIOUS
<1>8. Around(above, m) = {m} \cup IF above[m] = NULL THEN {} ELSE Around(above, above[m])
  BY <1>2, <1>7, AroundEquation
<1>9. above[m] # NULL /\ above[m] \in C /\ ~ (Around(above, above[m]) \subseteq C)
  BY <1>6, <1>7, <1>8 DEF Upward
<1>10. above[m] \in B
  BY <1>9
<1>11. d[above[m]] < d[m] /\ d[above[m]] \in Nat /\ d[m] \in Nat
  BY <1>1, <1>7, <1>9 DEF Depths
<1>12. d[above[m]] \in D
  BY <1>10
<1> HIDE DEF D, B
<1> QED BY <1>5, <1>6, <1>11, <1>12

\* It is an order: reflexive, transitive, and two elements are never inside each other.
LEMMA AroundIs ==
    ASSUME NEW above, Ranked(above), NEW n \in Node
    PROVE  /\ n \in Around(above, n) /\ Around(above, n) \in SUBSET Node
           /\ \A m \in Around(above, n) : Around(above, m) \subseteq Around(above, n)
           /\ Upward(above, Around(above, n))
           /\ above[n] = NULL => Around(above, n) = {n}
           /\ above[n] # NULL => /\ above[n] \in Node
                                 /\ Around(above, n) = {n} \cup Around(above, above[n])
                                 /\ n \notin Around(above, above[n])
           /\ \A m \in Around(above, n) : n \in Around(above, m) => m = n
<1>1. PICK d : Depths(above, d)
  BY DEF Ranked
<1>2. above \in Links
  BY DEF Ranked
<1>3. Upward(above, Node)
  BY <1>2 DEF Upward, Links
<1>4. \A m \in Node : Around(above, m) \in SUBSET Node /\ m \in Around(above, m)
  <2> TAKE m \in Node
  <2>1. Around(above, m) \subseteq Node
    BY <1>3, AroundLeast
  <2> QED BY <1>2, <2>1, AroundEquation
<1>5. \A m \in Node : above[m] # NULL => above[m] \in Node
  BY <1>2 DEF Links
<1>6. \A m \in Node : above[m] # NULL =>
         Around(above, m) = {m} \cup Around(above, above[m])
  BY <1>2, AroundEquation
<1>7. \A x \in Node : Upward(above, Around(above, x))
  <2> DEFINE B == {m \in Node : ~ Upward(above, Around(above, m))}
             D == {d[m] : m \in B}
  <2>1. SUFFICES ASSUME B # {} PROVE FALSE
    OBVIOUS
  <2>2. D \in SUBSET Nat /\ D # {}
    BY <1>1, <2>1 DEF Depths
  <2>3. PICK k \in D : \A j \in D : k <= j
    <3> HIDE DEF D
    <3> QED BY <2>2, LeastExists
  <2>4. PICK m \in B : k = d[m]
    OBVIOUS
  <2>5. m \in Node /\ ~ Upward(above, Around(above, m))
    OBVIOUS
  <2>6. above[m] # NULL
    <3>1. above[m] = NULL => Around(above, m) = {m}
      BY <1>2, <2>5, AroundEquation
    <3> QED BY <2>5, <3>1 DEF Upward
  <2>7. ~ Upward(above, Around(above, above[m]))
    <3>1. above[m] \in Around(above, above[m])
      BY <1>4, <1>5, <2>5, <2>6
    <3>2. Around(above, m) = {m} \cup Around(above, above[m])
      BY <1>6, <2>5, <2>6
    <3> QED BY <2>5, <3>1, <3>2 DEF Upward
  <2>8. above[m] \in B /\ d[above[m]] \in D
    BY <1>5, <2>5, <2>6, <2>7
  <2>9. d[above[m]] < d[m] /\ d[above[m]] \in Nat /\ d[m] \in Nat
    BY <1>1, <1>5, <2>5, <2>6 DEF Depths
  <2> HIDE DEF D, B
  <2> QED BY <2>3, <2>4, <2>8, <2>9
<1>8. \A x \in Node : \A m \in Around(above, x) : Around(above, m) \subseteq Around(above, x)
  BY <1>4, <1>7, AroundLeast
<1>9. ASSUME NEW x \in Node, NEW m \in Around(above, x), m # x
      PROVE  d[m] < d[x]
  <2> DEFINE C == {z \in Node : z = x \/ d[z] < d[x]}
  <2>1. Upward(above, C)
    <3>1. ASSUME NEW z \in C, above[z] # NULL PROVE above[z] \in C
      <4>1. z \in Node /\ above[z] \in Node /\ d[above[z]] < d[z]
        BY <1>1, <1>5, <3>1 DEF Depths
      <4>2. d[z] \in Nat /\ d[above[z]] \in Nat /\ d[x] \in Nat
        BY <1>1, <4>1 DEF Depths
      <4> QED BY <3>1, <4>1, <4>2
    <3> HIDE DEF C
    <3> QED BY <3>1 DEF Upward
  <2>2. Around(above, x) \subseteq C
    <3>1. x \in C /\ C \in SUBSET Node
      OBVIOUS
    <3> HIDE DEF C
    <3> QED BY <2>1, <3>1, AroundLeast
  <2> QED BY <1>9, <2>2
<1>10. ASSUME NEW x \in Node, NEW m \in Around(above, x), x \in Around(above, m)
       PROVE  m = x
  <2>1. m \in Node
    BY <1>4
  <2>2. d[m] \in Nat /\ d[x] \in Nat
    BY <1>1, <2>1 DEF Depths
  <2> QED BY <1>9, <1>10, <2>1, <2>2
<1>11. above[n] # NULL => n \notin Around(above, above[n])
  <2>1. SUFFICES ASSUME above[n] # NULL, n \in Around(above, above[n]) PROVE FALSE
    OBVIOUS
  <2>2. above[n] \in Node /\ above[n] \in Around(above, n) /\ d[above[n]] < d[n]
    BY <1>1, <1>4, <1>5, <1>6, <2>1 DEF Depths
  <2>3. above[n] = n
    BY <1>10, <2>1, <2>2
  <2>4. d[n] \in Nat
    BY <1>1 DEF Depths
  <2> QED BY <2>2, <2>3, <2>4
<1>12. above[n] = NULL => Around(above, n) = {n}
  BY <1>2, AroundEquation
<1> QED BY <1>4, <1>5, <1>6, <1>7, <1>8, <1>10, <1>11, <1>12

\* The way from n up to m is the same in other links that differ only elsewhere.
LEMMA PathKept ==
    ASSUME NEW above, Ranked(above), NEW other, Ranked(other),
           NEW n \in Node, NEW m \in Around(above, n),
           \A z \in Around(above, n) : m \in Around(above, z) /\ z # m => other[z] = above[z]
    PROVE  m \in Around(other, n)
<1> DEFINE C == {z \in Around(above, n) : m \in Around(above, z) => z \in Around(other, n)}
<1>1. n \in C
  BY AroundIs
<1>2. ASSUME NEW z \in C, above[z] # NULL PROVE above[z] \in C
  <2> DEFINE w == above[z]
  <2>1. z \in Node /\ w \in Node /\ w \in Around(above, n)
    BY <1>2, AroundIs DEF Upward
  <2>2. ASSUME m \in Around(above, w) PROVE w \in Around(other, n)
    <3>1. m \in Around(above, z) /\ z \notin Around(above, w)
      BY <1>2, <2>1, <2>2, AroundIs
    <3>2. z # m
      BY <2>2, <3>1
    <3>3. other[z] = w /\ z \in Around(other, n) /\ w # NULL
      BY <1>2, <3>1, <3>2
    <3> QED BY <3>3, AroundIs DEF Upward
  <2> QED BY <2>1, <2>2
<1>3. Around(above, n) \subseteq C
  <2>1. C \in SUBSET Node
    BY AroundIs
  <2> HIDE DEF C
  <2>2. Upward(above, C)
    BY <1>2 DEF Upward
  <2> QED BY <1>1, <2>1, <2>2, AroundLeast
<1>4. m \in Node
  BY AroundIs
<1>5. m \in Around(above, m)
  BY <1>4, AroundIs
<1> QED BY <1>3, <1>5

\* Links that differ nowhere on the way up give the same.
LEMMA AroundSame ==
    ASSUME NEW above, Ranked(above), NEW other, Ranked(other), NEW n \in Node,
           \A z \in Around(above, n) : other[z] = above[z]
    PROVE  Around(other, n) = Around(above, n)
<1>1. n \in Around(above, n) /\ Around(above, n) \in SUBSET Node
  BY AroundIs
<1>2. Upward(other, Around(above, n))
  BY AroundIs DEF Upward
<1>3. Around(other, n) \subseteq Around(above, n)
  BY <1>1, <1>2, AroundLeast
<1>4. Around(above, n) \subseteq Around(other, n)
  BY PathKept
<1> QED BY <1>3, <1>4

\* x is put into y, which is not inside x.
LEMMA RankMoved ==
    ASSUME NEW above, Ranked(above), NEW x \in Node, NEW y \in Node,
           x \notin Around(above, y)
    PROVE  Ranked([above EXCEPT ![x] = y])
<1> DEFINE other == [above EXCEPT ![x] = y]
<1>1. PICK d : Depths(above, d)
  BY DEF Ranked
<1>2. above \in Links /\ other \in Links
  BY DEF Ranked, Links
<1> DEFINE e == [n \in Node |-> IF x \in Around(above, n) THEN d[n] + d[y] + 1 ELSE d[n]]
<1>3. d \in [Node -> Nat] /\ e \in [Node -> Nat]
  BY <1>1 DEF Depths
<1>4. ASSUME NEW n \in Node, other[n] # NULL PROVE e[other[n]] < e[n]
  <2>1. CASE n = x
    <3>1. other[n] = y /\ x \in Around(above, n)
      BY <1>2, <2>1, AroundIs DEF Links
    <3>2. e[y] = d[y] /\ e[x] = d[x] + d[y] + 1
      BY <2>1, <3>1
    <3>3. d[x] \in Nat /\ d[y] \in Nat
      BY <1>3
    <3> QED BY <2>1, <3>1, <3>2, <3>3
  <2>2. CASE n # x
    <3>1. other[n] = above[n] /\ above[n] \in Node /\ above[n] # NULL
      BY <1>2, <1>4, <2>2 DEF Links
    <3>2. d[above[n]] < d[n]
      BY <1>1, <3>1 DEF Depths
    <3>3. x \in Around(above, n) <=> x \in Around(above, above[n])
      BY <2>2, <3>1, AroundIs
    <3>4. d[n] \in Nat /\ d[above[n]] \in Nat /\ d[y] \in Nat
      BY <1>3, <3>1
    <3>5. e[n] = IF x \in Around(above, n) THEN d[n] + d[y] + 1 ELSE d[n]
      OBVIOUS
    <3>6. e[above[n]] = IF x \in Around(above, above[n]) THEN d[above[n]] + d[y] + 1
                        ELSE d[above[n]]
      BY <3>1
    <3> HIDE DEF e
    <3> QED BY <3>1, <3>2, <3>3, <3>4, <3>5, <3>6
  <2> QED BY <2>1, <2>2
<1> HIDE DEF e
<1>5. Depths(other, e)
  <2> HIDE DEF other
  <2> QED BY <1>3, <1>4 DEF Depths
<1> HIDE DEF other
<1> QED BY <1>2, <1>5 DEF Ranked, other

\* x comes between y and what is in it.
Between(above, x, y) ==
    [n \in Node |-> IF n = x THEN y ELSE IF above[n] = y THEN x ELSE above[n]]

\* What comes between closes no circle.
LEMMA RankBetween ==
    ASSUME NEW above, Ranked(above), NEW x \in Node, NEW y \in Node, x # y,
           \A n \in Node : above[n] # x
    PROVE  Ranked(Between(above, x, y))
<1> DEFINE other == Between(above, x, y)
<1>1. PICK d : Depths(above, d)
  BY DEF Ranked
<1>2. above \in Links /\ other \in Links
  BY DEF Ranked, Links, Between
<1> DEFINE e == [n \in Node |-> IF n = x THEN 2 * d[y] + 1 ELSE 2 * d[n]]
<1>3. d \in [Node -> Nat] /\ e \in [Node -> Nat]
  BY <1>1 DEF Depths
<1>4. ASSUME NEW n \in Node, other[n] # NULL PROVE e[other[n]] < e[n]
  <2>1. CASE n = x
    <3>1. other[n] = y /\ e[y] = 2 * d[y] /\ e[x] = 2 * d[y] + 1 /\ d[y] \in Nat
      BY <1>3, <2>1 DEF Between
    <3> QED BY <2>1, <3>1
  <2>2. CASE n # x /\ above[n] = y
    <3>1. other[n] = x /\ e[x] = 2 * d[y] + 1 /\ e[n] = 2 * d[n]
      BY <1>3, <2>2 DEF Between
    <3>2. y # NULL
      BY NodeAssumption
    <3>3. d[y] < d[n] /\ d[y] \in Nat /\ d[n] \in Nat
      BY <1>1, <1>3, <2>2, <3>2 DEF Depths
    <3> HIDE DEF e
    <3> QED BY <3>1, <3>3
  <2>3. CASE n # x /\ above[n] # y
    <3>1. other[n] = above[n] /\ above[n] \in Node /\ above[n] # NULL
      BY <1>2, <1>4, <2>3 DEF Between, Links
    <3>2. e[n] = 2 * d[n] /\ e[above[n]] = 2 * d[above[n]]
      BY <2>3, <3>1
    <3>3. d[above[n]] < d[n] /\ d[n] \in Nat /\ d[above[n]] \in Nat
      BY <1>1, <1>3, <3>1 DEF Depths
    <3> HIDE DEF e
    <3> QED BY <3>1, <3>2, <3>3
  <2> QED BY <2>1, <2>2, <2>3
<1> HIDE DEF e
<1>5. Depths(other, e)
  <2> HIDE DEF other
  <2> QED BY <1>3, <1>4 DEF Depths
<1> HIDE DEF other
<1> QED BY <1>2, <1>5 DEF Ranked, other

-----------------------------------------------------------------------------
(* Forgetting elements.                                                    *)

\* Nearest is inside every other element of known that is around n.
LEMMA NearestIs ==
    ASSUME NEW above, Ranked(above), NEW known \in SUBSET Node, NEW n \in Node
    PROVE  LET over == (Around(above, n) \ {n}) \cap known
               m == Nearest(above, known, n)
           IN  IF over = {} THEN m = NULL ELSE m \in over /\ over \subseteq Around(above, m)
<1> DEFINE Over(x) == (Around(above, x) \ {x}) \cap known
           Good(x) == \E m \in Over(x) : Over(x) \subseteq Around(above, m)
           B == {x \in Node : Over(x) # {} /\ ~ Good(x)}
<1>1. PICK d : Depths(above, d)
  BY DEF Ranked
<1> DEFINE D == {d[m] : m \in B}
<1>2. B = {}
  <2>1. SUFFICES ASSUME B # {} PROVE FALSE
    OBVIOUS
  <2>2. D \in SUBSET Nat /\ D # {}
    BY <1>1, <2>1 DEF Depths
  <2>3. PICK k \in D : \A j \in D : k <= j
    <3> HIDE DEF D
    <3> QED BY <2>2, LeastExists
  <2>4. PICK x \in B : k = d[x]
    OBVIOUS
  <2>5. x \in Node /\ Over(x) # {} /\ ~ Good(x)
    OBVIOUS
  <2> DEFINE p == above[x]
  <2>6. /\ p # NULL /\ p \in Node /\ x \notin Around(above, p)
        /\ Around(above, x) = {x} \cup Around(above, p)
    BY <2>5, AroundIs
  <2>7. Over(x) = Around(above, p) \cap known
    BY <2>6
  <2>8. p \in Around(above, p)
    BY <2>6, AroundIs
  <2>9. p \notin known
    <3>1. ASSUME p \in known PROVE Good(x)
      <4>1. p \in Over(x) /\ Over(x) \subseteq Around(above, p)
        BY <2>7, <2>8, <3>1
      <4> HIDE DEF p, Over
      <4> QED BY <4>1
    <3> QED BY <2>5, <3>1
  <2>10. Over(p) = Over(x)
    BY <2>7, <2>9
  <2>11. p \in B
    <3> HIDE DEF Over, p
    <3> QED BY <2>5, <2>6, <2>10
  <2>12. d[p] < d[x] /\ d[p] \in Nat /\ d[x] \in Nat /\ d[p] \in D
    BY <1>1, <2>5, <2>6, <2>11 DEF Depths
  <2> HIDE DEF D, B, p
  <2> QED BY <2>3, <2>4, <2>12
<1>3. Over(n) # {} => Good(n)
  <2> HIDE DEF Over, Good
  <2> QED BY <1>2
<1>4. Nearest(above, known, n) =
        IF Over(n) = {} THEN NULL ELSE CHOOSE m \in Over(n) : Over(n) \subseteq Around(above, m)
  BY DEF Nearest
<1>5. CASE Over(n) = {}
  BY <1>4, <1>5
<1>6. CASE Over(n) # {}
  <2> DEFINE S == Over(n)
  <2>1. \E m \in S : S \subseteq Around(above, m)
    BY <1>3, <1>6
  <2> HIDE DEF S, Over
  <2>2. Nearest(above, known, n) = CHOOSE m \in S : S \subseteq Around(above, m)
    BY <1>4, <1>6 DEF S
  <2>3. Nearest(above, known, n) \in S /\ S \subseteq Around(above, Nearest(above, known, n))
    BY <2>1, <2>2
  <2> QED BY <1>6, <2>3 DEF S, Over
<1> QED BY <1>5, <1>6

\* The links between the elements of known alone.
Joining(above, known) ==
    [n \in Node |-> IF n \in known THEN Nearest(above, known, n) ELSE NULL]

\* The links among the known elements tell the same of them as all links did.
LEMMA JoiningIs ==
    ASSUME NEW above, Ranked(above), NEW known \in SUBSET Node
    PROVE  LET other == Joining(above, known) IN
           /\ Ranked(other)
           /\ \A n \in Node : other[n] # NULL => /\ n \in known /\ other[n] \in known
                                                 /\ other[n] \in Around(above, n) \ {n}
           /\ \A n, m \in known : m \in Around(other, n) <=> m \in Around(above, n)
           /\ \A n, m \in known : m \in Around(above, n) /\ m # n => other[n] # NULL
<1> DEFINE other == Joining(above, known)
           Over(x) == (Around(above, x) \ {x}) \cap known
<1>1. PICK d : Depths(above, d)
  BY DEF Ranked
<1>2. above \in Links
  BY DEF Ranked
<1>3. \A n \in known : IF Over(n) = {} THEN other[n] = NULL
                       ELSE other[n] \in Over(n) /\ Over(n) \subseteq Around(above, other[n])
  <2> TAKE n \in known
  <2>1. n \in Node /\ other[n] = Nearest(above, known, n)
    BY DEF Joining
  <2> DEFINE m == other[n]
             over == (Around(above, n) \ {n}) \cap known
  <2>2. IF over = {} THEN m = NULL ELSE m \in over /\ over \subseteq Around(above, m)
    <3>1. m = Nearest(above, known, n)
      BY <2>1
    <3> HIDE DEF m
    <3> QED BY <2>1, <3>1, NearestIs
  <2> QED BY <2>2
<1>4. \A n \in Node \ known : other[n] = NULL
  BY DEF Joining
<1>5. \A n \in Node : other[n] # NULL => n \in known /\ other[n] \in Over(n)
  BY <1>3, <1>4
<1>6. \A n \in Node : Around(above, n) \in SUBSET Node /\ n \in Around(above, n)
  BY AroundIs
<1>7. other \in Links
  <2>1. \A n \in Node : other[n] \in Node \cup {NULL}
    BY <1>5, <1>6
  <2>2. other = [n \in Node |-> other[n]]
    BY DEF Joining
  <2> HIDE DEF other
  <2> QED BY <2>1, <2>2 DEF Links
<1> HIDE DEF other
<1>8. \A n \in Node : \A m \in Around(above, n) : m # n => d[m] < d[n]
  <2> SUFFICES ASSUME NEW n \in Node, NEW m \in Around(above, n), m # n PROVE d[m] < d[n]
    OBVIOUS
  <2> DEFINE C == {z \in Node : z = n \/ d[z] < d[n]}
  <2>1. Upward(above, C)
    <3>1. ASSUME NEW z \in C, above[z] # NULL PROVE above[z] \in C
      <4>1. z \in Node /\ above[z] \in Node /\ d[above[z]] < d[z]
        BY <1>1, <1>2, <3>1 DEF Depths, Links
      <4>2. d[z] \in Nat /\ d[above[z]] \in Nat /\ d[n] \in Nat
        BY <1>1, <4>1 DEF Depths
      <4> QED BY <3>1, <4>1, <4>2
    <3> HIDE DEF C
    <3> QED BY <3>1 DEF Upward
  <2>2. Around(above, n) \subseteq C
    <3>1. n \in C /\ C \in SUBSET Node
      OBVIOUS
    <3> HIDE DEF C
    <3> QED BY <2>1, <3>1, AroundLeast
  <2> QED BY <2>2
<1>9. Depths(other, d)
  BY <1>1, <1>5, <1>8 DEF Depths
<1>10. Ranked(other)
  BY <1>7, <1>9 DEF Ranked
<1>11. ASSUME NEW n \in known PROVE Around(other, n) \subseteq Around(above, n)
  <2>1. Upward(other, Around(above, n))
    <3>1. ASSUME NEW z \in Around(above, n), other[z] # NULL PROVE other[z] \in Around(above, n)
      <4>1. z \in Node /\ other[z] \in Around(above, z)
        BY <1>5, <1>6, <3>1
      <4> QED BY <3>1, <4>1, AroundIs
    <3> QED BY <3>1 DEF Upward
  <2>2. n \in Node /\ n \in Around(above, n) /\ Around(above, n) \in SUBSET Node
    BY <1>6
  <2> QED BY <1>10, <2>1, <2>2, AroundLeast
<1> DEFINE B(m) == {n \in known : m \in Around(above, n) /\ m \notin Around(other, n)}
<1>12. ASSUME NEW m \in known PROVE B(m) = {}
  <2> DEFINE S == B(m)
             D == {d[n] : n \in S}
  <2>1. SUFFICES ASSUME S # {} PROVE FALSE
    OBVIOUS
  <2>2. D \in SUBSET Nat /\ D # {}
    BY <1>1, <2>1 DEF Depths
  <2>3. PICK k \in D : \A j \in D : k <= j
    <3> HIDE DEF D
    <3> QED BY <2>2, LeastExists
  <2>4. PICK n \in S : k = d[n]
    OBVIOUS
  <2>5. n \in known /\ n \in Node /\ m \in Around(above, n) /\ m \notin Around(other, n)
    OBVIOUS
  <2>6. m # n
    BY <1>10, <2>5, AroundIs
  <2>7. other[n] # NULL /\ other[n] \in Over(n) /\ m \in Around(above, other[n])
    <3>1. m \in Over(n)
      BY <2>5, <2>6
    <3> HIDE DEF Over
    <3>2. other[n] \in Over(n) /\ Over(n) \subseteq Around(above, other[n])
      BY <1>3, <2>5, <3>1
    <3>3. other[n] \in Node
      BY <1>6, <2>5, <3>2 DEF Over
    <3> QED BY <3>1, <3>2, <3>3, NodeAssumption
  <2>8. other[n] \in known /\ other[n] \in Around(above, n) /\ other[n] # n /\ other[n] \in Node
    BY <1>6, <2>5, <2>7
  <2>9. m \notin Around(other, other[n])
    <3>1. Around(other, n) = {n} \cup Around(other, other[n])
      BY <1>10, <2>5, <2>7, AroundIs
    <3> QED BY <2>5, <3>1
  <2>10. other[n] \in S
    BY <2>7, <2>8, <2>9
  <2>11. d[other[n]] \in D /\ d[other[n]] < d[n]
    BY <1>8, <2>5, <2>8, <2>10
  <2>12. d[n] \in Nat /\ d[other[n]] \in Nat
    BY <1>1, <2>5, <2>8 DEF Depths
  <2> HIDE DEF D, S
  <2> QED BY <2>3, <2>4, <2>11, <2>12
<1>13. \A n, m \in known : m \in Around(other, n) <=> m \in Around(above, n)
  BY <1>11, <1>12
<1>14. \A n, m \in known : m \in Around(above, n) /\ m # n => other[n] # NULL
  <2> SUFFICES ASSUME NEW n \in known, NEW m \in known, m \in Around(above, n), m # n
               PROVE  other[n] # NULL
    OBVIOUS
  <2>1. other[n] \in Over(n)
    BY <1>3
  <2>2. other[n] \in Node
    BY <2>1
  <2> QED BY <2>2, NodeAssumption
<1> QED BY <1>5, <1>10, <1>13, <1>14 DEF other

-----------------------------------------------------------------------------
(* What is right about a tree while a handler works on it.                 *)

\* The four fields of tree.
Trees == [open: Seq(Node), active: Seq(Node \cup {Marker}),
          tag: [Node -> Tag \cup {NULL}], above: Links]

\* Only elements that are there are in something, and in one that is there.
Joined(tag, above) ==
    /\ tag \in [Node -> Tag \cup {NULL}] /\ Ranked(above)
    /\ \A n \in Node : above[n] # NULL => tag[n] # NULL /\ tag[above[n]] # NULL

\* The stack: html is the lowest, nothing is there twice, there is one table at
\* most, and what is on top of that one is not around it.
Stacked(open, tag, above) ==
    /\ open \in Seq(Node) /\ Len(open) >= 1 /\ tag[open[1]] = "html"
    /\ \A i \in 1 .. Len(open) : tag[open[i]] \in Tag
    /\ \A i, j \in 1 .. Len(open) : open[i] = open[j] => i = j
    /\ \A i, j \in 1 .. Len(open) :
          tag[open[i]] = "table" /\ tag[open[j]] = "table" => i = j
    /\ \A i, j \in 1 .. Len(open) :
          i < j /\ tag[open[i]] = "table" => open[j] \notin Around(above, open[i])

\* y is inside x or, if x is a table, inside what the table is in.
Inside(tag, above, x, y) ==
    \/ x \in Around(above, y)
    \/ tag[x] = "table" /\ above[x] \in Around(above, y)

Nested(open, tag, above) ==
    \A i, j \in 1 .. Len(open) : i < j => Inside(tag, above, open[i], open[j])

\* Only formatting elements are entries, each once, and none without a tag.
Listed(active, tag) ==
    /\ active \in Seq(Node \cup {Marker})
    /\ \A i \in 1 .. Len(active) : active[i] # Marker => tag[active[i]] \in AnyFormatting
    /\ \A i, j \in 1 .. Len(active) : active[i] = active[j] /\ active[i] # Marker => i = j

\* Nested says it of any two places of the stack, not only of neighbours.
Good(t) ==
    /\ t \in Trees
    /\ Joined(t.tag, t.above)
    /\ Stacked(t.open, t.tag, t.above)
    /\ Nested(t.open, t.tag, t.above)
    /\ Listed(t.active, t.tag)

\* What Fresh may choose from.
Free(t) == {n \in Node : t.tag[n] = NULL}

NoTable(t) == \A i \in 1 .. Len(t.open) : t.tag[t.open[i]] # "table"

\* The sets of tags, and that no tag is two things that the handlers tell apart.
LEMMA TagsAre ==
    /\ "html" \in Tag /\ "html" # "table" /\ "html" \notin AnyFormatting
    /\ "table" \in Tag /\ "table" \notin AnyFormatting
    /\ \A g \in Tag : g # NULL
    /\ \A g \in AnyFormatting : g \in Tag /\ g \notin Special /\ g \notin Scope
    /\ Special \subseteq Tag /\ Scope \subseteq Special
    /\ "html" \in Special /\ "table" \in Special /\ "table" \in Scope
  BY NullIsNoTag DEF Tag, AnyFormatting, FormattingTag, Special, Scope, BlockTag, PlainTag

\* What is around an element that is there, is there.
LEMMA AroundTagged ==
    ASSUME NEW tag, NEW above, Joined(tag, above), NEW n \in Node, tag[n] # NULL
    PROVE  \A m \in Around(above, n) : m \in Node /\ tag[m] # NULL
<1> DEFINE C == {m \in Node : tag[m] # NULL}
<1>1. Ranked(above) /\ above \in Links
  BY DEF Joined, Ranked
<1>2. Upward(above, C)
  <2>1. ASSUME NEW m \in C, above[m] # NULL PROVE above[m] \in C
    BY <1>1, <2>1 DEF Joined, Links
  <2> HIDE DEF C
  <2> QED BY <2>1 DEF Upward
<1>3. n \in C /\ C \in SUBSET Node
  OBVIOUS
<1> HIDE DEF C
<1>4. Around(above, n) \subseteq C
  BY <1>1, <1>2, <1>3, AroundLeast
<1> QED BY <1>4 DEF C

\* A stack whose places are, in the same order, places of an older one, but for
\* one that holds a new element n.  h[i] is the older place, 0 that of n.
Renewed(q, open, h, n) ==
    /\ q \in Seq(Node) /\ Len(q) >= 1 /\ h \in [1 .. Len(q) -> 0 .. Len(open)] /\ h[1] = 1
    /\ \A i \in 1 .. Len(q) : q[i] = IF h[i] = 0 THEN n ELSE open[h[i]]
    /\ \A i, j \in 1 .. Len(q) : i < j /\ h[i] # 0 /\ h[j] # 0 => h[i] < h[j]
    /\ \A i, j \in 1 .. Len(q) : h[i] = 0 /\ h[j] = 0 => i = j

\* Such a stack is as good as the older one if the tables are where they were.
LEMMA StackedRenewed ==
    ASSUME NEW open, NEW tag, NEW above, Stacked(open, tag, above),
           NEW q, NEW tags, NEW links, NEW h, NEW n, Renewed(q, open, h, n),
           \A i \in 1 .. Len(open) :
               /\ tags[open[i]] = tag[open[i]]
               /\ tag[open[i]] = "table" => Around(links, open[i]) = Around(above, open[i]),
           \A i \in 1 .. Len(q) : h[i] = 0 =>
               /\ \A j \in 1 .. Len(open) :
                     /\ open[j] # n
                     /\ tag[open[j]] = "table" => n \notin Around(above, open[j])
               /\ tags[n] \in Tag
               /\ tags[n] = "table" => /\ i = Len(q)
                                       /\ \A j \in 1 .. Len(open) : tag[open[j]] # "table"
    PROVE  Stacked(q, tags, links)
<1>1. /\ Len(open) \in Nat /\ Len(q) \in Nat /\ open \in Seq(Node) /\ Len(open) >= 1
      /\ tag[open[1]] = "html"
      /\ \A i \in 1 .. Len(open) : tag[open[i]] \in Tag
      /\ \A i, j \in 1 .. Len(open) : open[i] = open[j] => i = j
      /\ \A i, j \in 1 .. Len(open) : tag[open[i]] = "table" /\ tag[open[j]] = "table" => i = j
      /\ \A i, j \in 1 .. Len(open) :
            i < j /\ tag[open[i]] = "table" => open[j] \notin Around(above, open[i])
  BY LenProperties DEF Stacked, Renewed
<1>2. /\ q \in Seq(Node) /\ Len(q) >= 1 /\ h[1] = 1
      /\ \A i \in 1 .. Len(q) : h[i] = 0 \/ h[i] \in 1 .. Len(open)
      /\ \A i \in 1 .. Len(q) : h[i] = 0 => q[i] = n
      /\ \A i \in 1 .. Len(q) : h[i] # 0 => q[i] = open[h[i]]
      /\ \A i, j \in 1 .. Len(q) : i < j /\ h[i] # 0 /\ h[j] # 0 => h[i] < h[j]
      /\ \A i, j \in 1 .. Len(q) : h[i] = 0 /\ h[j] = 0 => i = j
  <2>1. h \in [1 .. Len(q) -> 0 .. Len(open)] /\ Len(open) \in Nat
    BY <1>1 DEF Renewed
  <2>2. \A i \in 1 .. Len(q) : h[i] = 0 \/ h[i] \in 1 .. Len(open)
    BY <2>1
  <2> QED BY <2>2 DEF Renewed
<1>3. \A i, j \in 1 .. Len(q) : h[i] = h[j] => i = j
  <2> SUFFICES ASSUME NEW i \in 1 .. Len(q), NEW j \in 1 .. Len(q), h[i] = h[j], i # j
               PROVE  FALSE
    OBVIOUS
  <2>1. h[i] # 0 /\ h[j] # 0
    BY <1>2
  <2>2. i < j \/ j < i
    BY <1>1
  <2>3. h[i] \in Nat /\ h[j] \in Nat
    BY <1>1, <1>2
  <2> QED BY <1>2, <2>1, <2>2, <2>3
<1>4. tags[q[1]] = "html"
  <2>1. 1 \in 1 .. Len(q) /\ 1 \in 1 .. Len(open) /\ 1 # 0
    BY <1>1, <1>2
  <2> QED BY <1>1, <1>2, <2>1
<1>5. \A i \in 1 .. Len(q) : tags[q[i]] \in Tag
  BY <1>1, <1>2
<1>6. \A i, j \in 1 .. Len(q) : q[i] = q[j] => i = j
  BY <1>1, <1>2, <1>3
<1>7. \A i, j \in 1 .. Len(q) : tags[q[i]] = "table" /\ tags[q[j]] = "table" => i = j
  <2> SUFFICES ASSUME NEW i \in 1 .. Len(q), NEW j \in 1 .. Len(q),
                      tags[q[i]] = "table", tags[q[j]] = "table"
               PROVE  h[i] = h[j]
    BY <1>3
  <2>1. \A k \in 1 .. Len(q) : h[k] # 0 => /\ tags[q[k]] = tag[open[h[k]]]
                                            /\ h[k] \in 1 .. Len(open)
    BY <1>2
  <2>2. CASE h[i] = 0 \/ h[j] = 0
    <3>1. \A k \in 1 .. Len(open) : tag[open[k]] # "table"
      BY <1>2, <2>2
    <3> QED BY <2>1, <2>2, <3>1
  <2>3. CASE h[i] # 0 /\ h[j] # 0
    BY <1>1, <2>1, <2>3
  <2> QED BY <2>2, <2>3
<1>8. ASSUME NEW i \in 1 .. Len(q), NEW j \in 1 .. Len(q), i < j, tags[q[i]] = "table"
      PROVE  q[j] \notin Around(links, q[i])
  <2>1. h[i] # 0
    <3>1. i # Len(q)
      BY <1>1, <1>8
    <3> QED BY <1>2, <1>8, <3>1
  <2>2. q[i] = open[h[i]] /\ h[i] \in 1 .. Len(open) /\ tag[q[i]] = "table"
        /\ Around(links, q[i]) = Around(above, q[i])
    <3>1. q[i] = open[h[i]] /\ h[i] \in 1 .. Len(open)
      BY <1>2, <2>1
    <3> QED BY <1>8, <3>1
  <2>3. CASE h[j] = 0
    BY <1>2, <2>2, <2>3
  <2>4. CASE h[j] # 0
    <3>1. h[i] < h[j] /\ h[j] \in 1 .. Len(open) /\ q[j] = open[h[j]]
      BY <1>2, <1>8, <2>1, <2>4
    <3>2. tag[open[h[i]]] = "table"
      BY <1>8, <2>2
    <3>3. open[h[j]] \notin Around(above, open[h[i]])
      BY <1>1, <2>2, <3>1, <3>2
    <3> QED BY <2>2, <3>1, <3>3
  <2> QED BY <2>3, <2>4
<1> QED BY <1>2, <1>4, <1>5, <1>6, <1>7, <1>8 DEF Stacked

\* Taking elements off the stack.
LEMMA StackedThinned ==
    ASSUME NEW open, NEW tag, NEW above, Stacked(open, tag, above), Nested(open, tag, above),
           NEW q, NEW h, Renewed(q, open, h, NULL),
           \A i \in 1 .. Len(q) : h[i] # 0
    PROVE  Stacked(q, tag, above) /\ Nested(q, tag, above)
<1>1. open \in Seq(Node) /\ Len(open) \in Nat /\ \A i \in 1 .. Len(open) : open[i] \in Node
  BY LenProperties, ElementOfSeq DEF Stacked
<1>2. q \in Seq(Node) /\ Len(q) \in Nat /\ \A i \in 1 .. Len(q) : q[i] \in Node
  BY LenProperties, ElementOfSeq DEF Renewed
<1>3. Stacked(q, tag, above)
  BY StackedRenewed
<1>4. ASSUME NEW i \in 1 .. Len(q), NEW j \in 1 .. Len(q), i < j
      PROVE  Inside(tag, above, q[i], q[j])
  <2>1. /\ q[i] = open[h[i]] /\ q[j] = open[h[j]] /\ h[i] < h[j]
        /\ h[i] \in 1 .. Len(open) /\ h[j] \in 1 .. Len(open)
    <3>1. h[i] \in 0 .. Len(open) /\ h[j] \in 0 .. Len(open) /\ h[i] # 0 /\ h[j] # 0
      BY DEF Renewed
    <3>2. q[i] = open[h[i]] /\ q[j] = open[h[j]] /\ h[i] < h[j]
      BY <1>4, <3>1 DEF Renewed
    <3> QED BY <1>1, <3>1, <3>2
  <2> QED BY <2>1 DEF Nested
<1> QED BY <1>3, <1>4 DEF Nested

\* It is enough to look at what is next on the stack.
LEMMA NestedChain ==
    ASSUME NEW open, NEW tag, NEW above, Ranked(above), Stacked(open, tag, above),
           NEW m \in 1 .. Len(open),
           \A i, j \in 1 .. m : i < j => Inside(tag, above, open[i], open[j]),
           NEW y \in Node, Inside(tag, above, open[m], y),
           NEW k \in 1 .. m
    PROVE  Inside(tag, above, open[k], y)
<1>1. open \in Seq(Node) /\ Len(open) \in Nat /\ \A i \in 1 .. Len(open) : open[i] \in Node
  BY LenProperties, ElementOfSeq DEF Stacked
<1>2. CASE k = m
  BY <1>2
<1>3. CASE k # m
  <2> DEFINE a == open[k]
             b == open[m]
  <2>1. k < m /\ k \in 1 .. Len(open) /\ a \in Node /\ b \in Node /\ a # b
    <3>1. k < m /\ k \in 1 .. Len(open)
      BY <1>1, <1>3
    <3>2. open[k] # open[m]
      BY <1>3, <3>1 DEF Stacked
    <3> QED BY <1>1, <3>1, <3>2
  <2>2. Inside(tag, above, a, b)
    BY <1>1, <2>1
  <2>3. ~ (tag[a] = "table" /\ tag[b] = "table")
    BY <1>3, <2>1 DEF Stacked
  <2>4. above[b] # NULL => /\ above[b] \in Node
                           /\ Around(above, b) = {b} \cup Around(above, above[b])
    BY <2>1, AroundIs
  <2>5. above[b] = NULL => Around(above, b) = {b}
    BY <2>1, AroundIs
  <2>6. Around(above, y) \in SUBSET Node
        /\ \A z \in Around(above, y) : Around(above, z) \subseteq Around(above, y)
    BY AroundIs
  <2> HIDE DEF a, b
  <2>7. CASE b \in Around(above, y)
    <3>1. Around(above, b) \subseteq Around(above, y)
      BY <2>6, <2>7
    <3> QED BY <2>2, <3>1 DEF Inside, a
  <2>8. CASE tag[b] = "table" /\ above[b] \in Around(above, y)
    <3>1. tag[a] # "table" /\ above[b] # NULL
      BY <2>3, <2>6, <2>8, NodeAssumption
    <3>2. a \in Around(above, above[b])
      BY <2>1, <2>2, <2>4, <3>1 DEF Inside
    <3>3. a \in Around(above, y)
      BY <2>6, <2>8, <3>2
    <3> QED BY <3>3 DEF Inside, a
  <2> QED BY <2>7, <2>8 DEF Inside, b
<1> QED BY <1>2, <1>3

\* Where AppropriatePlace puts what is meant for the element at place k.
LEMMA PlaceIs ==
    ASSUME NEW t, t \in Trees, Joined(t.tag, t.above), Stacked(t.open, t.tag, t.above),
           NEW k \in 1 .. Len(t.open),
           \A i \in 1 .. k - 1 : Inside(t.tag, t.above, t.open[i], t.open[k])
    PROVE  LET x == t.open[k]
               y == AppropriatePlace(t, x)
           IN  /\ y \in Node /\ t.tag[y] # NULL /\ y \in Around(t.above, x)
               /\ y = x \/ (t.tag[x] = "table" /\ y = t.above[x])
               /\ \A i \in 1 .. k : Inside(t.tag, t.above, t.open[i], t.open[k])
               /\ \A i \in 1 .. k : \/ t.open[i] \in Around(t.above, y)
                                    \/ /\ t.tag[t.open[i]] = "table"
                                       /\ t.above[t.open[i]] \in Around(t.above, y)
<1> DEFINE x == t.open[k]
           y == AppropriatePlace(t, x)
           T == {j \in DOMAIN t.open : t.tag[t.open[j]] = "table"} \cup {0}
<1>1. /\ t.open \in Seq(Node) /\ Len(t.open) \in Nat /\ DOMAIN t.open = 1 .. Len(t.open)
      /\ \A i \in 1 .. Len(t.open) : t.open[i] \in Node /\ t.tag[t.open[i]] # NULL
      /\ Ranked(t.above)
  BY LenProperties, ElementOfSeq, TagsAre DEF Stacked, Joined
<1>2. x \in Around(t.above, x)
  BY <1>1, AroundIs
<1>3. Inside(t.tag, t.above, x, x)
  BY <1>2 DEF Inside
<1>4. \A i \in 1 .. k : Inside(t.tag, t.above, t.open[i], x)
  <2>1. \A i \in 1 .. k : i = k \/ i \in 1 .. k - 1
    BY <1>1
  <2> QED BY <1>3, <2>1
<1>5. CASE ~ (FosterParenting /\ t.tag[x] = "table")
  <2>1. y = x
    BY <1>5 DEF AppropriatePlace
  <2> QED BY <1>1, <1>2, <1>4, <2>1 DEF Inside
<1>6. CASE FosterParenting /\ t.tag[x] = "table"
  <2>1. T = {0, k}
    <3>1. \A j \in 1 .. Len(t.open) : t.tag[t.open[j]] = "table" <=> j = k
      BY <1>6 DEF Stacked
    <3> QED BY <1>1, <3>1
  <2>2. Max(T) = k
    <3>1. T \in SUBSET (0 .. Len(t.open)) /\ T # {}
      BY <1>1, <2>1
    <3> HIDE DEF T
    <3>2. Max(T) \in T /\ \A j \in T : j <= Max(T)
      BY <1>1, <3>1, MaxIs
    <3>3. k \in T /\ (Max(T) = 0 \/ Max(T) = k)
      BY <2>1, <3>2
    <3> QED BY <3>2, <3>3
  <2>3. k # 1
    BY <1>6, TagsAre DEF Stacked
  <2>4. k - 1 \in 1 .. Len(t.open) /\ k - 1 < k /\ k - 1 \in 1 .. k - 1
    BY <1>1, <2>3
  <2> DEFINE b == t.open[k - 1]
  <2>5. Inside(t.tag, t.above, b, x) /\ b # x /\ t.tag[b] # "table"
    <3>1. b # x
      BY <1>1, <2>4 DEF Stacked
    <3>2. t.tag[b] # "table"
      BY <1>1, <1>6, <2>4 DEF Stacked
    <3> QED BY <2>4, <3>1, <3>2
  <2>6. t.above[x] # NULL
    <3>1. t.above[x] = NULL => Around(t.above, x) = {x}
      BY <1>1, AroundIs
    <3>2. b \in Around(t.above, x)
      BY <2>5 DEF Inside
    <3> HIDE DEF b
    <3> QED BY <2>5, <3>1, <3>2
  <2>7. y = t.above[x]
    <3>1. k # 0
      BY <1>1
    <3> HIDE DEF T
    <3>2. y = IF k = 0 THEN t.open[1]
              ELSE IF t.above[t.open[k]] # NULL THEN t.above[t.open[k]] ELSE t.open[k - 1]
      BY <1>6, <2>2 DEF AppropriatePlace, T
    <3> QED BY <2>6, <3>1, <3>2
  <2>8. /\ y \in Node /\ Around(t.above, x) = {x} \cup Around(t.above, y)
        /\ y \in Around(t.above, y) /\ t.tag[y] # NULL
    <3>1. t.above[x] \in Node /\ Around(t.above, x) = {x} \cup Around(t.above, t.above[x])
      BY <1>1, <2>6, AroundIs
    <3>2. t.above[x] \in Around(t.above, t.above[x])
      BY <1>1, <3>1, AroundIs
    <3>3. t.tag[t.above[x]] # NULL
      BY <1>1, <2>6 DEF Joined
    <3> QED BY <2>7, <3>1, <3>2, <3>3
  <2>9. ASSUME NEW i \in 1 .. k
        PROVE  \/ t.open[i] \in Around(t.above, y)
               \/ t.tag[t.open[i]] = "table" /\ t.above[t.open[i]] \in Around(t.above, y)
    <3>1. CASE i = k
      BY <1>6, <2>7, <2>8, <3>1
    <3>2. CASE i # k
      <4>1. i \in 1 .. k - 1 /\ i \in 1 .. Len(t.open) /\ i < k
        BY <1>1, <3>2
      <4>2. t.tag[t.open[i]] # "table" /\ t.open[i] # x
        BY <1>6, <3>2, <4>1 DEF Stacked
      <4>3. t.open[i] \in Around(t.above, x)
        BY <4>1, <4>2 DEF Inside
      <4> QED BY <2>8, <4>2, <4>3
    <3> QED BY <3>1, <3>2
  <2> HIDE DEF y, x
  <2> QED BY <1>4, <1>6, <2>7, <2>8, <2>9 DEF y, x
<1> QED BY <1>5, <1>6

-----------------------------------------------------------------------------
(* The list of active formatting elements, as StackedRenewed has the stack. *)

Relisted(q, active, h, n) ==
    /\ q \in Seq(Node \cup {Marker}) /\ h \in [1 .. Len(q) -> 0 .. Len(active)]
    /\ \A i \in 1 .. Len(q) : q[i] = IF h[i] = 0 THEN n ELSE active[h[i]]
    /\ \A i, j \in 1 .. Len(q) : h[i] = h[j] => i = j

\* A list whose places are places of an older one, but for one with a new element.
LEMMA ListedRenewed ==
    ASSUME NEW active, NEW tag, Listed(active, tag),
           NEW q, NEW tags, NEW h, NEW n, Relisted(q, active, h, n),
           \A i \in 1 .. Len(active) : active[i] # Marker => tags[active[i]] = tag[active[i]],
           \A i \in 1 .. Len(q) : h[i] = 0 /\ n # Marker =>
               tags[n] \in AnyFormatting /\ \A j \in 1 .. Len(active) : active[j] # n
    PROVE  Listed(q, tags)
<1>1. Len(active) \in Nat /\ Len(q) \in Nat
  BY LenProperties DEF Listed, Relisted
<1>2. /\ \A i \in 1 .. Len(q) : h[i] = 0 \/ h[i] \in 1 .. Len(active)
      /\ \A i \in 1 .. Len(q) : h[i] = 0 => q[i] = n
      /\ \A i \in 1 .. Len(q) : h[i] # 0 => q[i] = active[h[i]]
      /\ \A i, j \in 1 .. Len(q) : h[i] = h[j] => i = j
  BY <1>1 DEF Relisted
<1>3. ASSUME NEW i \in 1 .. Len(q), q[i] # Marker PROVE tags[q[i]] \in AnyFormatting
  <2>1. CASE h[i] = 0
    BY <1>2, <1>3, <2>1
  <2>2. CASE h[i] # 0
    <3>1. h[i] \in 1 .. Len(active) /\ q[i] = active[h[i]]
      BY <1>2, <2>2
    <3>2. tag[active[h[i]]] \in AnyFormatting
      BY <1>3, <3>1 DEF Listed
    <3> QED BY <1>3, <3>1, <3>2
  <2> QED BY <2>1, <2>2
<1>4. ASSUME NEW i \in 1 .. Len(q), NEW j \in 1 .. Len(q), q[i] = q[j], q[i] # Marker
      PROVE  i = j
  <2>1. CASE h[i] = 0 /\ h[j] = 0
    BY <1>2, <2>1
  <2>2. CASE h[i] = 0 /\ h[j] # 0
    BY <1>2, <1>4, <2>2
  <2>3. CASE h[i] # 0 /\ h[j] = 0
    BY <1>2, <1>4, <2>3
  <2>4. CASE h[i] # 0 /\ h[j] # 0
    BY <1>2, <1>4, <2>4 DEF Listed
  <2> QED BY <2>1, <2>2, <2>3, <2>4
<1> QED BY <1>3, <1>4 DEF Listed, Relisted

\* The list does not care for tags of other elements.
LEMMA ListedSame ==
    ASSUME NEW active, NEW tag, Listed(active, tag), NEW tags,
           \A i \in 1 .. Len(active) : active[i] # Marker => tags[active[i]] = tag[active[i]]
    PROVE  Listed(active, tags)
  BY DEF Listed

\* An entry leaves.
LEMMA ListedShortened ==
    ASSUME NEW active, NEW tag, Listed(active, tag), NEW k \in 1 .. Len(active),
           NEW q \in Seq(Node \cup {Marker}), Shortened(q, active, k)
    PROVE  Listed(q, tag)
<1> DEFINE h == [i \in 1 .. Len(q) |-> IF i < k THEN i ELSE i + 1]
<1>1. Len(active) \in Nat /\ Len(q) \in Nat /\ Len(q) = Len(active) - 1 /\ k \in Int
  BY LenProperties DEF Listed, Shortened
<1>2. \A i \in 1 .. Len(q) : h[i] \in 1 .. Len(active) /\ h[i] # 0
  BY <1>1
<1>3. \A i \in 1 .. Len(q) : q[i] = active[h[i]]
  BY <1>1 DEF Shortened
<1>4. \A i, j \in 1 .. Len(q) : h[i] = h[j] => i = j
  BY <1>1
<1>5. h \in [1 .. Len(q) -> 0 .. Len(active)]
  BY <1>2
<1> HIDE DEF h
<1>6. Relisted(q, active, h, Marker)
  BY <1>2, <1>3, <1>4, <1>5 DEF Relisted
<1> QED BY <1>2, <1>6, ListedRenewed

\* Taking an entry off.
LEMMA ListedRemoved ==
    ASSUME NEW active, NEW tag, Listed(active, tag), NEW x
    PROVE  /\ Listed(RemoveByNode(active, x), tag)
           /\ Len(RemoveByNode(active, x)) <= Len(active)
<1>1. active \in Seq(Node \cup {Marker}) /\ Len(active) \in Nat
  BY LenProperties DEF Listed
<1>2. RemoveByNode(active, x) \in Seq(Node \cup {Marker})
  BY <1>1, RemoveByNodeIs
<1>3. CASE LastAt(active, x) = 0
  <2>1. RemoveByNode(active, x) = active
    BY <1>1, <1>3, RemoveByNodeIs
  <2> QED BY <1>1, <2>1
<1>4. CASE LastAt(active, x) # 0
  <2>1. LastAt(active, x) \in 1 .. Len(active)
    <3>1. LastAt(active, x) \in 0 .. Len(active)
      BY <1>1, LastAtIs
    <3> QED BY <1>1, <1>4, <3>1
  <2>2. Shortened(RemoveByNode(active, x), active, LastAt(active, x))
    BY <1>1, <1>4, RemoveByNodeIs
  <2>3. Len(RemoveByNode(active, x)) <= Len(active)
    BY <1>1, <2>2 DEF Shortened
  <2> QED BY <1>2, <2>1, <2>2, <2>3, ListedShortened
<1> QED BY <1>3, <1>4

\* n, which is no entry yet, is put at place k.
LEMMA ListedLengthened ==
    ASSUME NEW active, NEW tag, Listed(active, tag), NEW k \in 1 .. Len(active) + 1,
           NEW n \in Node \cup {Marker},
           n # Marker => /\ tag[n] \in AnyFormatting
                         /\ \A i \in 1 .. Len(active) : active[i] # n,
           NEW q \in Seq(Node \cup {Marker}), Lengthened(q, active, k, n)
    PROVE  Listed(q, tag)
<1> DEFINE h == [i \in 1 .. Len(q) |-> IF i < k THEN i ELSE IF i = k THEN 0 ELSE i - 1]
<1>1. Len(active) \in Nat /\ Len(q) \in Nat /\ Len(q) = Len(active) + 1 /\ k \in Int /\ k >= 1
  BY LenProperties DEF Listed, Lengthened
<1>2. \A i \in 1 .. Len(q) : h[i] \in 0 .. Len(active)
  BY <1>1
<1>3. \A i \in 1 .. Len(q) : q[i] = IF h[i] = 0 THEN n ELSE active[h[i]]
  <2> TAKE i \in 1 .. Len(q)
  <2>1. q[i] = IF i < k THEN active[i] ELSE IF i = k THEN n ELSE active[i - 1]
    BY <1>1 DEF Lengthened
  <2>2. i < k => h[i] = i /\ h[i] # 0
    BY <1>1
  <2>3. i = k => h[i] = 0 /\ ~ (i < k)
    BY <1>1
  <2>4. ~ (i < k) /\ i # k => h[i] = i - 1 /\ h[i] # 0
    BY <1>1
  <2> HIDE DEF h
  <2> QED BY <2>1, <2>2, <2>3, <2>4
<1>4. \A i, j \in 1 .. Len(q) : h[i] = h[j] => i = j
  BY <1>1
<1>5. h \in [1 .. Len(q) -> 0 .. Len(active)]
  BY <1>2
<1> HIDE DEF h
<1>6. Relisted(q, active, h, n)
  BY <1>3, <1>4, <1>5 DEF Relisted
<1> QED BY <1>6, ListedRenewed

\* Putting a new element or a marker behind the others.
LEMMA ListedAppended ==
    ASSUME NEW active, NEW tag, Listed(active, tag), NEW n \in Node \cup {Marker},
           n # Marker => /\ tag[n] \in AnyFormatting
                         /\ \A i \in 1 .. Len(active) : active[i] # n
    PROVE  Listed(Append(active, n), tag)
<1>1. active \in Seq(Node \cup {Marker}) /\ Len(active) \in Nat
  BY LenProperties DEF Listed
<1>2. /\ Append(active, n) \in Seq(Node \cup {Marker})
      /\ Len(Append(active, n)) = Len(active) + 1
      /\ \A i \in 1 .. Len(active) : Append(active, n)[i] = active[i]
      /\ Append(active, n)[Len(active) + 1] = n
  BY <1>1
<1>3. Lengthened(Append(active, n), active, Len(active) + 1, n)
  BY <1>1, <1>2 DEF Lengthened
<1>4. Len(active) + 1 \in 1 .. Len(active) + 1
  BY <1>1
<1> HIDE DEF Lengthened
<1> QED BY <1>2, <1>3, <1>4, ListedLengthened

\* An entry is replaced by n, which is none.
LEMMA ListedReplaced ==
    ASSUME NEW active, NEW tag, Listed(active, tag), NEW k \in 1 .. Len(active),
           NEW n \in Node, NEW tags, tags[n] \in AnyFormatting,
           \A i \in 1 .. Len(active) : active[i] # n,
           \A i \in 1 .. Len(active) : active[i] # Marker => tags[active[i]] = tag[active[i]]
    PROVE  Listed([active EXCEPT ![k] = n], tags) /\ Len([active EXCEPT ![k] = n]) = Len(active)
<1> DEFINE q == [active EXCEPT ![k] = n]
           h == [i \in 1 .. Len(active) |-> IF i = k THEN 0 ELSE i]
<1>1. /\ active \in Seq(Node \cup {Marker}) /\ Len(active) \in Nat
      /\ n \in Node \cup {Marker}
  BY LenProperties DEF Listed
<1>2. /\ q \in Seq(Node \cup {Marker}) /\ Len(q) = Len(active)
      /\ \A i \in 1 .. Len(active) : q[i] = IF i = k THEN n ELSE active[i]
  BY <1>1, ExceptSeq
<1>3. \A i \in 1 .. Len(active) : q[i] = IF h[i] = 0 THEN n ELSE active[h[i]]
  BY <1>1, <1>2
<1>4. \A i, j \in 1 .. Len(active) : h[i] = h[j] => i = j
  BY <1>1
<1>5. h \in [1 .. Len(active) -> 0 .. Len(active)]
  BY <1>1
<1> HIDE DEF h, q
<1>6. Relisted(q, active, h, n)
  BY <1>2, <1>3, <1>4, <1>5 DEF Relisted
<1> QED BY <1>2, <1>6, ListedRenewed DEF q

-----------------------------------------------------------------------------
(* Opening an element.                                                     *)

\* As long as an element is free, Fresh returns one.
LEMMA FreshIs ==
    ASSUME NEW t, Free(t) # {}
    PROVE  Fresh(t) \in Node /\ t.tag[Fresh(t)] = NULL /\ Fresh(t) \in Free(t)
  BY DEF Free, Fresh

\* n, which is new, is put into y; nothing else changes for the others.
LEMMA FreshJoined ==
    ASSUME NEW tag, NEW above, Joined(tag, above), NEW n \in Node, tag[n] = NULL,
           NEW y \in Node, tag[y] # NULL, NEW g \in Tag
    PROVE  LET links == [above EXCEPT ![n] = y]
           IN  /\ Joined([tag EXCEPT ![n] = g], links)
               /\ \A m \in Node : tag[m] # NULL =>
                     /\ Around(links, m) = Around(above, m) /\ n \notin Around(above, m)
                     /\ links[m] = above[m] /\ m # n
               /\ Around(links, n) = {n} \cup Around(above, y)
<1> DEFINE links == [above EXCEPT ![n] = y]
           tags == [tag EXCEPT ![n] = g]
<1>1. above \in Links /\ Ranked(above) /\ tag \in [Node -> Tag \cup {NULL}]
  BY DEF Joined, Ranked
<1>2. \A m \in Node : tag[m] # NULL => n \notin Around(above, m) /\ m # n
  BY AroundTagged
<1>3. Ranked(links)
  BY <1>1, <1>2, RankMoved
<1>4. \A m \in Node : links[m] = IF m = n THEN y ELSE above[m]
  BY <1>1 DEF Links
<1>5. tags \in [Node -> Tag \cup {NULL}] /\ \A m \in Node : tags[m] = IF m = n THEN g ELSE tag[m]
  BY <1>1
<1> HIDE DEF links, tags
<1>6. ASSUME NEW m \in Node, tag[m] # NULL PROVE Around(links, m) = Around(above, m)
  <2>1. Around(above, m) \in SUBSET Node
    BY <1>1, AroundIs
  <2>2. \A z \in Around(above, m) : links[z] = above[z]
    BY <1>2, <1>4, <1>6, <2>1
  <2> QED BY <1>1, <1>3, <2>2, AroundSame
<1>7. Around(links, n) = {n} \cup Around(above, y)
  <2>1. links[n] = y /\ y # NULL
    BY <1>4, NodeAssumption
  <2>2. Around(links, n) = {n} \cup Around(links, y)
    BY <1>3, <2>1, AroundIs
  <2> QED BY <1>6, <2>2
<1>8. ASSUME NEW m \in Node, links[m] # NULL PROVE tags[m] # NULL /\ tags[links[m]] # NULL
  <2>1. CASE m = n
    <3>1. links[m] = y /\ tags[m] = g /\ y # n
      BY <1>2, <1>4, <1>5, <2>1
    <3> QED BY <1>5, <3>1, TagsAre
  <2>2. CASE m # n
    <3>1. links[m] = above[m] /\ tags[m] = tag[m] /\ above[m] \in Node
      BY <1>1, <1>4, <1>5, <1>8, <2>2 DEF Links
    <3>2. tag[m] # NULL /\ tag[above[m]] # NULL
      BY <1>8, <3>1 DEF Joined
    <3>3. above[m] # n
      BY <3>2
    <3> QED BY <1>5, <3>1, <3>2, <3>3
  <2> QED BY <2>1, <2>2
<1>9. Joined(tags, links)
  BY <1>3, <1>5, <1>8 DEF Joined
<1> QED BY <1>2, <1>4, <1>6, <1>7, <1>9 DEF tags, links

\* What a good tree gives the provers, field by field.
LEMMA GoodFields ==
    ASSUME NEW t, Good(t)
    PROVE  /\ t \in Trees /\ t.open \in Seq(Node) /\ Len(t.open) \in Nat /\ Len(t.open) >= 1
           /\ DOMAIN t.open = 1 .. Len(t.open)
           /\ t.active \in Seq(Node \cup {Marker}) /\ Len(t.active) \in Nat
           /\ DOMAIN t.active = 1 .. Len(t.active)
           /\ t.tag \in [Node -> Tag \cup {NULL}] /\ t.above \in Links /\ Ranked(t.above)
           /\ \A i \in 1 .. Len(t.open) :
                 t.open[i] \in Node /\ t.tag[t.open[i]] \in Tag /\ t.tag[t.open[i]] # NULL
           /\ \A i \in 1 .. Len(t.active) : t.active[i] # Marker =>
                 /\ t.active[i] \in Node /\ t.tag[t.active[i]] \in AnyFormatting
                 /\ t.tag[t.active[i]] # NULL
           /\ Current(t) = t.open[Len(t.open)] /\ Current(t) \in Node
           /\ t = [open |-> t.open, active |-> t.active, tag |-> t.tag, above |-> t.above]
<1>1. /\ t.open \in Seq(Node) /\ Len(t.open) >= 1
      /\ \A i \in 1 .. Len(t.open) : t.tag[t.open[i]] \in Tag
      /\ t.active \in Seq(Node \cup {Marker})
      /\ \A i \in 1 .. Len(t.active) : t.active[i] # Marker =>
            t.tag[t.active[i]] \in AnyFormatting
  BY DEF Good, Stacked, Listed
<1>2. /\ Len(t.open) \in Nat /\ DOMAIN t.open = 1 .. Len(t.open)
      /\ Len(t.active) \in Nat /\ DOMAIN t.active = 1 .. Len(t.active)
      /\ \A i \in 1 .. Len(t.open) : t.open[i] \in Node
      /\ \A i \in 1 .. Len(t.active) : t.active[i] \in Node \cup {Marker}
  BY <1>1, LenProperties, ElementOfSeq
<1>3. t.tag \in [Node -> Tag \cup {NULL}] /\ t.above \in Links /\ Ranked(t.above)
  BY DEF Good, Joined, Ranked
<1>4. Current(t) = t.open[Len(t.open)]
  BY DEF Current, Last
<1>5. t = [open |-> t.open, active |-> t.active, tag |-> t.tag, above |-> t.above]
  BY DEF Good, Trees
<1>6. t \in Trees
  BY DEF Good
<1> QED BY <1>1, <1>2, <1>3, <1>4, <1>5, <1>6, TagsAre

\* What InsertElement leaves.
LEMMA InsertElementIs ==
    ASSUME NEW t, Good(t), Free(t) # {}, NEW g \in Tag, g = "table" => NoTable(t)
    PROVE  LET u == InsertElement(t, g)
               n == Fresh(t)
           IN  /\ Good(u) /\ n \in Node /\ t.tag[n] = NULL /\ n \in Free(t)
               /\ u.open = Append(t.open, n) /\ u.active = t.active
               /\ u.tag = [t.tag EXCEPT ![n] = g] /\ Free(u) = Free(t) \ {n}
               /\ Current(u) = n /\ Len(u.open) = Len(t.open) + 1
<1> DEFINE u == InsertElement(t, g)
           n == Fresh(t)
           L == Len(t.open)
           x == t.open[L]
           y == AppropriatePlace(t, x)
           q == Append(t.open, n)
           tags == [t.tag EXCEPT ![n] = g]
           links == [t.above EXCEPT ![n] = y]
<1>1. n \in Node /\ t.tag[n] = NULL /\ n \in Free(t)
  BY FreshIs
<1>2. /\ t \in Trees /\ t.open \in Seq(Node) /\ L \in Nat /\ L >= 1
      /\ t.tag \in [Node -> Tag \cup {NULL}] /\ t.above \in Links
      /\ t.active \in Seq(Node \cup {Marker}) /\ Current(t) = x
      /\ \A i \in 1 .. L : t.open[i] \in Node /\ t.tag[t.open[i]] # NULL
      /\ \A i \in 1 .. Len(t.active) : t.active[i] # Marker =>
            t.active[i] \in Node /\ t.tag[t.active[i]] # NULL
      /\ t = [open |-> t.open, active |-> t.active, tag |-> t.tag, above |-> t.above]
  BY GoodFields
<1>3. /\ Joined(t.tag, t.above) /\ Stacked(t.open, t.tag, t.above)
      /\ Nested(t.open, t.tag, t.above) /\ Listed(t.active, t.tag)
  BY DEF Good
<1>4. /\ y \in Node /\ t.tag[y] # NULL
      /\ \A i \in 1 .. L : \/ t.open[i] \in Around(t.above, y)
                           \/ /\ t.tag[t.open[i]] = "table"
                              /\ t.above[t.open[i]] \in Around(t.above, y)
  <2>1. L \in 1 .. L
    BY <1>2
  <2>2. \A i \in 1 .. L - 1 : Inside(t.tag, t.above, t.open[i], t.open[L])
    BY <1>2, <1>3 DEF Nested
  <2> HIDE DEF L
  <2>3. L \in 1 .. Len(t.open)
    BY <2>1 DEF L
  <2> QED BY <1>2, <1>3, <2>2, <2>3, PlaceIs
<1>5. u = [open |-> q, active |-> t.active, tag |-> tags, above |-> links]
  <2>1. u = [t EXCEPT !.open = q, !.tag[n] = g, !.above[n] = y]
    BY <1>2 DEF InsertElement
  <2> HIDE DEF u, n, x, L, y, q
  <2> QED BY <1>2, <2>1
<1>6. u.open = q /\ u.active = t.active /\ u.tag = tags /\ u.above = links
  BY <1>5
<1> HIDE DEF u, n, y
<1>7. /\ q \in Seq(Node) /\ Len(q) = L + 1 /\ q[L + 1] = n
      /\ \A i \in 1 .. L : q[i] = t.open[i]
  BY <1>1, <1>2
<1>8. /\ Joined(tags, links)
      /\ \A m \in Node : t.tag[m] # NULL =>
            /\ Around(links, m) = Around(t.above, m) /\ n \notin Around(t.above, m)
            /\ links[m] = t.above[m] /\ m # n
      /\ Around(links, n) = {n} \cup Around(t.above, y)
  BY <1>1, <1>3, <1>4, FreshJoined
<1>9. \A m \in Node : tags[m] = IF m = n THEN g ELSE t.tag[m]
  BY <1>1, <1>2
<1> HIDE DEF q, tags, links
<1>10. Stacked(q, tags, links)
  <2> DEFINE h == [i \in 1 .. L + 1 |-> IF i = L + 1 THEN 0 ELSE i]
  <2>1. Renewed(q, t.open, h, n)
    <3>1. h \in [1 .. Len(q) -> 0 .. Len(t.open)] /\ h[1] = 1
      BY <1>2, <1>7
    <3>2. \A i \in 1 .. Len(q) : q[i] = IF h[i] = 0 THEN n ELSE t.open[h[i]]
      BY <1>2, <1>7
    <3>3. \A i, j \in 1 .. Len(q) : i < j /\ h[i] # 0 /\ h[j] # 0 => h[i] < h[j]
      BY <1>2, <1>7
    <3>4. \A i, j \in 1 .. Len(q) : h[i] = 0 /\ h[j] = 0 => i = j
      BY <1>2, <1>7
    <3> HIDE DEF h, L
    <3>5. Len(q) >= 1
      BY <1>2, <1>7
    <3> QED BY <1>7, <3>1, <3>2, <3>3, <3>4, <3>5 DEF Renewed
  <2>2. \A i \in 1 .. Len(q) : h[i] = 0 => i = Len(q)
    BY <1>2, <1>7
  <2> HIDE DEF h
  <2>3. \A i \in 1 .. Len(t.open) :
           /\ tags[t.open[i]] = t.tag[t.open[i]]
           /\ Around(links, t.open[i]) = Around(t.above, t.open[i])
           /\ n \notin Around(t.above, t.open[i]) /\ t.open[i] # n
    BY <1>2, <1>8, <1>9
  <2>4. tags[n] = g
    BY <1>1, <1>9
  <2> QED BY <1>3, <2>1, <2>2, <2>3, <2>4, StackedRenewed DEF NoTable
<1>11. Nested(q, tags, links)
  <2>1. ASSUME NEW i \in 1 .. Len(q), NEW j \in 1 .. Len(q), i < j
        PROVE  Inside(tags, links, q[i], q[j])
    <3>1. i \in 1 .. L /\ q[i] = t.open[i] /\ q[i] \in Node /\ t.tag[q[i]] # NULL
      BY <1>2, <1>7, <2>1
    <3>2. tags[q[i]] = t.tag[q[i]] /\ links[q[i]] = t.above[q[i]]
      BY <1>8, <1>9, <3>1
    <3>3. CASE j = L + 1
      <4>1. q[j] = n
        BY <1>7, <3>3
      <4> QED BY <1>4, <1>8, <3>1, <3>2, <4>1 DEF Inside
    <3>4. CASE j # L + 1
      <4>1. j \in 1 .. L /\ q[j] = t.open[j]
        BY <1>2, <1>7, <2>1, <3>4
      <4>2. Inside(t.tag, t.above, q[i], q[j])
        BY <1>3, <2>1, <3>1, <4>1 DEF Nested
      <4>3. Around(links, q[j]) = Around(t.above, q[j])
        BY <1>2, <1>8, <4>1
      <4> QED BY <3>2, <4>2, <4>3 DEF Inside
    <3> QED BY <3>3, <3>4
  <2> QED BY <2>1 DEF Nested
<1>12. Listed(t.active, tags)
  <2>1. \A i \in 1 .. Len(t.active) : t.active[i] # Marker => tags[t.active[i]] = t.tag[t.active[i]]
    BY <1>2, <1>8, <1>9
  <2> QED BY <1>3, <2>1, ListedSame
<1>13. Good(u)
  <2>1. tags \in [Node -> Tag \cup {NULL}] /\ links \in Links
    BY <1>8 DEF Joined, Ranked
  <2>2. u \in Trees
    BY <1>2, <1>5, <1>7, <2>1 DEF Trees
  <2> QED BY <1>6, <1>8, <1>10, <1>11, <1>12, <2>2 DEF Good
<1>14. Free(u) = Free(t) \ {n}
  <2>1. g # NULL
    BY TagsAre
  <2> QED BY <1>6, <1>9, <2>1 DEF Free
<1>15. Current(u) = n
  BY <1>6, <1>7 DEF Current, Last
<1> QED BY <1>1, <1>6, <1>7, <1>13, <1>14, <1>15 DEF u, n, q, tags, L

-----------------------------------------------------------------------------
(* Closing elements.                                                       *)

\* u is t with fewer open elements.
Closed(u, t) ==
    /\ Good(u) /\ Len(u.open) <= Len(t.open)
    /\ u.active = t.active /\ u.tag = t.tag /\ u.above = t.above
    /\ \A i \in 1 .. Len(u.open) : \E j \in 1 .. Len(t.open) : u.open[i] = t.open[j]

\* Closing uses no element and opens no table, and closing again is closing.
LEMMA ClosedIs ==
    ASSUME NEW t, Good(t), NEW u, Closed(u, t)
    PROVE  /\ Free(u) = Free(t) /\ (NoTable(t) => NoTable(u))
           /\ \A s : Closed(s, u) => Closed(s, t)
<1>1. Len(t.open) \in Nat /\ Len(u.open) \in Nat
  BY GoodFields DEF Closed
<1>2. ASSUME NEW s, Closed(s, u) PROVE Closed(s, t)
  <2>1. Len(s.open) \in Nat
    BY <1>2, GoodFields DEF Closed
  <2>2. Len(s.open) <= Len(t.open)
    BY <1>1, <1>2, <2>1 DEF Closed
  <2> QED BY <1>2, <2>2 DEF Closed
<1>3. NoTable(t) => NoTable(u)
  BY DEF Closed, NoTable
<1> QED BY <1>2, <1>3 DEF Closed, Free

\* A stack with some places left out is as good.
LEMMA GoodOpen ==
    ASSUME NEW t, Good(t), NEW q, NEW h, Renewed(q, t.open, h, NULL),
           \A i \in 1 .. Len(q) : h[i] # 0
    PROVE  Good([t EXCEPT !.open = q])
<1> DEFINE u == [t EXCEPT !.open = q]
<1>1. /\ t.open \in Seq(Node) /\ t.active \in Seq(Node \cup {Marker})
      /\ t.tag \in [Node -> Tag \cup {NULL}] /\ t.above \in Links
      /\ t = [open |-> t.open, active |-> t.active, tag |-> t.tag, above |-> t.above]
  BY GoodFields
<1>2. u = [open |-> q, active |-> t.active, tag |-> t.tag, above |-> t.above]
  BY <1>1
<1>3. Stacked(q, t.tag, t.above) /\ Nested(q, t.tag, t.above)
  BY StackedThinned DEF Good
<1>4. u \in Trees
  BY <1>1, <1>2, <1>3 DEF Trees, Stacked
<1>5. u.open = q /\ u.active = t.active /\ u.tag = t.tag /\ u.above = t.above
  BY <1>2
<1> HIDE DEF u
<1> QED BY <1>3, <1>4, <1>5 DEF Good, u

\* The lowest k places of the stack.
LEMMA PrefixIs ==
    ASSUME NEW t, Good(t), NEW k \in 1 .. Len(t.open)
    PROVE  LET u == [t EXCEPT !.open = SubSeq(t.open, 1, k)]
           IN  /\ Closed(u, t) /\ Len(u.open) = k
               /\ \A i \in 1 .. k : u.open[i] = t.open[i]
<1> DEFINE q == SubSeq(t.open, 1, k)
           h == [i \in 1 .. k |-> i]
           u == [t EXCEPT !.open = q]
<1>1. /\ t.open \in Seq(Node) /\ Len(t.open) \in Nat /\ k \in Int /\ 1 <= k /\ k <= Len(t.open)
      /\ \A i \in 1 .. Len(t.open) : t.open[i] \in Node
      /\ t = [open |-> t.open, active |-> t.active, tag |-> t.tag, above |-> t.above]
  BY GoodFields
<1>2. q \in Seq(Node) /\ Len(q) = k /\ \A i \in 1 .. k : q[i] = t.open[i]
  <2>1. \A i \in 1 .. k : t.open[i] \in Node
    BY <1>1
  <2> QED BY <1>1, <2>1, SubSeqProperties
<1> HIDE DEF q
<1>3. Renewed(q, t.open, h, NULL)
  <2>1. h \in [1 .. Len(q) -> 0 .. Len(t.open)] /\ h[1] = 1 /\ Len(q) >= 1
    BY <1>1, <1>2
  <2>2. \A i \in 1 .. Len(q) : h[i] # 0 /\ q[i] = t.open[h[i]] /\ h[i] = i
    BY <1>1, <1>2
  <2> HIDE DEF h
  <2> QED BY <1>2, <2>1, <2>2 DEF Renewed
<1>4. \A i \in 1 .. Len(q) : h[i] # 0
  BY <1>2
<1> HIDE DEF h
<1>5. Good(u)
  BY <1>3, <1>4, GoodOpen
<1>6. u.open = q /\ u.active = t.active /\ u.tag = t.tag /\ u.above = t.above
  BY <1>1
<1> HIDE DEF u
<1>7. \A i \in 1 .. k : i \in 1 .. Len(t.open)
  BY <1>1
<1>8. Closed(u, t)
  BY <1>1, <1>2, <1>5, <1>6, <1>7 DEF Closed
<1> QED BY <1>2, <1>6, <1>8 DEF u, q

\* Place i and all above it go.
LEMMA PopFromIs ==
    ASSUME NEW t, Good(t), NEW i \in 2 .. Len(t.open)
    PROVE  /\ Closed(PopFrom(t, i), t) /\ Len(PopFrom(t, i).open) = i - 1
           /\ \A j \in 1 .. i - 1 : PopFrom(t, i).open[j] = t.open[j]
<1>1. Len(t.open) \in Nat /\ i - 1 \in 1 .. Len(t.open)
  BY GoodFields
<1>2. PopFrom(t, i) = [t EXCEPT !.open = SubSeq(t.open, 1, i - 1)]
  BY DEF PopFrom
<1> QED BY <1>1, <1>2, PrefixIs

\* Any element but html may leave the stack from the middle.
LEMMA RemoveOpenIs ==
    ASSUME NEW t, Good(t), NEW x, x # t.open[1]
    PROVE  Closed([t EXCEPT !.open = RemoveByNode(t.open, x)], t)
<1> DEFINE q == RemoveByNode(t.open, x)
           k == LastAt(t.open, x)
           u == [t EXCEPT !.open = q]
<1>1. /\ t.open \in Seq(Node) /\ Len(t.open) \in Nat /\ Len(t.open) >= 1
      /\ t = [open |-> t.open, active |-> t.active, tag |-> t.tag, above |-> t.above]
  BY GoodFields
<1>2. q \in Seq(Node) /\ Len(q) \in Nat /\ k \in 0 .. Len(t.open)
      /\ (k # 0 => t.open[k] = x)
      /\ (k = 0 => q = t.open) /\ (k # 0 => Shortened(q, t.open, k))
  BY <1>1, LastAtIs, RemoveByNodeIs, LenProperties
<1>3. u.open = q /\ u.active = t.active /\ u.tag = t.tag /\ u.above = t.above
  BY <1>1
<1> HIDE DEF q, k
<1>4. ASSUME k = 0 PROVE Closed(u, t)
  <2>1. u = t
    BY <1>1, <1>2, <1>4
  <2> HIDE DEF u
  <2>2. \A i \in 1 .. Len(t.open) : \E j \in 1 .. Len(t.open) : t.open[i] = t.open[j]
    OBVIOUS
  <2>3. Closed(t, t)
    BY <1>1, <2>2 DEF Closed
  <2> QED BY <2>1, <2>3
<1>5. ASSUME k # 0 PROVE Closed(u, t)
  <2> DEFINE h == [i \in 1 .. Len(q) |-> IF i < k THEN i ELSE i + 1]
  <2>1. k \in 2 .. Len(t.open) /\ Len(q) = Len(t.open) - 1
    BY <1>1, <1>2, <1>5 DEF Shortened
  <2>2. h \in [1 .. Len(q) -> 0 .. Len(t.open)] /\ h[1] = 1 /\ Len(q) >= 1
    BY <1>1, <1>2, <2>1
  <2>3. \A i \in 1 .. Len(q) : h[i] # 0 /\ h[i] \in 1 .. Len(t.open) /\ q[i] = t.open[h[i]]
    BY <1>1, <1>2, <1>5, <2>1 DEF Shortened
  <2>4. \A i, j \in 1 .. Len(q) : i < j => h[i] < h[j]
    BY <1>1, <1>2, <2>1
  <2> HIDE DEF h, u
  <2>5. Renewed(q, t.open, h, NULL)
    BY <1>2, <2>2, <2>3, <2>4 DEF Renewed
  <2>6. Good(u)
    BY <2>3, <2>5, GoodOpen DEF u
  <2>7. Len(q) <= Len(t.open)
    BY <1>1, <2>1
  <2>8. \A i \in 1 .. Len(q) : \E j \in 1 .. Len(t.open) : q[i] = t.open[j]
    BY <2>3
  <2> QED BY <1>3, <2>6, <2>7, <2>8 DEF Closed
<1> HIDE DEF u
<1> QED BY <1>4, <1>5 DEF u, q

\* InScope finds a place of the tag that nothing hides, if there is one.
LEMMA InScopeIs ==
    ASSUME NEW t, Good(t), NEW g
    PROVE  /\ InScope(t, g) \in 0 .. Len(t.open)
           /\ InScope(t, g) # 0 => t.tag[t.open[InScope(t, g)]] = g /\ InScopeAt(t, InScope(t, g))
           /\ \A i \in 1 .. Len(t.open) :
                 t.tag[t.open[i]] = g /\ InScopeAt(t, i) => InScope(t, g) # 0
           /\ InScope(t, g) # 0 /\ g # "html" => InScope(t, g) \in 2 .. Len(t.open)
<1> DEFINE S == {i \in DOMAIN t.open : t.tag[t.open[i]] = g /\ InScopeAt(t, i)} \cup {0}
<1>1. Len(t.open) \in Nat /\ DOMAIN t.open = 1 .. Len(t.open) /\ t.tag[t.open[1]] = "html"
  BY GoodFields DEF Good, Stacked
<1>2. S \in SUBSET (0 .. Len(t.open)) /\ S # {}
  BY <1>1
<1>3. InScope(t, g) = Max(S)
  BY DEF InScope
<1>4. Max(S) \in S /\ \A i \in S : i <= Max(S)
  <2> HIDE DEF S
  <2> QED BY <1>1, <1>2, MaxIs
<1>5. InScope(t, g) \in 0 .. Len(t.open)
  BY <1>2, <1>3, <1>4
<1>6. InScope(t, g) # 0 => t.tag[t.open[InScope(t, g)]] = g /\ InScopeAt(t, InScope(t, g))
  BY <1>3, <1>4
<1>7. ASSUME NEW i \in 1 .. Len(t.open), t.tag[t.open[i]] = g, InScopeAt(t, i)
      PROVE  InScope(t, g) # 0
  <2>1. i \in S
    BY <1>1, <1>7
  <2> HIDE DEF S
  <2>2. i <= Max(S)
    BY <1>4, <2>1
  <2> QED BY <1>1, <1>3, <1>5, <2>2
<1>8. InScope(t, g) # 0 /\ g # "html" => InScope(t, g) # 1
  BY <1>1, <1>6
<1> QED BY <1>1, <1>5, <1>6, <1>7, <1>8

\* It stops at a special element at the latest: html is one, and stays.
LEMMA AnythingElseClosedIs ==
    ASSUME NEW t, Good(t), NEW g, g \notin Special
    PROVE  Closed(AnythingElseClosed(t, g), t)
<1> DEFINE S == {j \in DOMAIN t.open : t.tag[t.open[j]] = g \/ t.tag[t.open[j]] \in Special}
           i == Max(S)
<1>1. /\ Len(t.open) \in Nat /\ Len(t.open) >= 1 /\ DOMAIN t.open = 1 .. Len(t.open)
      /\ t.tag[t.open[1]] = "html"
  BY GoodFields DEF Good, Stacked
<1>2. i \in S
  <2>1. 1 \in S /\ S \in SUBSET (0 .. Len(t.open))
    BY <1>1, TagsAre
  <2> HIDE DEF S
  <2> QED BY <1>1, <2>1, MaxIs
<1>3. i \in 1 .. Len(t.open)
  BY <1>1, <1>2
<1>4. AnythingElseClosed(t, g) = IF t.tag[t.open[i]] = g THEN PopFrom(t, i) ELSE t
  BY DEF AnythingElseClosed
<1> HIDE DEF i
<1>5. CASE t.tag[t.open[i]] = g
  <2>1. i # 1
    BY <1>1, <1>5, TagsAre
  <2>2. i \in 2 .. Len(t.open)
    BY <1>1, <1>3, <2>1
  <2> QED BY <1>4, <1>5, <2>2, PopFromIs
<1>6. CASE t.tag[t.open[i]] # g
  BY <1>1, <1>4, <1>6 DEF Closed
<1> QED BY <1>5, <1>6

\* p goes off the stack, and what is open and no p stays in scope.
LEMMA ImpliedEndTagsIs ==
    ASSUME NEW t, Good(t), NEW except
    PROVE  LET u == ImpliedEndTags(t, except) IN
           /\ Closed(u, t)
           /\ except = "p" => u = t
           /\ \A g \in Tag : g # "p" /\ InScope(t, g) # 0 => InScope(u, g) # 0
<1> DEFINE p == IF except = "p" THEN {} ELSE {"p"}
           S == {i \in DOMAIN t.open : t.tag[t.open[i]] \notin p}
           k == Max(S)
           u == [t EXCEPT !.open = SubSeq(t.open, 1, k)]
<1>1. /\ Len(t.open) \in Nat /\ Len(t.open) >= 1 /\ DOMAIN t.open = 1 .. Len(t.open)
      /\ t.tag[t.open[1]] = "html" /\ t.open \in Seq(Node)
      /\ t = [open |-> t.open, active |-> t.active, tag |-> t.tag, above |-> t.above]
  BY GoodFields DEF Good, Stacked
<1>2. k \in S /\ \A i \in S : i <= k
  <2>1. 1 \in S /\ S \in SUBSET (0 .. Len(t.open))
    BY <1>1
  <2> HIDE DEF S
  <2> QED BY <1>1, <2>1, MaxIs
<1>3. ImpliedEndTags(t, except) = u
  BY DEF ImpliedEndTags
<1>4. k \in 1 .. Len(t.open)
  BY <1>1, <1>2
<1>5. ASSUME except = "p" PROVE u = t
  <2>1. Len(t.open) \in S
    BY <1>1, <1>5
  <2>2. k = Len(t.open)
    <3> HIDE DEF k, S
    <3> QED BY <1>1, <1>2, <1>4, <2>1
  <2>3. SubSeq(t.open, 1, k) = t.open
    BY <1>1, <2>2, SubSeqFull
  <2> HIDE DEF k
  <2> QED BY <1>1, <2>3
<1>6. /\ Closed(u, t) /\ Len(u.open) = k /\ \A i \in 1 .. k : u.open[i] = t.open[i]
  <2> HIDE DEF k
  <2> QED BY <1>4, PrefixIs
<1>7. ASSUME NEW g \in Tag, g # "p", InScope(t, g) # 0 PROVE InScope(u, g) # 0
  <2> DEFINE i == InScope(t, g)
  <2>1. i \in 1 .. Len(t.open) /\ t.tag[t.open[i]] = g /\ InScopeAt(t, i)
    BY <1>1, <1>7, InScopeIs
  <2>2. i \in S
    BY <1>1, <1>7, <2>1
  <2>3. i \in 1 .. k
    BY <1>1, <1>2, <1>4, <2>1, <2>2
  <2> HIDE DEF i, k, u, S
  <2>4. DOMAIN u.open = 1 .. k /\ u.tag = t.tag /\ Good(u)
    BY <1>6, GoodFields DEF Closed
  <2>5. u.tag[u.open[i]] = g
    BY <1>6, <2>1, <2>3, <2>4
  <2>6. InScopeAt(u, i)
    <3>1. \A j \in i + 1 .. k : j \in i + 1 .. Len(t.open) /\ u.open[j] = t.open[j]
      BY <1>1, <1>4, <1>6, <2>3
    <3> QED BY <1>6, <2>1, <2>4, <3>1 DEF InScopeAt
  <2> QED BY <1>6, <2>3, <2>4, <2>5, <2>6, InScopeIs
<1> HIDE DEF u
<1> QED BY <1>3, <1>5, <1>6, <1>7

\* A p in scope is still in scope when the implied end tags are through.
LEMMA ClosedPIs ==
    ASSUME NEW t, Good(t), InScope(t, "p") # 0
    PROVE  Closed(ClosePElement(t), t)
<1>1. ImpliedEndTags(t, "p") = t
  BY ImpliedEndTagsIs
<1>2. ClosePElement(t) = PopFrom(t, InScope(t, "p"))
  BY <1>1 DEF ClosePElement
<1>3. InScope(t, "p") \in 2 .. Len(t.open)
  BY InScopeIs
<1> QED BY <1>2, <1>3, PopFromIs

-----------------------------------------------------------------------------
(* Growing by a few elements.                                              *)

\* Counting up to j and then up to k more.
LEMMA MoreAndMore ==
    ASSUME NEW a \in Nat, NEW b \in Nat, NEW c \in Nat, NEW j \in Nat, NEW k \in Nat
    PROVE  /\ a <= b + j /\ b <= c + k => a <= c + (j + k) /\ a <= c + (k + j)
           /\ j + k \in Nat
           /\ a <= b + j /\ j <= k => a <= b + k
  OBVIOUS

\* The free elements can be counted.
LEMMA FreeFinite ==
    ASSUME NEW t
    PROVE  IsFiniteSet(Free(t)) /\ Cardinality(Free(t)) \in Nat
<1>1. IsFiniteSet(Node) /\ Free(t) \subseteq Node
  BY NodeAssumption DEF Free
<1> QED BY <1>1, FS_Subset, FS_CardinalityType

\* u came from t with k more elements at most; what was known is known.
Grown(u, t, k) ==
    /\ Good(u) /\ k \in Nat
    /\ \A m \in Node : t.tag[m] # NULL => u.tag[m] = t.tag[m]
    /\ NoTable(t) => NoTable(u)
    /\ Len(u.open) <= Len(t.open) + k
    /\ Cardinality(Free(t)) <= Cardinality(Free(u)) + k

\* Growing twice.
LEMMA GrownOn ==
    ASSUME NEW t, Good(t), NEW j, NEW k, NEW u, Grown(u, t, j), NEW s, Grown(s, u, k)
    PROVE  Grown(s, t, j + k)
<1>1. /\ j \in Nat /\ k \in Nat
      /\ Len(t.open) \in Nat /\ Len(u.open) \in Nat /\ Len(s.open) \in Nat
  BY GoodFields DEF Grown
<1>2. /\ Cardinality(Free(t)) \in Nat /\ Cardinality(Free(u)) \in Nat
      /\ Cardinality(Free(s)) \in Nat
  BY FreeFinite
<1>3. /\ Len(u.open) <= Len(t.open) + j /\ Len(s.open) <= Len(u.open) + k
      /\ Cardinality(Free(t)) <= Cardinality(Free(u)) + j
      /\ Cardinality(Free(u)) <= Cardinality(Free(s)) + k
  BY DEF Grown
<1>4. /\ Len(s.open) <= Len(t.open) + (j + k)
      /\ Cardinality(Free(t)) <= Cardinality(Free(s)) + (j + k)
      /\ j + k \in Nat
  <2>1. j + k \in Nat
    BY <1>1, MoreAndMore
  <2>2. Len(s.open) <= Len(t.open) + (j + k)
    BY <1>1, <1>3, MoreAndMore
  <2>3. Cardinality(Free(t)) <= Cardinality(Free(s)) + (j + k)
    BY <1>1, <1>2, <1>3, MoreAndMore
  <2> QED BY <2>1, <2>2, <2>3
<1>5. ASSUME NEW m \in Node, t.tag[m] # NULL PROVE s.tag[m] = t.tag[m]
  BY <1>5 DEF Grown
<1> QED BY <1>4, <1>5 DEF Grown

\* What has stayed, or only closed, has not grown.
LEMMA GrownNot ==
    ASSUME NEW t, Good(t)
    PROVE  /\ Grown(t, t, 0)
           /\ \A u : Closed(u, t) => Grown(u, t, 0)
<1>1. Len(t.open) \in Nat /\ Cardinality(Free(t)) \in Nat
  BY GoodFields, FreeFinite
<1>2. Grown(t, t, 0)
  BY <1>1 DEF Grown
<1>3. ASSUME NEW u, Closed(u, t) PROVE Grown(u, t, 0)
  <2>1. Free(u) = Free(t) /\ (NoTable(t) => NoTable(u))
    BY <1>3, ClosedIs
  <2>2. Good(u) /\ u.tag = t.tag /\ Len(u.open) <= Len(t.open)
    BY <1>3 DEF Closed
  <2>3. Len(u.open) \in Nat
    BY <2>2, GoodFields
  <2>4. Len(u.open) <= Len(t.open) + 0 /\ Cardinality(Free(t)) <= Cardinality(Free(u)) + 0
    BY <1>1, <2>1, <2>2, <2>3
  <2> QED BY <2>1, <2>2, <2>4 DEF Grown
<1> QED BY <1>2, <1>3

\* Another list of entries changes nothing of this.
LEMMA GrownActive ==
    ASSUME NEW t, Good(t), NEW q, Listed(q, t.tag)
    PROVE  LET u == [t EXCEPT !.active = q]
           IN  /\ Good(u) /\ Grown(u, t, 0) /\ u.open = t.open /\ u.active = q /\ u.tag = t.tag
               /\ u.above = t.above /\ Free(u) = Free(t) /\ Current(u) = Current(t)
<1> DEFINE u == [t EXCEPT !.active = q]
<1>1. t = [open |-> t.open, active |-> t.active, tag |-> t.tag, above |-> t.above]
      /\ t.open \in Seq(Node) /\ t.tag \in [Node -> Tag \cup {NULL}] /\ t.above \in Links
  BY GoodFields
<1>2. u = [open |-> t.open, active |-> q, tag |-> t.tag, above |-> t.above]
  BY <1>1
<1>3. u.open = t.open /\ u.active = q /\ u.tag = t.tag /\ u.above = t.above
  BY <1>2
<1>4. u \in Trees
  BY <1>1, <1>2 DEF Trees, Listed
<1> HIDE DEF u
<1>5. Good(u)
  BY <1>3, <1>4 DEF Good
<1>6. Free(u) = Free(t) /\ Current(u) = Current(t) /\ (NoTable(t) => NoTable(u))
  BY <1>3 DEF Free, NoTable, Current
<1>7. Grown(u, t, 0)
  <2>1. Len(t.open) \in Nat /\ Cardinality(Free(t)) \in Nat
    BY GoodFields, FreeFinite
  <2>2. Len(t.open) <= Len(t.open) + 0 /\ Cardinality(Free(t)) <= Cardinality(Free(t)) + 0
    BY <2>1
  <2> QED BY <1>3, <1>5, <1>6, <2>2 DEF Grown
<1> QED BY <1>3, <1>5, <1>6, <1>7 DEF u

\* InsertElement takes one free element, which is then the current node.
LEMMA InsertedGrown ==
    ASSUME NEW t, Good(t), Cardinality(Free(t)) >= 1, NEW g \in Tag, g # "table"
    PROVE  LET u == InsertElement(t, g)
               n == Fresh(t)
           IN  /\ Good(u) /\ Grown(u, t, 1) /\ u.active = t.active /\ Current(u) = n
               /\ n \in Node /\ t.tag[n] = NULL /\ u.tag[n] = g
               /\ \A i \in 1 .. Len(t.active) : t.active[i] # n
               /\ Len(u.open) = Len(t.open) + 1 /\ u.open[Len(u.open)] = n
               /\ \A i \in 1 .. Len(t.open) : u.open[i] = t.open[i]
<1> DEFINE u == InsertElement(t, g)
           n == Fresh(t)
<1>1. Free(t) # {}
  <2>1. Cardinality(Free(t)) # 0
    OBVIOUS
  <2> QED BY <2>1, FS_EmptySet
<1>2. /\ Good(u) /\ n \in Node /\ t.tag[n] = NULL /\ n \in Free(t)
      /\ u.open = Append(t.open, n) /\ u.active = t.active
      /\ u.tag = [t.tag EXCEPT ![n] = g] /\ Free(u) = Free(t) \ {n}
      /\ Current(u) = n /\ Len(u.open) = Len(t.open) + 1
  BY <1>1, InsertElementIs
<1> HIDE DEF u, n
<1>3. /\ t.tag \in [Node -> Tag \cup {NULL}] /\ t.open \in Seq(Node) /\ Len(t.open) \in Nat
      /\ NULL \notin Node /\ NULL # Marker
  BY GoodFields, NodeAssumption
<1>4. Cardinality(Free(t)) = Cardinality(Free(u)) + 1
  <2>1. Cardinality(Free(t)) \in Nat /\ IsFiniteSet(Free(t))
    BY FreeFinite
  <2>2. Cardinality(Free(t) \ {n}) = Cardinality(Free(t)) - 1
    BY <1>2, <2>1, FS_RemoveElement
  <2> QED BY <1>2, <2>1, <2>2
<1>5. \A m \in Node : t.tag[m] # NULL => u.tag[m] = t.tag[m]
  BY <1>2, <1>3
<1>6. /\ u.tag[n] = g /\ u.open[Len(u.open)] = n
      /\ \A i \in 1 .. Len(t.open) : u.open[i] = t.open[i]
  BY <1>2, <1>3
<1>7. NoTable(t) => NoTable(u)
  <2>1. SUFFICES ASSUME NoTable(t), NEW i \in 1 .. Len(u.open)
                 PROVE  u.tag[u.open[i]] # "table"
    BY DEF NoTable
  <2>2. CASE i = Len(u.open)
    BY <1>6, <2>2
  <2>3. CASE i # Len(u.open)
    <3>1. i \in 1 .. Len(t.open)
      BY <1>2, <1>3, <2>3
    <3>2. u.open[i] = t.open[i] /\ t.open[i] \in Node /\ t.tag[t.open[i]] # NULL
      BY <1>6, <3>1, GoodFields
    <3> QED BY <1>5, <2>1, <3>1, <3>2 DEF NoTable
  <2> QED BY <2>2, <2>3
<1>8. \A i \in 1 .. Len(t.active) : t.active[i] # n
  <2>1. \A i \in 1 .. Len(t.active) : t.active[i] # Marker => t.tag[t.active[i]] # NULL
    BY GoodFields
  <2>2. n # Marker
    BY <1>2, NodeAssumption
  <2> QED BY <1>2, <2>1, <2>2
<1>9. Grown(u, t, 1)
  <2>1. Cardinality(Free(u)) \in Nat /\ Cardinality(Free(t)) \in Nat
    BY FreeFinite
  <2>2. Len(u.open) <= Len(t.open) + 1 /\ Cardinality(Free(t)) <= Cardinality(Free(u)) + 1
    BY <1>2, <1>3, <1>4, <2>1
  <2> QED BY <1>2, <1>5, <1>7, <2>2 DEF Grown
<1> QED BY <1>2, <1>6, <1>8, <1>9 DEF u, n

-----------------------------------------------------------------------------
(* Opening entries anew.                                                   *)

\* One entry is opened anew.
RenewedEntry(s, i) ==
    LET u == InsertElement(s, s.tag[s.active[i]])
    IN  [u EXCEPT !.active[i] = Current(u)]

\* An entry opened anew costs one element and leaves the markers where they are.
LEMMA RenewedEntryIs ==
    ASSUME NEW s, Good(s), Cardinality(Free(s)) >= 1,
           NEW i \in 1 .. Len(s.active), s.active[i] # Marker
    PROVE  LET v == RenewedEntry(s, i)
           IN  /\ Good(v) /\ Grown(v, s, 1) /\ Len(v.active) = Len(s.active)
               /\ \A j \in 1 .. Len(s.active) : v.active[j] = Marker <=> s.active[j] = Marker
<1> DEFINE g == s.tag[s.active[i]]
           u == InsertElement(s, g)
           n == Fresh(s)
           q == [s.active EXCEPT ![i] = n]
           v == [u EXCEPT !.active = q]
<1>1. g \in Tag /\ g # "table" /\ g \in AnyFormatting
  BY GoodFields, TagsAre
<1>2. /\ Good(u) /\ Grown(u, s, 1) /\ u.active = s.active /\ Current(u) = n
      /\ n \in Node /\ s.tag[n] = NULL /\ u.tag[n] = g
      /\ \A j \in 1 .. Len(s.active) : s.active[j] # n
  <2> HIDE DEF g
  <2> QED BY <1>1, InsertedGrown
<1>3. s.active \in Seq(Node \cup {Marker}) /\ Len(s.active) \in Nat
  BY GoodFields
<1> HIDE DEF g, n
<1>4. RenewedEntry(s, i) = v
  <2>1. RenewedEntry(s, i) = [u EXCEPT !.active[i] = n]
    BY <1>2 DEF RenewedEntry, g
  <2>2. u = [open |-> u.open, active |-> u.active, tag |-> u.tag, above |-> u.above]
    <3> HIDE DEF u
    <3> QED BY <1>2, GoodFields
  <2> HIDE DEF u
  <2> QED BY <1>2, <2>1, <2>2
<1> HIDE DEF u
<1>5. Listed(q, u.tag) /\ Len(q) = Len(s.active)
  <2>1. Listed(u.active, u.tag)
    BY <1>2 DEF Good
  <2> QED BY <1>1, <1>2, <2>1, ListedReplaced
<1>6. \A j \in 1 .. Len(s.active) : q[j] = Marker <=> s.active[j] = Marker
  <2>1. n # Marker
    BY <1>2, NodeAssumption
  <2> QED BY <1>3, <2>1
<1> HIDE DEF q
<1>7. Good(v) /\ Grown(v, u, 0) /\ v.active = q
  BY <1>2, <1>5, GrownActive
<1> HIDE DEF v
<1>8. Grown(v, s, 1 + 0)
  BY <1>2, <1>7, GrownOn
<1> QED BY <1>4, <1>5, <1>6, <1>7, <1>8 DEF v

\* After k entries behind place from.
Renewing(t, from, k) ==
    {x \in Trees : /\ Grown(x, t, k) /\ Len(x.active) = Len(t.active)
                   /\ \A j \in from + 1 .. Len(t.active) : x.active[j] # Marker}

\* Reconstruct needs an element for every entry at most, and adds no entry.
LEMMA ReconstructIs ==
    ASSUME NEW t, Good(t), Cardinality(Free(t)) >= Len(t.active)
    PROVE  LET u == Reconstruct(t) IN
           /\ Grown(u, t, Len(t.active)) /\ Len(u.active) = Len(t.active)
<1> DEFINE S == {i \in DOMAIN t.active :
                   t.active[i] = Marker \/ t.active[i] \in ToSet(t.open)} \cup {0}
           from == Max(S)
           n == Len(t.active) - from
           A == [k \in 0 .. n |-> Renewing(t, from, k)]
           Step == [k \in 1 .. n |-> [x \in Trees |-> RenewedEntry(x, from + k)]]
           Body(f) == [k \in 0 .. n |-> IF k = 0 THEN t ELSE RenewedEntry(f[k - 1], from + k)]
           table == CHOOSE f : f = Body(f)
<1>1. /\ Len(t.active) \in Nat /\ DOMAIN t.active = 1 .. Len(t.active) /\ t \in Trees
      /\ Cardinality(Free(t)) \in Nat /\ Len(t.open) \in Nat
  BY GoodFields, FreeFinite
<1>2. from \in 0 .. Len(t.active)
      /\ \A i \in 1 .. Len(t.active) : i > from => t.active[i] # Marker
  <2>1. S \in SUBSET (0 .. Len(t.active)) /\ S # {}
    BY <1>1
  <2>2. \A i \in 1 .. Len(t.active) : t.active[i] = Marker => i \in S
    BY <1>1
  <2> HIDE DEF S
  <2>3. from \in S /\ \A i \in S : i <= from
    BY <1>1, <2>1, MaxIs
  <2>4. from \in 0 .. Len(t.active)
    BY <2>1, <2>3
  <2> HIDE DEF from
  <2> QED BY <1>1, <2>2, <2>3, <2>4
<1>3. Reconstruct(t) = table[n]
  BY DEF Reconstruct, RenewedEntry
<1> HIDE DEF from
<1>4. n \in Nat /\ n <= Len(t.active) /\ \A k \in 1 .. n : from + k \in 1 .. Len(t.active)
  BY <1>1, <1>2
<1> HIDE DEF n
<1>5. t \in Renewing(t, from, 0)
  <2>1. Grown(t, t, 0)
    BY GrownNot
  <2>2. \A j \in from + 1 .. Len(t.active) : j \in 1 .. Len(t.active) /\ j > from
    BY <1>1, <1>2
  <2> QED BY <1>1, <1>2, <2>1, <2>2 DEF Renewing
<1>6. ASSUME NEW k \in 1 .. n, NEW x \in Renewing(t, from, k - 1)
      PROVE  RenewedEntry(x, from + k) \in Renewing(t, from, k)
  <2> DEFINE i == from + k
             v == RenewedEntry(x, i)
  <2>1. /\ Grown(x, t, k - 1) /\ Len(x.active) = Len(t.active) /\ Good(x)
        /\ \A j \in from + 1 .. Len(t.active) : x.active[j] # Marker
    BY <1>6 DEF Renewing, Grown
  <2>2. i \in 1 .. Len(x.active) /\ i \in from + 1 .. Len(t.active)
    BY <1>1, <1>2, <1>4, <2>1
  <2>3. Cardinality(Free(x)) >= 1
    <3>1. Cardinality(Free(x)) \in Nat /\ Cardinality(Free(t)) <= Cardinality(Free(x)) + (k - 1)
      BY <2>1, FreeFinite DEF Grown
    <3> QED BY <1>1, <1>4, <3>1
  <2> HIDE DEF i
  <2>4. /\ Good(v) /\ Grown(v, x, 1) /\ Len(v.active) = Len(x.active)
        /\ \A j \in 1 .. Len(x.active) : v.active[j] = Marker <=> x.active[j] = Marker
    BY <2>1, <2>2, <2>3, RenewedEntryIs
  <2> HIDE DEF v
  <2>5. Grown(v, t, (k - 1) + 1)
    BY <2>1, <2>4, GrownOn
  <2>6. (k - 1) + 1 = k
    BY <1>4
  <2>7. v \in Trees
    BY <2>4 DEF Good
  <2>8. \A j \in from + 1 .. Len(t.active) : v.active[j] # Marker
    <3>1. \A j \in from + 1 .. Len(t.active) : j \in 1 .. Len(x.active)
      BY <1>1, <1>2, <2>1
    <3> QED BY <2>1, <2>4, <3>1
  <2>9. v \in Renewing(t, from, k)
    BY <2>1, <2>4, <2>5, <2>6, <2>7, <2>8 DEF Renewing
  <2> QED BY <2>9 DEF v, i
<1>7. Leads(n, A, t, Step)
  <2>1. t \in A[0]
    BY <1>4, <1>5
  <2>2. ASSUME NEW k \in 1 .. n, NEW x \in A[k - 1] PROVE Step[k][x] \in A[k]
    <3>1. k - 1 \in 0 .. n /\ k \in 0 .. n
      BY <1>4
    <3>2. x \in Renewing(t, from, k - 1) /\ x \in Trees
      BY <2>2, <3>1 DEF Renewing
    <3>3. Step[k][x] = RenewedEntry(x, from + k)
      BY <3>2
    <3> QED BY <1>6, <3>1, <3>2, <3>3
  <2> HIDE DEF A, Step
  <2> QED BY <2>1, <2>2 DEF Leads
<1>8. \A k \in 1 .. n : \A x \in A[k - 1] : Step[k][x] = RenewedEntry(x, from + k)
  <2> SUFFICES ASSUME NEW k \in 1 .. n, NEW x \in A[k - 1]
               PROVE  Step[k][x] = RenewedEntry(x, from + k)
    OBVIOUS
  <2>1. k - 1 \in 0 .. n
    BY <1>4
  <2>2. x \in Trees
    BY <2>1 DEF Renewing
  <2> QED BY <2>2
<1>9. table = Body(table)
  <2>1. PICK f : IsTable(f, n, t, Step) /\ \A i \in 0 .. n : f[i] \in A[i]
    <3> HIDE DEF A, Step
    <3> QED BY <1>4, <1>7, TableOf
  <2>2. f = Body(f)
    <3>1. \A k \in 1 .. n : k - 1 \in 0 .. n
      BY <1>4
    <3>2. \A k \in 1 .. n : Step[k][f[k - 1]] = RenewedEntry(f[k - 1], from + k)
      <4> HIDE DEF A, Step
      <4> QED BY <1>8, <2>1, <3>1
    <3>3. \A k \in 0 .. n : k # 0 => k \in 1 .. n
      BY <1>4
    <3> HIDE DEF Step
    <3> QED BY <2>1, <3>2, <3>3 DEF IsTable
  <2> HIDE DEF Body
  <2> QED BY <2>2
<1> HIDE DEF table
<1>10. \A i \in 0 .. n : table[i] \in A[i]
  <2>1. table[0] = t
    BY <1>4, <1>9
  <2>2. \A k \in 1 .. n : table[k] = RenewedEntry(table[k - 1], from + k)
    <3>1. \A k \in 1 .. n : k \in 0 .. n /\ k # 0
      BY <1>4
    <3> QED BY <1>9, <3>1
  <2>3. \A k \in 1 .. n : table[k - 1] \in A[k - 1] => table[k] = Step[k][table[k - 1]]
    <3> HIDE DEF A, Step
    <3> QED BY <1>8, <2>2
  <2> HIDE DEF A, Step
  <2> QED BY <1>4, <1>7, <2>1, <2>3, TableIn
<1>11. table[n] \in Renewing(t, from, n)
  BY <1>4, <1>10
<1>12. Grown(table[n], t, n) /\ Len(table[n].active) = Len(t.active)
  BY <1>11 DEF Renewing
<1>13. Grown(table[n], t, Len(t.active))
  <2>1. Len(table[n].open) \in Nat /\ Cardinality(Free(table[n])) \in Nat
    BY <1>12, GoodFields, FreeFinite DEF Grown
  <2>2. /\ Len(table[n].open) <= Len(t.open) + n
        /\ Cardinality(Free(t)) <= Cardinality(Free(table[n])) + n
    BY <1>12 DEF Grown
  <2>3. /\ Len(table[n].open) <= Len(t.open) + Len(t.active)
        /\ Cardinality(Free(t)) <= Cardinality(Free(table[n])) + Len(t.active)
    BY <1>1, <1>4, <2>1, <2>2, MoreAndMore
  <2> QED BY <1>1, <1>12, <2>3 DEF Grown
<1> QED BY <1>3, <1>12, <1>13

-----------------------------------------------------------------------------
(* New entries.                                                            *)

\* The list grows by one entry at most, whether or not an equal one leaves.
LEMMA PushWithCheckIs ==
    ASSUME NEW t, Good(t), t.tag[Current(t)] \in AnyFormatting,
           \A i \in 1 .. Len(t.active) : t.active[i] # Current(t)
    PROVE  LET u == PushWithCheck(t)
           IN  Grown(u, t, 0) /\ u.open = t.open /\ Len(u.active) <= Len(t.active) + 1
<1> DEFINE n == Current(t)
           equal == {i \in DOMAIN t.active : /\ i > LastAt(t.active, Marker)
                                             /\ t.tag[t.active[i]] = t.tag[n]}
           left == IF Cardinality(equal) >= MaxEqual THEN RemoveAt(t.active, Min(equal))
                   ELSE t.active
           q == Append(left, n)
<1>1. /\ Len(t.active) \in Nat /\ DOMAIN t.active = 1 .. Len(t.active) /\ n \in Node
      /\ t.active \in Seq(Node \cup {Marker}) /\ Listed(t.active, t.tag)
  BY GoodFields DEF Good
<1>2. PushWithCheck(t) = [t EXCEPT !.active = q]
  BY DEF PushWithCheck
<1>3. /\ Listed(left, t.tag) /\ Len(left) \in Nat /\ Len(left) <= Len(t.active)
      /\ \A i \in 1 .. Len(left) : left[i] # n
  <2>1. CASE Cardinality(equal) >= MaxEqual
    <3> DEFINE k == Min(equal)
    <3>1. equal # {}
      <4>1. Cardinality(equal) # 0
        BY <2>1 DEF MaxEqual
      <4> QED BY <4>1, FS_EmptySet
    <3>2. equal \in SUBSET Nat /\ equal \subseteq 1 .. Len(t.active)
      BY <1>1
    <3> HIDE DEF equal
    <3>3. k \in equal
      BY <3>1, <3>2, MinIs
    <3>4. k \in 1 .. Len(t.active)
      BY <3>2, <3>3
    <3> HIDE DEF k
    <3>5. /\ RemoveAt(t.active, k) \in Seq(Node \cup {Marker})
          /\ Shortened(RemoveAt(t.active, k), t.active, k)
      BY <1>1, <3>4, RemoveAtIs
    <3>6. left = RemoveAt(t.active, k)
      BY <2>1 DEF k
    <3> HIDE DEF left
    <3>7. Listed(left, t.tag)
      BY <1>1, <3>4, <3>5, <3>6, ListedShortened
    <3>8. Len(left) \in Nat /\ Len(left) = Len(t.active) - 1
      BY <1>1, <3>4, <3>5, <3>6 DEF Shortened
    <3>9. \A i \in 1 .. Len(left) : left[i] # n
      <4>1. \A i \in 1 .. Len(left) : /\ i \in 1 .. Len(t.active) /\ i + 1 \in 1 .. Len(t.active)
                                      /\ left[i] = IF i < k THEN t.active[i] ELSE t.active[i + 1]
        BY <1>1, <3>5, <3>6, <3>8 DEF Shortened
      <4> QED BY <4>1
    <3> QED BY <1>1, <3>7, <3>8, <3>9
  <2>2. CASE ~ (Cardinality(equal) >= MaxEqual)
    <3>1. left = t.active
      BY <2>2
    <3> HIDE DEF left
    <3> QED BY <1>1, <3>1
  <2> QED BY <2>1, <2>2
<1> HIDE DEF left, n
<1>4. Listed(q, t.tag)
  BY <1>1, <1>3, ListedAppended DEF n
<1>5. Len(q) = Len(left) + 1
  <2>1. left \in Seq(Node \cup {Marker}) /\ n \in Node \cup {Marker}
    BY <1>1, <1>3 DEF Listed
  <2> QED BY <2>1
<1>6. Len(q) <= Len(t.active) + 1
  BY <1>1, <1>3, <1>5
<1> HIDE DEF q
<1> QED BY <1>2, <1>4, <1>6, GrownActive

\* The entries opened anew, and one more element.
LEMMA OpenedIs ==
    ASSUME NEW t, Good(t), Cardinality(Free(t)) >= Len(t.active) + 1,
           NEW g \in Tag, g # "table"
    PROVE  LET u == InsertElement(Reconstruct(t), g)
           IN  /\ Grown(u, t, Len(t.active) + 1) /\ Len(u.active) = Len(t.active)
               /\ Current(u) \in Node /\ u.tag[Current(u)] = g
               /\ \A i \in 1 .. Len(u.active) : u.active[i] # Current(u)
<1> DEFINE r == Reconstruct(t)
           u == InsertElement(r, g)
<1>1. Len(t.active) \in Nat /\ Cardinality(Free(t)) \in Nat
  BY GoodFields, FreeFinite
<1>2. Cardinality(Free(t)) >= Len(t.active)
  BY <1>1
<1>3. Grown(r, t, Len(t.active)) /\ Len(r.active) = Len(t.active)
  BY <1>2, ReconstructIs
<1> HIDE DEF r
<1>4. Good(r) /\ Cardinality(Free(r)) \in Nat
      /\ Cardinality(Free(t)) <= Cardinality(Free(r)) + Len(t.active)
  BY <1>3, FreeFinite DEF Grown
<1>5. Cardinality(Free(r)) >= 1
  <2>1. \A a, b, c \in Nat : a >= b + 1 /\ a <= c + b => c >= 1
    OBVIOUS
  <2> QED BY <1>1, <1>4, <2>1
<1>6. /\ Good(u) /\ Grown(u, r, 1) /\ u.active = r.active /\ Current(u) = Fresh(r)
      /\ Fresh(r) \in Node /\ u.tag[Fresh(r)] = g
      /\ \A i \in 1 .. Len(r.active) : r.active[i] # Fresh(r)
  BY <1>4, <1>5, InsertedGrown
<1> HIDE DEF u
<1>7. Grown(u, t, Len(t.active) + 1)
  BY <1>3, <1>6, GrownOn
<1> QED BY <1>3, <1>6, <1>7 DEF u, r

\* A formatting element: all entries anew, one element, one entry.
LEMMA StartFormattingIs ==
    ASSUME NEW t, Good(t), Cardinality(Free(t)) >= Len(t.active) + 1,
           NEW g \in AnyFormatting
    PROVE  LET u == StartFormatting(t, g)
           IN  Grown(u, t, Len(t.active) + 1) /\ Len(u.active) <= Len(t.active) + 1
<1> DEFINE s == InsertElement(Reconstruct(t), g)
           u == PushWithCheck(s)
<1>1. StartFormatting(t, g) = u
  BY DEF StartFormatting
<1>2. g \in Tag /\ g # "table"
  BY TagsAre
<1>3. /\ Grown(s, t, Len(t.active) + 1) /\ Len(s.active) = Len(t.active)
      /\ Current(s) \in Node /\ s.tag[Current(s)] = g
      /\ \A i \in 1 .. Len(s.active) : s.active[i] # Current(s)
  BY <1>2, OpenedIs
<1> HIDE DEF s
<1>4. Grown(u, s, 0) /\ Len(u.active) <= Len(s.active) + 1
  BY <1>3, PushWithCheckIs DEF Grown
<1> HIDE DEF u
<1>5. Grown(u, t, (Len(t.active) + 1) + 0)
  BY <1>3, <1>4, GrownOn
<1>6. Len(t.active) \in Nat /\ (Len(t.active) + 1) + 0 = Len(t.active) + 1
  BY GoodFields
<1> QED BY <1>1, <1>3, <1>4, <1>5, <1>6

\* An object: all entries anew, one element, and a marker.
LEMMA StartObjectIs ==
    ASSUME NEW t, Good(t), Cardinality(Free(t)) >= Len(t.active) + 1
    PROVE  LET u == InsertElement(Reconstruct(t), "object")
           IN  Grown([u EXCEPT !.active = Append(@, Marker)], t, Len(t.active) + 1)
<1> DEFINE s == InsertElement(Reconstruct(t), "object")
           u == [s EXCEPT !.active = Append(s.active, Marker)]
<1>1. "object" \in Tag /\ "object" # "table"
  BY DEF Tag, Special
<1>2. Grown(s, t, Len(t.active) + 1)
  BY <1>1, OpenedIs
<1>3. [s EXCEPT !.active = Append(@, Marker)] = u
  OBVIOUS
<1> HIDE DEF s
<1>4. Good(s) /\ Listed(s.active, s.tag)
  BY <1>2 DEF Grown, Good
<1>5. Listed(Append(s.active, Marker), s.tag)
  BY <1>4, ListedAppended
<1>6. Grown(u, s, 0)
  BY <1>4, <1>5, GrownActive
<1> HIDE DEF u
<1>7. Grown(u, t, (Len(t.active) + 1) + 0)
  BY <1>2, <1>6, GrownOn
<1>8. Len(t.active) \in Nat /\ (Len(t.active) + 1) + 0 = Len(t.active) + 1
  BY GoodFields
<1> QED BY <1>3, <1>7, <1>8 DEF s, u

-----------------------------------------------------------------------------
(* Forgetting what nothing points at any more.                             *)

Used(t) == {n \in Node : t.tag[n] # NULL}

\* Every element is used or free.
LEMMA UsedAndFree ==
    ASSUME NEW t
    PROVE  /\ IsFiniteSet(Used(t)) /\ Cardinality(Used(t)) \in Nat
           /\ Cardinality(Node) \in Nat
           /\ Cardinality(Free(t)) + Cardinality(Used(t)) = Cardinality(Node)
<1>1. IsFiniteSet(Node) /\ Used(t) \subseteq Node /\ Free(t) = Node \ Used(t)
  BY NodeAssumption DEF Free, Used
<1>2. IsFiniteSet(Used(t))
  BY <1>1, FS_Subset
<1>3. Cardinality(Node \ Used(t)) = Cardinality(Node) - Cardinality(Node \cap Used(t))
  BY <1>1, <1>2, FS_Difference
<1>4. Node \cap Used(t) = Used(t)
  BY <1>1
<1>5. Cardinality(Used(t)) \in Nat /\ Cardinality(Node) \in Nat
  BY <1>1, <1>2, FS_CardinalityType
<1>6. Cardinality(Free(t)) = Cardinality(Node) - Cardinality(Used(t))
  BY <1>1, <1>3, <1>4
<1>7. Cardinality(Free(t)) + Cardinality(Used(t)) = Cardinality(Node)
  BY <1>5, <1>6
<1> QED BY <1>2, <1>5, <1>7

\* The known of Settled.
Known(t, kept) == Elements(t.open) \cup Elements(t.active) \cup ({kept} \ {NULL})

\* A list has no more elements than places.
LEMMA ElementsAre ==
    ASSUME NEW s \in Seq(Node \cup {Marker})
    PROVE  /\ Elements(s) = {s[i] : i \in 1 .. Len(s)} \ {Marker, NULL}
           /\ Elements(s) \in SUBSET Node /\ IsFiniteSet(Elements(s))
           /\ Cardinality(Elements(s)) \in Nat /\ Cardinality(Elements(s)) <= Len(s)
           /\ \A i \in 1 .. Len(s) : s[i] # Marker => s[i] \in Elements(s)
<1> DEFINE E == {s[i] : i \in 1 .. Len(s)}
<1>1. Len(s) \in Nat /\ DOMAIN s = 1 .. Len(s) /\ \A i \in 1 .. Len(s) : s[i] \in Node \cup {Marker}
  OBVIOUS
<1>2. Elements(s) = E \ {Marker, NULL}
  BY <1>1 DEF Elements, ToSet
<1>3. Elements(s) \in SUBSET Node /\ \A i \in 1 .. Len(s) : s[i] # Marker => s[i] \in Elements(s)
  BY <1>1, <1>2, NodeAssumption
<1>4. IsFiniteSet(E) /\ Cardinality(E) <= Len(s) /\ Cardinality(E) \in Nat
  <2>1. IsFiniteSet(1 .. Len(s)) /\ Cardinality(1 .. Len(s)) = Len(s)
    <3>1. Cardinality(1 .. Len(s)) = IF 1 <= Len(s) THEN Len(s) - 1 + 1 ELSE 0
      BY <1>1, FS_Interval
    <3>2. IsFiniteSet(1 .. Len(s))
      BY <1>1, FS_Interval
    <3> QED BY <1>1, <3>1, <3>2
  <2> DEFINE f == [i \in 1 .. Len(s) |-> s[i]]
  <2>2. f \in Surjection(1 .. Len(s), E)
    BY DEF Surjection
  <2> HIDE DEF f
  <2>3. IsFiniteSet(E) /\ Cardinality(E) <= Cardinality(1 .. Len(s))
    <3> HIDE DEF E
    <3> QED BY <2>1, <2>2, FS_Surjection
  <2> QED BY <1>1, <2>1, <2>3, FS_CardinalityType
<1>5. IsFiniteSet(Elements(s)) /\ Cardinality(Elements(s)) <= Cardinality(E)
  BY <1>2, <1>4, FS_Subset
<1>6. Cardinality(Elements(s)) \in Nat
  BY <1>5, FS_CardinalityType
<1>7. Cardinality(Elements(s)) <= Len(s)
  <2> HIDE DEF E
  <2> QED BY <1>1, <1>4, <1>5, <1>6
<1> QED BY <1>2, <1>3, <1>5, <1>6, <1>7

\* What the parser can know is no more than its lists hold.
LEMMA KnownFew ==
    ASSUME NEW t, Good(t), NEW kept \in Node \cup {NULL},
           \A n \in Node : t.tag[n] # NULL => n \in Known(t, kept)
    PROVE  /\ Cardinality(Node) <= Cardinality(Free(t)) + Len(t.open) + Len(t.active) + 1
           /\ kept = NULL =>
                 Cardinality(Node) <= Cardinality(Free(t)) + Len(t.open) + Len(t.active)
<1> DEFINE O == Elements(t.open)
           A == Elements(t.active)
           K == {kept} \ {NULL}
<1>1. t.open \in Seq(Node \cup {Marker}) /\ t.active \in Seq(Node \cup {Marker})
      /\ Len(t.open) \in Nat /\ Len(t.active) \in Nat
  <2>1. t.open \in Seq(Node) /\ t.active \in Seq(Node \cup {Marker})
    BY GoodFields
  <2> QED BY <2>1
<1>2. /\ IsFiniteSet(O) /\ Cardinality(O) \in Nat /\ Cardinality(O) <= Len(t.open)
      /\ IsFiniteSet(A) /\ Cardinality(A) \in Nat /\ Cardinality(A) <= Len(t.active)
  BY <1>1, ElementsAre
<1> HIDE DEF O, A
<1>3. /\ IsFiniteSet(O \cup A) /\ Cardinality(O \cup A) \in Nat
      /\ Cardinality(O \cup A) <= Cardinality(O) + Cardinality(A)
  <2>1. IsFiniteSet(O \cup A) /\ IsFiniteSet(O \cap A)
    BY <1>2, FS_Union, FS_Subset
  <2>2. Cardinality(O \cup A) = Cardinality(O) + Cardinality(A) - Cardinality(O \cap A)
    BY <1>2, FS_Union
  <2>3. Cardinality(O \cup A) \in Nat /\ Cardinality(O \cap A) \in Nat
    BY <2>1, FS_CardinalityType
  <2> QED BY <1>2, <2>1, <2>2, <2>3
<1>4. Used(t) \subseteq (O \cup A) \cup K
  BY DEF Used, Known, O, A
<1>5. IsFiniteSet((O \cup A) \cup {kept})
      /\ Cardinality((O \cup A) \cup {kept}) <= Cardinality(O \cup A) + 1
      /\ Cardinality((O \cup A) \cup {kept}) \in Nat
  <2>1. /\ IsFiniteSet((O \cup A) \cup {kept})
        /\ Cardinality((O \cup A) \cup {kept}) =
              IF kept \in O \cup A THEN Cardinality(O \cup A) ELSE Cardinality(O \cup A) + 1
    BY <1>3, FS_AddElement
  <2> QED BY <1>3, <2>1
<1>6. Cardinality(Used(t)) <= Cardinality((O \cup A) \cup {kept})
  <2>1. Used(t) \subseteq (O \cup A) \cup {kept}
    BY <1>4
  <2> QED BY <1>5, <2>1, FS_Subset
<1>7. kept = NULL => Cardinality(Used(t)) <= Cardinality(O \cup A)
  BY <1>3, <1>4, FS_Subset
<1>8. /\ Cardinality(Used(t)) \in Nat /\ Cardinality(Free(t)) \in Nat /\ Cardinality(Node) \in Nat
      /\ Cardinality(Free(t)) + Cardinality(Used(t)) = Cardinality(Node)
  BY UsedAndFree, FreeFinite
<1> HIDE DEF K
<1> DEFINE oa == Cardinality(O \cup A)
           oak == Cardinality((O \cup A) \cup {kept})
           used == Cardinality(Used(t))
           free == Cardinality(Free(t))
           all == Cardinality(Node)
           lo == Len(t.open)
           la == Len(t.active)
<1>12. /\ oa \in Nat /\ oak \in Nat /\ used \in Nat /\ free \in Nat /\ all \in Nat
       /\ lo \in Nat /\ la \in Nat
  BY <1>1, <1>3, <1>5, <1>8
<1>13. oak <= oa + 1 /\ used <= oak /\ (kept = NULL => used <= oa) /\ free + used = all
  BY <1>5, <1>6, <1>7, <1>8
<1>9. oa <= lo + la
  <2> DEFINE co == Cardinality(O)
             ca == Cardinality(A)
  <2>1. co \in Nat /\ ca \in Nat /\ co <= lo /\ ca <= la /\ oa <= co + ca
    BY <1>2, <1>3
  <2> HIDE DEF co, ca, oa, lo, la
  <2> QED BY <1>12, <2>1
<1> HIDE DEF oa, oak, used, free, all, lo, la
<1>10. all <= free + lo + la + 1
  BY <1>9, <1>12, <1>13
<1>11. kept = NULL => all <= free + lo + la
  BY <1>9, <1>12, <1>13
<1> QED BY <1>10, <1>11 DEF all, free, lo, la

\* Forgetting leaves both lists as they are, and a good tree: the links among what
\* stays tell what all of them told.
LEMMA SettledIs ==
    ASSUME NEW t, Good(t), NEW kept \in Node \cup {NULL}
    PROVE  LET u == Settled(t, kept)
           IN  /\ Good(u) /\ u.open = t.open /\ u.active = t.active
               /\ \A n \in Node : u.tag[n] = IF n \in Known(t, kept) THEN t.tag[n] ELSE NULL
               /\ Known(u, kept) = Known(t, kept)
<1> DEFINE known == Known(t, kept)
           tags == [n \in Node |-> IF n \in known THEN t.tag[n] ELSE NULL]
           links == Joining(t.above, known)
           u == Settled(t, kept)
<1>1. /\ t.open \in Seq(Node) /\ t.active \in Seq(Node \cup {Marker})
      /\ t.open \in Seq(Node \cup {Marker})
      /\ Len(t.open) \in Nat /\ Len(t.active) \in Nat
      /\ t.tag \in [Node -> Tag \cup {NULL}] /\ t.above \in Links /\ Ranked(t.above)
      /\ \A i \in 1 .. Len(t.open) : t.open[i] \in Node /\ t.tag[t.open[i]] # NULL
      /\ \A i \in 1 .. Len(t.active) : t.active[i] # Marker =>
            t.active[i] \in Node /\ t.tag[t.active[i]] # NULL
      /\ t = [open |-> t.open, active |-> t.active, tag |-> t.tag, above |-> t.above]
  <2>1. t.open \in Seq(Node)
    BY GoodFields
  <2>2. t.open \in Seq(Node \cup {Marker})
    BY <2>1
  <2> QED BY <2>2, GoodFields
<1>2. /\ Joined(t.tag, t.above) /\ Stacked(t.open, t.tag, t.above)
      /\ Nested(t.open, t.tag, t.above) /\ Listed(t.active, t.tag)
  BY DEF Good
<1>3. /\ known \in SUBSET Node
      /\ \A i \in 1 .. Len(t.open) : t.open[i] \in known
      /\ \A i \in 1 .. Len(t.active) : t.active[i] # Marker => t.active[i] \in known
  <2>1. /\ Elements(t.open) \in SUBSET Node /\ Elements(t.active) \in SUBSET Node
        /\ \A i \in 1 .. Len(t.open) : t.open[i] # Marker => t.open[i] \in Elements(t.open)
        /\ \A i \in 1 .. Len(t.active) : t.active[i] # Marker => t.active[i] \in Elements(t.active)
    BY <1>1, ElementsAre
  <2>2. \A i \in 1 .. Len(t.open) : t.open[i] # Marker
    BY <1>1, NodeAssumption
  <2> QED BY <2>1, <2>2 DEF Known
<1>4. u = [open |-> t.open, active |-> t.active, tag |-> tags, above |-> links]
  <2>1. u = [t EXCEPT !.tag = tags, !.above = links]
    BY <1>1 DEF Settled, Known, Joining
  <2> HIDE DEF u, tags, links
  <2> QED BY <1>1, <2>1
<1>5. u.open = t.open /\ u.active = t.active /\ u.tag = tags /\ u.above = links
  BY <1>4
<1> HIDE DEF u, known
<1>6. /\ Ranked(links)
      /\ \A n \in Node : links[n] # NULL => /\ n \in known /\ links[n] \in known
                                            /\ links[n] \in Around(t.above, n) \ {n}
      /\ \A n, m \in known : m \in Around(links, n) <=> m \in Around(t.above, n)
      /\ \A n, m \in known : m \in Around(t.above, n) /\ m # n => links[n] # NULL
  BY <1>1, <1>3, JoiningIs
<1>7. links \in Links /\ tags \in [Node -> Tag \cup {NULL}]
      /\ \A n \in known : tags[n] = t.tag[n]
  BY <1>1, <1>3, <1>6 DEF Ranked
<1>8. \A n \in Node : n \notin known => tags[n] = NULL
  OBVIOUS
<1> HIDE DEF tags, links
<1>9. Joined(tags, links)
  <2>1. ASSUME NEW n \in Node, links[n] # NULL PROVE tags[n] # NULL /\ tags[links[n]] # NULL
    <3>1. n \in known /\ links[n] \in known /\ links[n] \in Around(t.above, n) /\ links[n] # n
      BY <1>6, <2>1
    <3>2. t.above[n] # NULL
      <4>1. t.above[n] = NULL => Around(t.above, n) = {n}
        BY <1>1, AroundIs
      <4> QED BY <3>1, <4>1
    <3>3. t.tag[n] # NULL
      BY <1>2, <3>2 DEF Joined
    <3>4. t.tag[links[n]] # NULL
      BY <1>2, <3>1, <3>3, AroundTagged
    <3> QED BY <1>7, <3>1, <3>3, <3>4
  <2> QED BY <1>6, <1>7, <2>1 DEF Joined
<1>10. \A i \in 1 .. Len(t.open) : tags[t.open[i]] = t.tag[t.open[i]]
  BY <1>3, <1>7
<1>11. Stacked(t.open, tags, links)
  <2>1. \A i, j \in 1 .. Len(t.open) :
           i < j /\ tags[t.open[i]] = "table" => t.open[j] \notin Around(links, t.open[i])
    BY <1>2, <1>3, <1>6, <1>10 DEF Stacked
  <2> QED BY <1>2, <1>10, <2>1 DEF Stacked
<1>12. Nested(t.open, tags, links)
  <2>1. SUFFICES ASSUME NEW i \in 1 .. Len(t.open), NEW j \in 1 .. Len(t.open), i < j
                 PROVE  Inside(tags, links, t.open[i], t.open[j])
    BY DEF Nested
  <2> DEFINE x == t.open[i]
             y == t.open[j]
  <2>2. x \in known /\ y \in known /\ x \in Node /\ y \in Node /\ x # y /\ tags[x] = t.tag[x]
    <3>1. x # y
      BY <1>2, <2>1 DEF Stacked
    <3> QED BY <1>1, <1>3, <1>10, <3>1
  <2>3. Inside(t.tag, t.above, x, y)
    BY <1>2, <2>1 DEF Nested
  <2>4. ASSUME x \in Around(t.above, y) PROVE Inside(tags, links, x, y)
    BY <1>6, <2>2, <2>4 DEF Inside
  <2>5. ASSUME t.tag[x] = "table", t.above[x] \in Around(t.above, y), x \notin Around(t.above, y)
        PROVE  Inside(tags, links, x, y)
    <3>1. i # 1
      BY <1>2, <2>5, TagsAre DEF Stacked
    <3>2. i - 1 \in 1 .. Len(t.open) /\ i - 1 < i
      BY <1>1, <3>1
    <3> DEFINE b == t.open[i - 1]
    <3>3. b \in known /\ b # x /\ b \in Node
      <4>1. b # x
        BY <1>2, <3>2 DEF Stacked
      <4> QED BY <1>1, <1>3, <3>2, <4>1
    <3>4. b \in Around(t.above, x)
      <4>1. Inside(t.tag, t.above, b, x)
        BY <1>2, <3>2 DEF Nested
      <4>2. t.tag[b] # "table"
        BY <1>2, <2>5, <3>2 DEF Stacked
      <4> QED BY <4>1, <4>2 DEF Inside
    <3> HIDE DEF x, y, b
    <3>5. links[x] # NULL /\ links[x] \in known /\ links[x] \in Around(t.above, x) /\ links[x] # x
      BY <1>6, <2>2, <3>3, <3>4
    <3>6. t.above[x] # NULL /\ t.above[x] \in Node
          /\ Around(t.above, x) = {x} \cup Around(t.above, t.above[x])
      <4>1. t.above[x] = NULL => Around(t.above, x) = {x}
        BY <1>1, <2>2, AroundIs
      <4>2. t.above[x] # NULL
        BY <3>5, <4>1
      <4> QED BY <1>1, <2>2, <4>2, AroundIs
    <3>7. links[x] \in Around(t.above, t.above[x])
      BY <3>5, <3>6
    <3>8. Around(t.above, t.above[x]) \subseteq Around(t.above, y)
      BY <1>1, <2>2, <2>5, AroundIs
    <3>9. links[x] \in Around(links, y)
      BY <1>6, <2>2, <3>5, <3>7, <3>8
    <3> QED BY <2>2, <2>5, <3>9 DEF Inside
  <2> HIDE DEF x, y
  <2>6. Inside(tags, links, x, y)
    BY <2>3, <2>4, <2>5 DEF Inside
  <2> QED BY <2>6 DEF x, y
<1>13. Listed(t.active, tags)
  BY <1>2, <1>3, <1>7, ListedSame
<1>14. Good(u)
  <2>1. u \in Trees
    BY <1>1, <1>4, <1>7 DEF Trees
  <2> QED BY <1>5, <1>9, <1>11, <1>12, <1>13, <2>1 DEF Good
<1>15. \A n \in Node : u.tag[n] = IF n \in known THEN t.tag[n] ELSE NULL
  BY <1>5, <1>7, <1>8
<1>16. Known(u, kept) = known
  BY <1>5 DEF Known, known
<1> QED BY <1>5, <1>14, <1>15, <1>16 DEF u, known

-----------------------------------------------------------------------------
(* Links that move.                                                        *)

\* x goes into y, which is not inside x: who has x around it follows, the others stay
\* as they were.
LEMMA LinkMoved ==
    ASSUME NEW above, Ranked(above), NEW x \in Node, NEW y \in Node, x \notin Around(above, y)
    PROVE  LET links == [above EXCEPT ![x] = y]
           IN  /\ Ranked(links) /\ Around(links, x) = {x} \cup Around(above, y)
               /\ \A z \in Node : x \notin Around(above, z) => Around(links, z) = Around(above, z)
               /\ \A z \in Node : \A w \in Around(above, z) :
                     x \in Around(above, w) => w \in Around(links, z)
<1> DEFINE links == [above EXCEPT ![x] = y]
<1>1. Ranked(links) /\ above \in Links /\ NULL \notin Node
  BY RankMoved, NodeAssumption DEF Ranked
<1>2. links[x] = y /\ \A z \in Node : z # x => links[z] = above[z]
  BY <1>1 DEF Links
<1> HIDE DEF links
<1>3. ASSUME NEW z \in Node, x \notin Around(above, z) PROVE Around(links, z) = Around(above, z)
  <2>1. \A w \in Around(above, z) : w \in Node /\ w # x
    BY <1>3, AroundIs
  <2>2. \A w \in Around(above, z) : links[w] = above[w]
    BY <1>2, <2>1
  <2> QED BY <1>1, <2>2, AroundSame
<1>4. Around(links, x) = {x} \cup Around(above, y)
  <2>1. Around(links, y) = Around(above, y)
    BY <1>3
  <2>2. links[x] # NULL
    BY <1>1, <1>2
  <2>3. Around(links, x) = {x} \cup Around(links, links[x])
    BY <1>1, <2>2, AroundIs
  <2> QED BY <1>2, <2>1, <2>3
<1>5. ASSUME NEW z \in Node, NEW w \in Around(above, z), x \in Around(above, w)
      PROVE  w \in Around(links, z)
  <2>1. w \in Node
    BY AroundIs
  <2>2. ASSUME NEW v \in Around(above, z), w \in Around(above, v), v # w
        PROVE  links[v] = above[v]
    <3>1. v \in Node
      BY AroundIs
    <3>2. v # x
      <4>1. \A m \in Around(above, x) : x \in Around(above, m) => m = x
        BY AroundIs
      <4> QED BY <1>5, <2>2, <4>1
    <3> QED BY <1>2, <3>1, <3>2
  <2> QED BY <1>1, <2>2, PathKept
<1> QED BY <1>1, <1>3, <1>4, <1>5 DEF links

\* x, which nothing is in, comes between y and what is in y.
LEMMA LinkBetween ==
    ASSUME NEW above, Ranked(above), NEW x \in Node, NEW y \in Node, x # y,
           above[x] = NULL, \A n \in Node : above[n] # x
    PROVE  LET links == Between(above, x, y)
           IN  /\ Ranked(links) /\ links[x] = y /\ Around(links, x) = {x} \cup Around(links, y)
               /\ \A z \in Node : Around(above, z) \subseteq Around(links, z)
               /\ \A z \in Node : z # x /\ y \notin Around(above, z) =>
                     Around(links, z) = Around(above, z) /\ links[z] = above[z]
               /\ \A z \in Node : z # y /\ y \in Around(above, z) => x \in Around(links, z)
<1> DEFINE links == Between(above, x, y)
<1>1. Ranked(links) /\ above \in Links /\ NULL \notin Node
  BY RankBetween, NodeAssumption DEF Ranked
<1>2. \A n \in Node : links[n] = IF n = x THEN y ELSE IF above[n] = y THEN x ELSE above[n]
  BY DEF Between
<1> HIDE DEF links
<1>3. links[x] = y /\ links[x] # NULL
  BY <1>1, <1>2
<1>4. Around(links, x) = {x} \cup Around(links, y)
  <2>1. Around(links, x) = {x} \cup Around(links, links[x])
    BY <1>1, <1>3, AroundIs
  <2> QED BY <1>3, <2>1
<1>5. ASSUME NEW z \in Node PROVE Around(above, z) \subseteq Around(links, z)
  <2> DEFINE C == Around(links, z)
  <2>1. C \in SUBSET Node /\ z \in C /\ Upward(links, C)
    BY <1>1, AroundIs
  <2> HIDE DEF C
  <2>2. ASSUME NEW m \in C, above[m] # NULL PROVE above[m] \in C
    <3>1. m \in Node /\ m # x
      BY <2>1, <2>2
    <3>2. CASE above[m] = y
      <4>1. links[m] = x
        BY <1>2, <3>1, <3>2
      <4>2. x \in C
        BY <1>1, <2>1, <4>1 DEF Upward
      <4> QED BY <1>3, <2>1, <3>2, <4>2 DEF Upward
    <3>3. CASE above[m] # y
      <4>1. links[m] = above[m]
        BY <1>2, <3>1, <3>3
      <4> QED BY <2>1, <2>2, <4>1 DEF Upward
    <3> QED BY <3>2, <3>3
  <2>3. Upward(above, C)
    BY <2>2 DEF Upward
  <2>4. Around(above, z) \subseteq C
    BY <2>1, <2>3, AroundLeast
  <2> QED BY <2>4 DEF C
<1>6. ASSUME NEW z \in Node, z # x, y \notin Around(above, z)
      PROVE  Around(links, z) = Around(above, z) /\ links[z] = above[z]
  <2>1. \A w \in Around(above, z) : links[w] = above[w]
    <3>1. SUFFICES ASSUME NEW w \in Around(above, z) PROVE links[w] = above[w]
      OBVIOUS
    <3>2. w \in Node /\ z \in Around(above, z) /\ Upward(above, Around(above, z))
      BY AroundIs
    <3>3. w # x
      <4>1. SUFFICES ASSUME w = x PROVE FALSE
        OBVIOUS
      <4> DEFINE C == Around(above, z) \ {x}
      <4>2. C \in SUBSET Node /\ z \in C
        BY <1>6, <3>2, AroundIs
      <4>3. Upward(above, C)
        BY <3>2, <4>2 DEF Upward
      <4> HIDE DEF C
      <4>4. Around(above, z) \subseteq C
        BY <4>2, <4>3, AroundLeast
      <4> QED BY <4>1, <4>4 DEF C
    <3>4. above[w] # y
      BY <1>1, <1>6, <3>2 DEF Upward
    <3> QED BY <1>2, <3>2, <3>3, <3>4
  <2>2. Around(links, z) = Around(above, z)
    BY <1>1, <2>1, AroundSame
  <2>3. z \in Around(above, z)
    BY AroundIs
  <2> QED BY <2>1, <2>2, <2>3
<1>7. ASSUME NEW z \in Node, z # y, y \in Around(above, z) PROVE x \in Around(links, z)
  <2>1. SUFFICES ASSUME x \notin Around(links, z) PROVE FALSE
    OBVIOUS
  <2> DEFINE R == Around(links, z)
             C == R \ {y}
  <2>2. R \in SUBSET Node /\ z \in R /\ Upward(links, R) /\ x \notin R
    BY <1>1, <2>1, AroundIs
  <2> HIDE DEF R
  <2>3. ASSUME NEW m \in C, above[m] # NULL PROVE above[m] \in C
    <3>1. m \in Node /\ m # x /\ m \in R
      BY <2>2
    <3>2. above[m] # y
      <4>1. SUFFICES ASSUME above[m] = y PROVE FALSE
        OBVIOUS
      <4>2. links[m] = x /\ x # NULL
        BY <1>1, <1>2, <3>1, <4>1
      <4> QED BY <2>2, <3>1, <4>2 DEF Upward
    <3>3. links[m] = above[m]
      BY <1>2, <3>1, <3>2
    <3> QED BY <2>2, <2>3, <3>1, <3>2, <3>3 DEF Upward
  <2>4. C \in SUBSET Node /\ z \in C
    BY <1>7, <2>2
  <2>5. Upward(above, C)
    BY <2>3 DEF Upward
  <2>6. y \notin C
    OBVIOUS
  <2> HIDE DEF C
  <2>7. Around(above, z) \subseteq C
    BY <2>4, <2>5, AroundLeast
  <2> QED BY <1>7, <2>6, <2>7
<1> QED BY <1>1, <1>3, <1>4, <1>5, <1>6, <1>7 DEF links

-----------------------------------------------------------------------------
(* The inner loop of the algorithm: a gap climbs down the stack. What is   *)
(* above it has been taken out of what is below.                           *)

\* Below place p the stack is a way down the document; from p on it is one of its
\* own, without a table, and not yet put below the rest.
Gapped(u, p) ==
    /\ u \in Trees /\ Joined(u.tag, u.above) /\ Stacked(u.open, u.tag, u.above)
    /\ Listed(u.active, u.tag)
    /\ p \in 2 .. Len(u.open)
    /\ \A i, j \in 1 .. Len(u.open) : i < j /\ j < p =>
          Inside(u.tag, u.above, u.open[i], u.open[j])
    /\ \A i, j \in 1 .. Len(u.open) : p <= i /\ i < j =>
          u.open[i] \in Around(u.above, u.open[j])
    /\ \A i, j \in 1 .. Len(u.open) : i < p /\ p <= j =>
          u.open[j] \notin Around(u.above, u.open[i])
    /\ \A i \in 1 .. Len(u.open) : p <= i => u.tag[u.open[i]] # "table"

\* A handler that changes both lists and nothing else.
LEMMA RebuiltLists ==
    ASSUME NEW t \in Trees, NEW o, NEW a
    PROVE  [t EXCEPT !.open = o, !.active = a] =
              [open |-> o, active |-> a, tag |-> t.tag, above |-> t.above]
<1> DEFINE u == [t EXCEPT !.open = o]
           v == [u EXCEPT !.active = a]
<1>1. PICK p, q, r, s : t = [open |-> p, active |-> q, tag |-> r, above |-> s]
  BY DEF Trees
<1>2. [t EXCEPT !.open = o, !.active = a] = v
  OBVIOUS
<1>3. r = t.tag /\ s = t.above
  BY <1>1
<1>4. u = [open |-> o, active |-> q, tag |-> r, above |-> s]
  BY <1>1
<1> HIDE DEF u
<1>5. v = [open |-> o, active |-> a, tag |-> r, above |-> s]
  BY <1>4
<1> QED BY <1>2, <1>3, <1>5

\* What a tree with a gap gives the provers, field by field.
LEMMA GappedFields ==
    ASSUME NEW u, NEW p, Gapped(u, p)
    PROVE  /\ u \in Trees /\ u.open \in Seq(Node) /\ Len(u.open) \in Nat /\ Len(u.open) >= 2
           /\ DOMAIN u.open = 1 .. Len(u.open) /\ p \in Nat /\ 2 <= p /\ p <= Len(u.open)
           /\ u.active \in Seq(Node \cup {Marker}) /\ Len(u.active) \in Nat
           /\ DOMAIN u.active = 1 .. Len(u.active)
           /\ u.tag \in [Node -> Tag \cup {NULL}] /\ u.above \in Links /\ Ranked(u.above)
           /\ \A i \in 1 .. Len(u.open) :
                 u.open[i] \in Node /\ u.tag[u.open[i]] \in Tag /\ u.tag[u.open[i]] # NULL
           /\ \A i \in 1 .. Len(u.active) : u.active[i] # Marker =>
                 /\ u.active[i] \in Node /\ u.tag[u.active[i]] \in AnyFormatting
                 /\ u.tag[u.active[i]] # NULL
           /\ \A i, j \in 1 .. Len(u.open) : u.open[i] = u.open[j] => i = j
           /\ u = [open |-> u.open, active |-> u.active, tag |-> u.tag, above |-> u.above]
<1>1. /\ u.open \in Seq(Node) /\ u.active \in Seq(Node \cup {Marker})
      /\ u.tag \in [Node -> Tag \cup {NULL}] /\ u.above \in Links
      /\ u = [open |-> u.open, active |-> u.active, tag |-> u.tag, above |-> u.above]
      /\ u \in Trees
  BY DEF Gapped, Trees
<1>2. /\ Len(u.open) \in Nat /\ Len(u.active) \in Nat /\ DOMAIN u.open = 1 .. Len(u.open)
      /\ DOMAIN u.active = 1 .. Len(u.active)
      /\ \A i \in 1 .. Len(u.open) : u.open[i] \in Node
      /\ \A i \in 1 .. Len(u.active) : u.active[i] \in Node \cup {Marker}
  BY <1>1
<1>3. p \in Nat /\ 2 <= p /\ p <= Len(u.open) /\ Len(u.open) >= 2
  BY <1>2 DEF Gapped
<1>4. Ranked(u.above)
  BY DEF Gapped, Joined
<1>5. \A i \in 1 .. Len(u.open) : u.tag[u.open[i]] \in Tag /\ u.tag[u.open[i]] # NULL
  BY TagsAre DEF Gapped, Stacked
<1>6. \A i \in 1 .. Len(u.active) : u.active[i] # Marker =>
          u.tag[u.active[i]] \in AnyFormatting /\ u.tag[u.active[i]] # NULL
  BY TagsAre DEF Gapped, Listed
<1>7. \A i, j \in 1 .. Len(u.open) : u.open[i] = u.open[j] => i = j
  BY DEF Gapped, Stacked
<1> QED BY <1>1, <1>2, <1>3, <1>4, <1>5, <1>6, <1>7

\* Before its first step the gap is below the furthest block, and nothing has been
\* taken out of anything.
LEMMA GappedStart ==
    ASSUME NEW t, Good(t), NEW k \in 2 .. Len(t.open),
           \A i \in k .. Len(t.open) : t.tag[t.open[i]] # "table"
    PROVE  Gapped(t, k)
<1>1. /\ Joined(t.tag, t.above) /\ Stacked(t.open, t.tag, t.above)
      /\ Nested(t.open, t.tag, t.above) /\ Listed(t.active, t.tag) /\ t \in Trees
      /\ Ranked(t.above) /\ Len(t.open) \in Nat
      /\ \A i \in 1 .. Len(t.open) : t.open[i] \in Node
  BY GoodFields DEF Good
<1>2. ASSUME NEW i \in 1 .. Len(t.open), NEW j \in 1 .. Len(t.open), i < j
      PROVE  t.open[j] \notin Around(t.above, t.open[i])
  <2>1. t.open[i] # t.open[j] /\ t.open[i] \in Node /\ t.open[j] \in Node
    BY <1>1, <1>2 DEF Stacked
  <2>2. CASE t.tag[t.open[i]] = "table"
    BY <1>1, <1>2, <2>2 DEF Stacked
  <2>3. CASE t.tag[t.open[i]] # "table"
    <3>1. t.open[i] \in Around(t.above, t.open[j])
      BY <1>1, <1>2, <2>3 DEF Nested, Inside
    <3>2. \A m \in Around(t.above, t.open[j]) : t.open[j] \in Around(t.above, m) => m = t.open[j]
      BY <1>1, <2>1, AroundIs
    <3> QED BY <2>1, <3>1, <3>2
  <2> QED BY <2>2, <2>3
<1>3. \A i \in 1 .. Len(t.open) : k <= i => t.tag[t.open[i]] # "table"
  BY <1>1
<1>4. \A i, j \in 1 .. Len(t.open) : k <= i /\ i < j => t.open[i] \in Around(t.above, t.open[j])
  BY <1>1, <1>3 DEF Nested, Inside
<1>5. \A i, j \in 1 .. Len(t.open) : i < j => Inside(t.tag, t.above, t.open[i], t.open[j])
  BY <1>1 DEF Nested
<1>6. \A i, j \in 1 .. Len(t.open) : i < k /\ k <= j => i < j
  BY <1>1
<1> QED BY <1>1, <1>2, <1>3, <1>4, <1>5, <1>6 DEF Gapped

\* The four parts of a tree.
Tree(open, active, tag, above) ==
    [open |-> open, active |-> active, tag |-> tag, above |-> above]

\* The element below the gap goes off the stack.
LEMMA GappedRemoved ==
    ASSUME NEW u, NEW p, Gapped(u, p), p >= 3, NEW a, Listed(a, u.tag)
    PROVE  LET v == [open |-> RemoveByNode(u.open, u.open[p - 1]), active |-> a,
                     tag |-> u.tag, above |-> u.above]
           IN  /\ Gapped(v, p - 1) /\ v.tag = u.tag /\ v.active = a
               /\ v.above = u.above /\ Shortened(v.open, u.open, p - 1)
<1> DEFINE x == u.open[p - 1]
           q == RemoveByNode(u.open, x)
           L == Len(u.open)
           v == [open |-> q, active |-> a, tag |-> u.tag, above |-> u.above]
           h == [i \in 1 .. L - 1 |-> IF i < p - 1 THEN i ELSE i + 1]
<1>1. /\ u.open \in Seq(Node) /\ L \in Nat /\ p \in Nat /\ p <= L /\ u \in Trees
      /\ u.tag \in [Node -> Tag \cup {NULL}] /\ u.above \in Links
      /\ \A i, j \in 1 .. L : u.open[i] = u.open[j] => i = j
      /\ u = [open |-> u.open, active |-> u.active, tag |-> u.tag, above |-> u.above]
  BY GappedFields
<1>2. p - 1 \in 1 .. L /\ p - 1 \in 2 .. L - 1
  BY <1>1
<1>3. LastAt(u.open, x) = p - 1
  <2>1. LastAt(u.open, x) \in 1 .. L /\ u.open[LastAt(u.open, x)] = u.open[p - 1]
    BY <1>1, <1>2, LastAtIs
  <2> QED BY <1>1, <1>2, <2>1
<1>4. q \in Seq(Node) /\ Shortened(q, u.open, p - 1)
  <2>1. p - 1 # 0
    BY <1>1
  <2> QED BY <1>1, <1>3, <2>1, RemoveByNodeIs
<1>5. v.open = q /\ v.active = a /\ v.tag = u.tag /\ v.above = u.above
      /\ v = [open |-> q, active |-> a, tag |-> u.tag, above |-> u.above]
  <2> HIDE DEF q
  <2> QED OBVIOUS
<1> HIDE DEF v, q, x
<1>6. /\ Len(q) = L - 1 /\ h \in [1 .. Len(q) -> 0 .. Len(u.open)] /\ h[1] = 1
      /\ \A i \in 1 .. L - 1 : q[i] = u.open[h[i]] /\ h[i] \in 1 .. L /\ h[i] # 0
      /\ \A i, j \in 1 .. L - 1 : i < j => h[i] < h[j]
      /\ \A i \in 1 .. L - 1 : (i < p - 1 => h[i] < p /\ h[i] < p - 1) /\ (p - 1 <= i => p <= h[i])
  <2>1. Len(q) = L - 1 /\ \A i \in 1 .. L - 1 : q[i] = u.open[h[i]]
    BY <1>4 DEF Shortened
  <2> QED BY <1>1, <1>2, <2>1
<1> HIDE DEF h
<1>7. Renewed(q, u.open, h, NULL)
  <2>1. Len(q) >= 1
    BY <1>1, <1>2, <1>6
  <2> QED BY <1>4, <1>6, <2>1 DEF Renewed
<1>8. Stacked(q, u.tag, u.above)
  <2>1. Stacked(u.open, u.tag, u.above)
    BY DEF Gapped
  <2>2. \A i \in 1 .. Len(q) : h[i] # 0
    BY <1>6
  <2> HIDE DEF L
  <2> QED BY <1>7, <2>1, <2>2, StackedRenewed
<1>9. v \in Trees
  BY <1>1, <1>4, <1>5 DEF Trees, Listed
<1>10. p - 1 \in 2 .. Len(q)
  BY <1>1, <1>2, <1>6
<1>11. \A i, j \in 1 .. Len(q) : i < j /\ j < p - 1 =>
           Inside(u.tag, u.above, q[i], q[j])
  <2> SUFFICES ASSUME NEW i \in 1 .. Len(q), NEW j \in 1 .. Len(q), i < j, j < p - 1
               PROVE  Inside(u.tag, u.above, q[i], q[j])
    OBVIOUS
  <2>1. h[i] \in 1 .. L /\ h[j] \in 1 .. L /\ h[i] < h[j] /\ h[j] < p
        /\ q[i] = u.open[h[i]] /\ q[j] = u.open[h[j]]
    BY <1>6
  <2> QED BY <2>1 DEF Gapped
<1>12. \A i, j \in 1 .. Len(q) : p - 1 <= i /\ i < j => q[i] \in Around(u.above, q[j])
  <2> SUFFICES ASSUME NEW i \in 1 .. Len(q), NEW j \in 1 .. Len(q), p - 1 <= i, i < j
               PROVE  q[i] \in Around(u.above, q[j])
    OBVIOUS
  <2>1. h[i] \in 1 .. L /\ h[j] \in 1 .. L /\ h[i] < h[j] /\ p <= h[i]
        /\ q[i] = u.open[h[i]] /\ q[j] = u.open[h[j]]
    BY <1>6
  <2> QED BY <2>1 DEF Gapped
<1>13. \A i, j \in 1 .. Len(q) : i < p - 1 /\ p - 1 <= j => q[j] \notin Around(u.above, q[i])
  <2> SUFFICES ASSUME NEW i \in 1 .. Len(q), NEW j \in 1 .. Len(q), i < p - 1, p - 1 <= j
               PROVE  q[j] \notin Around(u.above, q[i])
    OBVIOUS
  <2>1. h[i] \in 1 .. L /\ h[j] \in 1 .. L /\ h[i] < p /\ p <= h[j]
        /\ q[i] = u.open[h[i]] /\ q[j] = u.open[h[j]]
    BY <1>6
  <2> QED BY <2>1 DEF Gapped
<1>14. \A i \in 1 .. Len(q) : p - 1 <= i => u.tag[q[i]] # "table"
  <2> SUFFICES ASSUME NEW i \in 1 .. Len(q), p - 1 <= i PROVE u.tag[q[i]] # "table"
    OBVIOUS
  <2>1. h[i] \in 1 .. L /\ p <= h[i] /\ q[i] = u.open[h[i]]
    BY <1>6
  <2> QED BY <2>1 DEF Gapped
<1>15. Joined(u.tag, u.above)
  BY DEF Gapped
<1>16. Gapped(v, p - 1)
  BY <1>5, <1>8, <1>9, <1>10, <1>11, <1>12, <1>13, <1>14, <1>15 DEF Gapped
<1> QED BY <1>4, <1>5, <1>16 DEF v, q, x

\* A fresh element takes the place of the one below the gap, and what is above
\* the gap goes into it.
LEMMA GappedReplaced ==
    ASSUME NEW u, NEW p, Gapped(u, p), p >= 3, u.tag[u.open[p - 1]] \in AnyFormatting,
           NEW c \in Node, u.tag[c] = NULL,
           NEW q \in Seq(Node), Len(q) = Len(u.open),
           \A i \in 1 .. Len(u.open) : q[i] = IF i = p - 1 THEN c ELSE u.open[i],
           NEW tags \in [Node -> Tag \cup {NULL}],
           \A n \in Node : tags[n] = IF n = c THEN u.tag[u.open[p - 1]] ELSE u.tag[n],
           NEW links \in Links,
           \A n \in Node : links[n] = IF n = u.open[p] THEN c ELSE u.above[n],
           NEW a, Listed(a, tags)
    PROVE  Gapped(Tree(q, a, tags, links), p - 1)
<1> DEFINE x == u.open[p - 1]
           last == u.open[p]
           g == u.tag[x]
           L == Len(u.open)
           v == Tree(q, a, tags, links)
           h == [i \in 1 .. L |-> IF i = p - 1 THEN 0 ELSE i]
<1>1. /\ u.open \in Seq(Node) /\ L \in Nat /\ p \in Nat /\ p <= L /\ u \in Trees
      /\ u.tag \in [Node -> Tag \cup {NULL}] /\ u.above \in Links /\ Ranked(u.above)
      /\ u.active \in Seq(Node \cup {Marker})
      /\ \A i, j \in 1 .. L : u.open[i] = u.open[j] => i = j
      /\ \A i \in 1 .. L : u.open[i] \in Node /\ u.tag[u.open[i]] # NULL
  BY GappedFields
<1>2. p - 1 \in 1 .. L /\ p - 1 \in 2 .. L /\ p \in 1 .. L /\ p - 1 # p
  BY <1>1
<1>3. /\ x \in Node /\ last \in Node /\ u.tag[last] # NULL /\ last # c /\ x # c
      /\ g \in AnyFormatting /\ g \in Tag /\ g # NULL /\ g # "table"
  <2>1. x \in Node /\ last \in Node /\ u.tag[last] # NULL /\ u.tag[x] # NULL
    BY <1>1, <1>2
  <2>2. g \in AnyFormatting
    OBVIOUS
  <2> QED BY <2>1, <2>2, TagsAre
<1>5. v.open = q /\ v.active = a /\ v.tag = tags /\ v.above = links
      /\ v = [open |-> q, active |-> a, tag |-> tags, above |-> links]
  BY DEF Tree
<1> HIDE DEF v
<1>6. /\ Joined(u.tag, u.above) /\ Stacked(u.open, u.tag, u.above)
  BY DEF Gapped
<1>7. u.above[c] = NULL /\ Around(u.above, c) = {c}
      /\ \A n \in Node : n # c => c \notin Around(u.above, n) \/ u.tag[n] = NULL
  <2>1. u.above[c] = NULL
    BY <1>6 DEF Joined
  <2>2. Around(u.above, c) = {c}
    BY <1>1, <2>1, AroundIs
  <2>3. \A n \in Node : u.tag[n] # NULL => c \notin Around(u.above, n)
    BY <1>6, AroundTagged
  <2> QED BY <2>1, <2>2, <2>3
<1>8. /\ q \in Seq(Node) /\ Len(q) = L /\ q[p - 1] = c
      /\ \A i \in 1 .. L : i # p - 1 => q[i] = u.open[i]
  BY <1>1, <1>2
<1>9. \A n \in Node : tags[n] = IF n = c THEN g ELSE u.tag[n]
  OBVIOUS
<1>10. /\ \A n \in Node : links[n] = IF n = last THEN c ELSE u.above[n]
       /\ links = [u.above EXCEPT ![last] = c]
  BY <1>1, <1>3 DEF Links
<1>11. /\ Ranked(links) /\ Around(links, last) = {last, c}
       /\ \A z \in Node : last \notin Around(u.above, z) => Around(links, z) = Around(u.above, z)
       /\ \A z \in Node : \A w \in Around(u.above, z) :
             last \in Around(u.above, w) => w \in Around(links, z)
  <2>1. last \notin Around(u.above, c)
    BY <1>3, <1>7
  <2>2. Ranked(u.above) /\ last \in Node
    BY <1>1, <1>3
  <2> DEFINE m == [u.above EXCEPT ![last] = c]
  <2> HIDE DEF last
  <2>3. /\ Ranked(m) /\ Around(m, last) = {last} \cup Around(u.above, c)
        /\ \A z \in Node : last \notin Around(u.above, z) =>
              Around(m, z) = Around(u.above, z)
        /\ \A z \in Node : \A w \in Around(u.above, z) :
              last \in Around(u.above, w) => w \in Around(m, z)
    BY <2>1, <2>2, LinkMoved
  <2>4. m = links
    BY <1>10
  <2> HIDE DEF m
  <2> QED BY <1>7, <2>3, <2>4
<1> HIDE DEF g
<1>13. v \in Trees
  BY <1>5 DEF Trees, Listed
<1>14. Joined(tags, links)
  <2>1. ASSUME NEW n \in Node, links[n] # NULL PROVE tags[n] # NULL /\ tags[links[n]] # NULL
    <3>1. CASE n = last
      BY <1>3, <1>9, <1>10, <3>1
    <3>2. CASE n # last
      <4>1. links[n] = u.above[n] /\ u.above[n] # NULL
        BY <1>10, <2>1, <3>2
      <4>2. u.tag[n] # NULL /\ u.tag[u.above[n]] # NULL /\ u.above[n] \in Node
        BY <1>1, <1>6, <4>1 DEF Joined, Links
      <4> QED BY <1>3, <1>9, <4>1, <4>2
    <3> QED BY <3>1, <3>2
  <2> QED BY <1>9, <1>11, <2>1 DEF Joined
<1>15. \A i \in 1 .. L : i < p => Around(links, u.open[i]) = Around(u.above, u.open[i])
                                  /\ links[u.open[i]] = u.above[u.open[i]]
  <2> SUFFICES ASSUME NEW i \in 1 .. L, i < p
               PROVE  Around(links, u.open[i]) = Around(u.above, u.open[i])
                      /\ links[u.open[i]] = u.above[u.open[i]]
    OBVIOUS
  <2>1. u.open[i] \in Node /\ last \notin Around(u.above, u.open[i])
    BY <1>1, <1>2 DEF Gapped
  <2>2. u.open[i] # last
    BY <1>1, <1>2
  <2> QED BY <1>10, <1>11, <2>1, <2>2
<1>16. \A i \in 1 .. L : u.open[i] # c /\ tags[u.open[i]] = u.tag[u.open[i]]
  BY <1>1, <1>9
<1>17. \A i \in 1 .. L : u.tag[u.open[i]] = "table" => i < p
  <2>1. \A i \in 1 .. L : p <= i => u.tag[u.open[i]] # "table"
    BY DEF Gapped
  <2>2. \A i \in 1 .. L : ~ (p <= i) => i < p
    BY <1>1
  <2> QED BY <2>1, <2>2
<1>18. Stacked(q, tags, links)
  <2>1. Renewed(q, u.open, h, c)
    <3>1. h \in [1 .. Len(q) -> 0 .. Len(u.open)] /\ h[1] = 1 /\ Len(q) >= 1
      BY <1>1, <1>2, <1>8
    <3>2. \A i \in 1 .. Len(q) : q[i] = IF h[i] = 0 THEN c ELSE u.open[h[i]]
      BY <1>1, <1>2, <1>8
    <3>3. \A i, j \in 1 .. Len(q) : i < j /\ h[i] # 0 /\ h[j] # 0 => h[i] < h[j]
      BY <1>8
    <3>4. \A i, j \in 1 .. Len(q) : h[i] = 0 /\ h[j] = 0 => i = j
      BY <1>1, <1>8
    <3> HIDE DEF h
    <3> QED BY <1>8, <3>1, <3>2, <3>3, <3>4 DEF Renewed
  <2>2. \A i \in 1 .. Len(u.open) :
            /\ tags[u.open[i]] = u.tag[u.open[i]]
            /\ u.tag[u.open[i]] = "table" => Around(links, u.open[i]) = Around(u.above, u.open[i])
    BY <1>15, <1>16, <1>17
  <2>3. \A j \in 1 .. Len(u.open) : u.open[j] # c /\ c \notin Around(u.above, u.open[j])
    BY <1>1, <1>7, <1>16
  <2>4. tags[c] \in Tag /\ tags[c] # "table"
    BY <1>3, <1>9
  <2>5. \A i \in 1 .. Len(q) : h[i] = 0 =>
            /\ \A j \in 1 .. Len(u.open) :
                  /\ u.open[j] # c
                  /\ u.tag[u.open[j]] = "table" => c \notin Around(u.above, u.open[j])
            /\ tags[c] \in Tag
            /\ tags[c] = "table" => /\ i = Len(q)
                                    /\ \A j \in 1 .. Len(u.open) : u.tag[u.open[j]] # "table"
    BY <2>3, <2>4
  <2> HIDE DEF h, L
  <2> QED BY <1>6, <2>1, <2>2, <2>5, StackedRenewed
<1>19. \A i, j \in 1 .. Len(q) : i < j /\ j < p - 1 => Inside(tags, links, q[i], q[j])
  <2> SUFFICES ASSUME NEW i \in 1 .. Len(q), NEW j \in 1 .. Len(q), i < j, j < p - 1
               PROVE  Inside(tags, links, q[i], q[j])
    OBVIOUS
  <2>1. i \in 1 .. L /\ j \in 1 .. L /\ i # p - 1 /\ j # p - 1 /\ i < p /\ j < p
    BY <1>1, <1>8
  <2>2. q[i] = u.open[i] /\ q[j] = u.open[j]
    BY <1>8, <2>1
  <2>3. Inside(u.tag, u.above, u.open[i], u.open[j])
    BY <2>1 DEF Gapped
  <2> QED BY <1>15, <1>16, <2>1, <2>2, <2>3 DEF Inside
<1>20. ASSUME NEW j \in 1 .. L, p <= j
       PROVE  /\ c \in Around(links, u.open[j])
              /\ \A i \in 1 .. L : p <= i /\ i < j => u.open[i] \in Around(links, u.open[j])
  <2>1. u.open[j] \in Node
    BY <1>1
  <2>2. ASSUME NEW i \in 1 .. L, p <= i, i < j PROVE u.open[i] \in Around(links, u.open[j])
    <3>1. u.open[i] \in Around(u.above, u.open[j]) /\ u.open[i] \in Node
      BY <1>1, <2>2 DEF Gapped
    <3>2. last \in Around(u.above, u.open[i])
      <4>1. CASE i = p
        BY <1>1, <3>1, <4>1, AroundIs
      <4>2. CASE i # p
        <5>1. p < i
          BY <1>1, <2>2, <4>2
        <5> QED BY <1>2, <5>1 DEF Gapped
      <4> QED BY <4>1, <4>2
    <3> QED BY <1>11, <2>1, <3>1, <3>2
  <2>3. last \in Around(links, u.open[j])
    <3>1. CASE j = p
      BY <1>11, <2>1, <3>1, AroundIs
    <3>2. CASE j # p
      <4>1. p < j /\ p <= p
        BY <1>1, <1>20, <3>2
      <4> QED BY <1>2, <2>2, <4>1
    <3> QED BY <3>1, <3>2
  <2>4. c \in Around(links, last)
    BY <1>11
  <2>5. Around(links, last) \subseteq Around(links, u.open[j])
    BY <1>11, <2>1, <2>3, AroundIs
  <2> QED BY <2>2, <2>4, <2>5
<1>21. \A i, j \in 1 .. Len(q) : p - 1 <= i /\ i < j => q[i] \in Around(links, q[j])
  <2> SUFFICES ASSUME NEW i \in 1 .. Len(q), NEW j \in 1 .. Len(q), p - 1 <= i, i < j
               PROVE  q[i] \in Around(links, q[j])
    OBVIOUS
  <2>1. i \in 1 .. L /\ j \in 1 .. L /\ p <= j /\ j # p - 1 /\ (i # p - 1 => p <= i)
    BY <1>1, <1>8
  <2>2. q[j] = u.open[j]
    BY <1>8, <2>1
  <2> QED BY <1>8, <1>20, <2>1, <2>2
<1>22. \A i, j \in 1 .. Len(q) : i < p - 1 /\ p - 1 <= j => q[j] \notin Around(links, q[i])
  <2> SUFFICES ASSUME NEW i \in 1 .. Len(q), NEW j \in 1 .. Len(q), i < p - 1, p - 1 <= j
               PROVE  q[j] \notin Around(links, q[i])
    OBVIOUS
  <2>1. i \in 1 .. L /\ j \in 1 .. L /\ i # p - 1 /\ i < p /\ (j # p - 1 => p <= j)
    BY <1>1, <1>8
  <2>2. q[i] = u.open[i] /\ Around(links, q[i]) = Around(u.above, u.open[i])
    BY <1>8, <1>15, <2>1
  <2>3. CASE j = p - 1
    BY <1>1, <1>7, <1>8, <1>16, <2>1, <2>2, <2>3
  <2>4. CASE j # p - 1
    <3>1. q[j] = u.open[j] /\ p <= j
      BY <1>8, <2>1, <2>4
    <3>2. u.open[j] \notin Around(u.above, u.open[i])
      BY <2>1, <3>1 DEF Gapped
    <3> QED BY <2>2, <3>1, <3>2
  <2> QED BY <2>3, <2>4
<1>23. \A i \in 1 .. Len(q) : p - 1 <= i => tags[q[i]] # "table"
  <2> SUFFICES ASSUME NEW i \in 1 .. Len(q), p - 1 <= i PROVE tags[q[i]] # "table"
    OBVIOUS
  <2>1. i \in 1 .. L /\ (i # p - 1 => p <= i)
    BY <1>1, <1>8
  <2>2. CASE i = p - 1
    BY <1>3, <1>8, <1>9, <2>2
  <2>3. CASE i # p - 1
    <3>1. q[i] = u.open[i] /\ ~ (i < p)
      BY <1>1, <1>8, <2>1, <2>3
    <3> QED BY <1>16, <1>17, <2>1, <3>1
  <2> QED BY <2>2, <2>3
<1>24. p - 1 \in 2 .. Len(q)
  BY <1>2, <1>8
<1>25. Gapped(v, p - 1)
  BY <1>5, <1>13, <1>14, <1>18, <1>19, <1>21, <1>22, <1>23, <1>24 DEF Gapped
<1> QED BY <1>25 DEF v

\* What a step of the inner loop hands to the next one.
Climbers == [tree: Trees, last: Node, mark: Nat]

\* What the inner loop has after j steps down from place k.
Climbed(t, k, j, block) ==
    {s \in Climbers :
        LET u == s.tree
            p == k - j
        IN  /\ Gapped(u, p) /\ u.open[p] = s.last
            /\ \A i \in 1 .. Len(t.open) : i < p => u.open[i] = t.open[i]
            /\ \E b \in 1 .. Len(u.open) : p <= b /\ u.open[b] = block
            /\ Len(u.open) <= Len(t.open) /\ Len(u.active) <= Len(t.active)
            /\ \A m \in Node : t.tag[m] # NULL => u.tag[m] = t.tag[m]
            /\ NoTable(t) => NoTable(u)
            /\ Cardinality(Free(t)) <= Cardinality(Free(u)) + 3
            /\ j <= 3 => Cardinality(Free(t)) <= Cardinality(Free(u)) + j}

\* A climber and its fields.
LEMMA ClimberIs ==
    ASSUME NEW s \in Climbers
    PROVE  s = [tree |-> s.tree, last |-> s.last, mark |-> s.mark]
           /\ s.tree \in Trees /\ s.last \in Node /\ s.mark \in Nat
  BY DEF Climbers

\* What a step of the inner loop leaves behind.
Stepped(s, k, j, block, other) ==
    LET t == s.tree
        n == t.open[k]
        at == LastAt(t.active, n)
        c == Fresh(t)
        open == RemoveByNode(t.open, n)
    IN  /\ at = 0 =>
              other = [tree |-> Tree(open, t.active, t.tag, t.above),
                       last |-> s.last, mark |-> s.mark]
        /\ at # 0 /\ j > MaxInner =>
              other = [tree |-> Tree(open, RemoveByNode(t.active, n), t.tag, t.above),
                       last |-> s.last, mark |-> s.mark]
        /\ at # 0 /\ ~ (j > MaxInner) =>
              other = [tree |-> Tree([t.open EXCEPT ![k] = c],
                                     [t.active EXCEPT ![at] = c],
                                     [t.tag EXCEPT ![c] = t.tag[n]],
                                     [t.above EXCEPT ![s.last] = c]),
                       last |-> c, mark |-> IF s.last = block THEN at ELSE s.mark]

\* Climb is one of the three.
LEMMA ClimbStepped ==
    ASSUME NEW s \in Climbers, NEW k, NEW j, NEW block
    PROVE  Stepped(s, k, j, block, Climb(s, k, j, block))
<1> DEFINE t == s.tree
           n == t.open[k]
           at == LastAt(t.active, n)
           c == Fresh(t)
           open == RemoveByNode(t.open, n)
           active == RemoveByNode(t.active, n)
           other == Climb(s, k, j, block)
           y == Tree(open, t.active, t.tag, t.above)
           z == Tree(open, active, t.tag, t.above)
<1>1. s = [tree |-> s.tree, last |-> s.last, mark |-> s.mark] /\ t \in Trees
  BY ClimberIs
<1>2. at = 0 => other = [s EXCEPT !.tree = [t EXCEPT !.open = open]]
  BY DEF Climb
<1>3. at # 0 /\ j > MaxInner =>
          other = [s EXCEPT !.tree = [t EXCEPT !.open = open, !.active = active]]
  <2>1. at # 0 /\ j > MaxInner =>
          other = [s EXCEPT !.tree.open = open, !.tree.active = active]
    BY DEF Climb
  <2> DEFINE v == [s EXCEPT !.tree.open = open]
  <2>2. [s EXCEPT !.tree.open = open, !.tree.active = active] = [v EXCEPT !.tree.active = active]
    OBVIOUS
  <2>3. v = [tree |-> [t EXCEPT !.open = open], last |-> s.last, mark |-> s.mark]
    <3> HIDE DEF open, t
    <3> QED BY <1>1 DEF t
  <2> HIDE DEF v
  <2> DEFINE w == [t EXCEPT !.open = open]
  <2> HIDE DEF w
  <2>4. v = [tree |-> w, last |-> s.last, mark |-> s.mark]
    BY <2>3 DEF w
  <2>5. [v EXCEPT !.tree.active = active] =
            [tree |-> [w EXCEPT !.active = active], last |-> s.last, mark |-> s.mark]
    <3> HIDE DEF active
    <3> QED BY <2>4
  <2>6. [w EXCEPT !.active = active] = [t EXCEPT !.open = open, !.active = active]
    BY DEF w
  <2> DEFINE x == [t EXCEPT !.open = open, !.active = active]
  <2> HIDE DEF x
  <2>7. [s EXCEPT !.tree = x] = [tree |-> x, last |-> s.last, mark |-> s.mark]
    BY <1>1
  <2> QED BY <2>1, <2>2, <2>5, <2>6, <2>7 DEF x
<1>4. at # 0 /\ ~ (j > MaxInner) =>
          other = [tree |-> [t EXCEPT !.open[k] = c, !.active[at] = c,
                                      !.tag[c] = t.tag[n], !.above[s.last] = c],
                   last |-> c, mark |-> IF s.last = block THEN at ELSE s.mark]
  BY DEF Climb
<1>5. [t EXCEPT !.open = open] = y
  <2>1. PICK p, q, r, x : t = [open |-> p, active |-> q, tag |-> r, above |-> x]
    BY <1>1 DEF Trees
  <2>2. q = t.active /\ r = t.tag /\ x = t.above
    BY <2>1
  <2> HIDE DEF t, open
  <2>3. [t EXCEPT !.open = open] = [open |-> open, active |-> q, tag |-> r, above |-> x]
    BY <2>1
  <2> QED BY <2>2, <2>3 DEF Tree
<1>6. [t EXCEPT !.open = open, !.active = active] = z
  <2> HIDE DEF t, open, active
  <2>1. [t EXCEPT !.open = open, !.active = active] =
            [open |-> open, active |-> active, tag |-> t.tag, above |-> t.above]
    BY <1>1, RebuiltLists
  <2> QED BY <2>1 DEF Tree
<1>7. [t EXCEPT !.open[k] = c, !.active[at] = c, !.tag[c] = t.tag[n], !.above[s.last] = c] =
          Tree([t.open EXCEPT ![k] = c], [t.active EXCEPT ![at] = c],
               [t.tag EXCEPT ![c] = t.tag[n]], [t.above EXCEPT ![s.last] = c])
  <2> DEFINE o == [t.open EXCEPT ![k] = c]
             a == [t.active EXCEPT ![at] = c]
             g == [t.tag EXCEPT ![c] = t.tag[n]]
             l == [t.above EXCEPT ![s.last] = c]
  <2> HIDE DEF t, at, c, n
  <2>1. [t EXCEPT !.open[k] = c, !.active[at] = c, !.tag[c] = t.tag[n], !.above[s.last] = c] =
            [t EXCEPT !.open = o, !.active = a, !.tag = g, !.above = l]
    OBVIOUS
  <2> HIDE DEF o, a, g, l
  <2>2. [t EXCEPT !.open = o, !.active = a, !.tag = g, !.above = l] = Tree(o, a, g, l)
    <3> DEFINE v == [t EXCEPT !.open = o, !.active = a]
               w == [v EXCEPT !.tag = g]
               x == [w EXCEPT !.above = l]
    <3>1. v = [open |-> o, active |-> a, tag |-> t.tag, above |-> t.above]
      BY <1>1, RebuiltLists
    <3>2. [t EXCEPT !.open = o, !.active = a, !.tag = g, !.above = l] = x
      OBVIOUS
    <3> HIDE DEF v
    <3>3. w = [open |-> o, active |-> a, tag |-> g, above |-> t.above]
      BY <3>1
    <3> HIDE DEF w
    <3>4. x = [open |-> o, active |-> a, tag |-> g, above |-> l]
      BY <3>3
    <3> QED BY <3>2, <3>4 DEF Tree
  <2> QED BY <2>1, <2>2 DEF o, a, g, l
<1>8. /\ [s EXCEPT !.tree = y] = [tree |-> y, last |-> s.last, mark |-> s.mark]
      /\ [s EXCEPT !.tree = z] = [tree |-> z, last |-> s.last, mark |-> s.mark]
  <2> HIDE DEF y, z
  <2> QED BY <1>1
<1>9. at = 0 => other = [tree |-> y, last |-> s.last, mark |-> s.mark]
  BY <1>2, <1>5, <1>8
<1>10. at # 0 /\ j > MaxInner => other = [tree |-> z, last |-> s.last, mark |-> s.mark]
  BY <1>3, <1>6, <1>8
<1>11. at # 0 /\ ~ (j > MaxInner) =>
          other = [tree |-> Tree([t.open EXCEPT ![k] = c], [t.active EXCEPT ![at] = c],
                                 [t.tag EXCEPT ![c] = t.tag[n]], [t.above EXCEPT ![s.last] = c]),
                   last |-> c, mark |-> IF s.last = block THEN at ELSE s.mark]
  BY <1>4, <1>7
<1> QED BY <1>9, <1>10, <1>11 DEF Stepped

\* A fresh element is one free element less.
LEMMA FreeTaken ==
    ASSUME NEW u, NEW v, NEW c \in Free(u), v.tag[c] # NULL,
           \A m \in Node : m # c => v.tag[m] = u.tag[m]
    PROVE  /\ Cardinality(Free(v)) \in Nat /\ Cardinality(Free(u)) = Cardinality(Free(v)) + 1
           /\ \A m \in Node : u.tag[m] # NULL => v.tag[m] = u.tag[m]
<1>1. Free(v) = Free(u) \ {c} /\ \A m \in Node : u.tag[m] # NULL => v.tag[m] = u.tag[m]
  BY DEF Free
<1>2. IsFiniteSet(Free(u)) /\ Cardinality(Free(u)) \in Nat /\ Cardinality(Free(v)) \in Nat
  BY FreeFinite
<1>3. Cardinality(Free(u) \ {c}) = Cardinality(Free(u)) - 1
  BY <1>2, FS_RemoveElement
<1>4. Cardinality(Free(v)) = Cardinality(Free(u)) - 1
  BY <1>1, <1>3
<1>5. Cardinality(Free(u)) = Cardinality(Free(v)) + 1
  BY <1>2, <1>4
<1> QED BY <1>1, <1>2, <1>5

\* A step that takes the element off the stack.
LEMMA ClimbedRemoved ==
    ASSUME NEW t, NEW k \in Nat, NEW j \in Nat, j >= 1, k - j >= 2, NEW block,
           NEW s \in Climbed(t, k, j - 1, block), Len(t.open) \in Nat, k <= Len(t.open),
           Len(t.active) \in Nat,
           NEW a, Listed(a, s.tree.tag), Len(a) <= Len(s.tree.active)
    PROVE  LET u == s.tree
               v == Tree(RemoveByNode(u.open, u.open[k - j]), a, u.tag, u.above)
           IN  [tree |-> v, last |-> s.last, mark |-> s.mark] \in Climbed(t, k, j, block)
<1> DEFINE u == s.tree
           p == k - (j - 1)
           v == Tree(RemoveByNode(u.open, u.open[p - 1]), a, u.tag, u.above)
           r == [tree |-> v, last |-> s.last, mark |-> s.mark]
<1>1. p \in Nat /\ p >= 3 /\ p - 1 = k - j /\ p - 1 \in Nat /\ p - 1 <= Len(t.open)
  OBVIOUS
<1> HIDE DEF p
<1>2. /\ Gapped(u, p) /\ u.open[p] = s.last /\ s \in Climbers
      /\ \A i \in 1 .. Len(t.open) : i < p => u.open[i] = t.open[i]
      /\ \E b \in 1 .. Len(u.open) : p <= b /\ u.open[b] = block
      /\ Len(u.open) <= Len(t.open) /\ Len(u.active) <= Len(t.active)
      /\ \A m \in Node : t.tag[m] # NULL => u.tag[m] = t.tag[m]
      /\ NoTable(t) => NoTable(u)
      /\ Cardinality(Free(t)) <= Cardinality(Free(u)) + 3
      /\ j - 1 <= 3 => Cardinality(Free(t)) <= Cardinality(Free(u)) + (j - 1)
  BY DEF Climbed, p
<1>3. Len(u.open) \in Nat /\ p <= Len(u.open) /\ Len(u.active) \in Nat
  BY <1>2, GappedFields
<1>4. /\ Gapped(v, p - 1) /\ v.tag = u.tag /\ v.active = a
      /\ Shortened(v.open, u.open, p - 1)
  <2>1. Gapped(u, p) /\ p >= 3 /\ Listed(a, u.tag)
    BY <1>1, <1>2
  <2> HIDE DEF u
  <2> QED BY <2>1, GappedRemoved DEF Tree
<1> HIDE DEF v
<1>5. /\ Len(v.open) = Len(u.open) - 1
      /\ \A i \in 1 .. Len(u.open) - 1 : v.open[i] = IF i < p - 1 THEN u.open[i] ELSE u.open[i + 1]
  BY <1>4 DEF Shortened
<1>6. v.open[p - 1] = s.last
  <2>1. p - 1 \in 1 .. Len(u.open) - 1 /\ ~ (p - 1 < p - 1) /\ (p - 1) + 1 = p
    BY <1>1, <1>3
  <2> QED BY <1>2, <1>5, <2>1
<1>7. \A i \in 1 .. Len(t.open) : i < p - 1 => v.open[i] = t.open[i]
  <2>1. \A i \in 1 .. Len(t.open) : i < p - 1 => i \in 1 .. Len(u.open) - 1 /\ i < p
    BY <1>1, <1>3
  <2> QED BY <1>2, <1>5, <2>1
<1>8. \E b \in 1 .. Len(v.open) : p - 1 <= b /\ v.open[b] = block
  <2>1. PICK b \in 1 .. Len(u.open) : p <= b /\ u.open[b] = block
    BY <1>2
  <2>2. b - 1 \in 1 .. Len(u.open) - 1 /\ ~ (b - 1 < p - 1) /\ (b - 1) + 1 = b /\ p - 1 <= b - 1
    BY <1>1, <1>3, <2>1
  <2>3. v.open[b - 1] = block
    BY <1>5, <2>1, <2>2
  <2> QED BY <1>5, <2>2, <2>3
<1>9. Len(v.open) <= Len(t.open) /\ Len(v.active) <= Len(t.active)
  <2>1. Len(a) \in Nat
    <3>1. a \in Seq(Node \cup {Marker})
      BY DEF Listed
    <3> QED BY <3>1
  <2>2. Len(v.active) <= Len(t.active)
    BY <1>2, <1>3, <1>4, <2>1
  <2> QED BY <1>2, <1>3, <1>5, <2>2
<1>10. NoTable(t) => NoTable(v)
  <2>1. SUFFICES ASSUME NoTable(u), NEW i \in 1 .. Len(v.open) PROVE v.tag[v.open[i]] # "table"
    BY <1>2 DEF NoTable
  <2>2. i \in 1 .. Len(u.open) /\ i + 1 \in 1 .. Len(u.open) /\ i \in 1 .. Len(u.open) - 1
    BY <1>3, <1>5
  <2>3. v.open[i] = u.open[i] \/ v.open[i] = u.open[i + 1]
    BY <1>5, <2>2
  <2> QED BY <1>4, <2>1, <2>2, <2>3 DEF NoTable
<1>11. Free(v) = Free(u)
  BY <1>4 DEF Free
<1>12. /\ Cardinality(Free(t)) <= Cardinality(Free(v)) + 3
       /\ j <= 3 => Cardinality(Free(t)) <= Cardinality(Free(v)) + j
  <2>1. Cardinality(Free(t)) \in Nat /\ Cardinality(Free(u)) \in Nat
    BY FreeFinite
  <2> HIDE DEF u
  <2>2. ASSUME j <= 3 PROVE Cardinality(Free(t)) <= Cardinality(Free(u)) + j
    BY <1>2, <2>1, <2>2
  <2> QED BY <1>2, <1>11, <2>2
<1>13. r \in Climbers
  <2>1. s.last \in Node /\ s.mark \in Nat /\ v \in Trees
    BY <1>2, <1>4, ClimberIs DEF Gapped
  <2> QED BY <2>1 DEF Climbers
<1>14. r.tree = v /\ r.last = s.last
  OBVIOUS
<1> HIDE DEF r
<1>15. r \in Climbed(t, k, j, block)
  BY <1>1, <1>2, <1>4, <1>6, <1>7, <1>8, <1>9, <1>10, <1>12, <1>13, <1>14 DEF Climbed
<1> QED BY <1>1, <1>15 DEF r, v

\* A step that puts a fresh element in its place.
LEMMA ClimbedReplaced ==
    ASSUME NEW t, NEW k \in Nat, NEW j \in Nat, j >= 1, j <= 3, k - j >= 2, NEW block,
           NEW s \in Climbed(t, k, j - 1, block), Len(t.open) \in Nat, k <= Len(t.open),
           Len(t.active) \in Nat, Cardinality(Free(t)) >= 4,
           NEW at \in 1 .. Len(s.tree.active), s.tree.active[at] = s.tree.open[k - j],
           NEW mark \in Nat
    PROVE  LET u == s.tree
               c == Fresh(u)
               v == Tree([u.open EXCEPT ![k - j] = c], [u.active EXCEPT ![at] = c],
                         [u.tag EXCEPT ![c] = u.tag[u.open[k - j]]],
                         [u.above EXCEPT ![s.last] = c])
           IN  [tree |-> v, last |-> c, mark |-> mark] \in Climbed(t, k, j, block)
<1> DEFINE u == s.tree
           c == Fresh(u)
           p == k - (j - 1)
           g == u.tag[u.open[p - 1]]
           q == [u.open EXCEPT ![p - 1] = c]
           a == [u.active EXCEPT ![at] = c]
           tags == [u.tag EXCEPT ![c] = g]
           links == [u.above EXCEPT ![s.last] = c]
           v == Tree(q, a, tags, links)
           r == [tree |-> v, last |-> c, mark |-> mark]
<1>1. p \in Nat /\ p >= 3 /\ p - 1 = k - j /\ p - 1 \in Nat /\ p - 1 <= Len(t.open)
  OBVIOUS
<1> HIDE DEF p
<1>2. /\ Gapped(u, p) /\ u.open[p] = s.last /\ s \in Climbers
      /\ \A i \in 1 .. Len(t.open) : i < p => u.open[i] = t.open[i]
      /\ \E b \in 1 .. Len(u.open) : p <= b /\ u.open[b] = block
      /\ Len(u.open) <= Len(t.open) /\ Len(u.active) <= Len(t.active)
      /\ \A m \in Node : t.tag[m] # NULL => u.tag[m] = t.tag[m]
      /\ NoTable(t) => NoTable(u)
      /\ Cardinality(Free(t)) <= Cardinality(Free(u)) + 3
      /\ j - 1 <= 3 => Cardinality(Free(t)) <= Cardinality(Free(u)) + (j - 1)
  BY DEF Climbed, p
<1>3. /\ Len(u.open) \in Nat /\ p <= Len(u.open) /\ Len(u.active) \in Nat
      /\ u.tag \in [Node -> Tag \cup {NULL}] /\ u.open \in Seq(Node)
  BY <1>2, GappedFields
<1>4. c \in Node /\ u.tag[c] = NULL /\ c \in Free(u)
  <2>1. Cardinality(Free(t)) \in Nat /\ Cardinality(Free(u)) \in Nat
    BY FreeFinite
  <2> HIDE DEF u, c
  <2>2. Cardinality(Free(u)) # 0
    BY <1>2, <2>1
  <2>3. Free(u) # {}
    BY <2>2, FS_EmptySet
  <2> QED BY <2>3, FreshIs DEF c
<1>5. at \in 1 .. Len(u.active) /\ u.active[at] = u.open[p - 1]
  BY <1>1
<1> HIDE DEF c
<1>6. /\ u.open[p - 1] \in Node /\ g \in AnyFormatting /\ g \in Tag /\ g # NULL /\ g # "table"
      /\ u.above \in Links /\ u.active \in Seq(Node \cup {Marker}) /\ Listed(u.active, u.tag)
      /\ \A i \in 1 .. Len(u.active) : u.active[i] # Marker => u.tag[u.active[i]] # NULL
      /\ s.last \in Node
  <2>1. u.open[p - 1] \in Node /\ s.last \in Node
    <3>1. p - 1 \in 1 .. Len(u.open)
      BY <1>1, <1>3
    <3>2. u.open[p - 1] \in Node
      BY <1>3, <3>1
    <3>3. s.last \in Node
      BY <1>2, ClimberIs
    <3> QED BY <3>2, <3>3
  <2>2. u.open[p - 1] # Marker
    BY <2>1, NodeAssumption
  <2>3. g \in AnyFormatting
    <3> HIDE DEF u
    <3> QED BY <1>2, <1>5, <2>2, GappedFields
  <2>4. /\ u.above \in Links /\ u.active \in Seq(Node \cup {Marker}) /\ Listed(u.active, u.tag)
        /\ \A i \in 1 .. Len(u.active) : u.active[i] # Marker => u.tag[u.active[i]] # NULL
    <3>1. Gapped(u, p)
      BY <1>2
    <3> HIDE DEF u
    <3>2. /\ u.above \in Links /\ u.active \in Seq(Node \cup {Marker})
          /\ \A i \in 1 .. Len(u.active) : u.active[i] # Marker => u.tag[u.active[i]] # NULL
      BY <3>1, GappedFields
    <3>3. Listed(u.active, u.tag)
      BY <3>1 DEF Gapped
    <3> QED BY <3>2, <3>3
  <2> HIDE DEF g
  <2> QED BY <2>1, <2>3, <2>4, TagsAre
<1> HIDE DEF u, g
<1>7. /\ q \in Seq(Node) /\ Len(q) = Len(u.open)
      /\ \A i \in 1 .. Len(u.open) : q[i] = IF i = p - 1 THEN c ELSE u.open[i]
      /\ tags \in [Node -> Tag \cup {NULL}] /\ links \in Links
      /\ \A m \in Node : tags[m] = IF m = c THEN g ELSE u.tag[m]
      /\ \A m \in Node : links[m] = IF m = u.open[p] THEN c ELSE u.above[m]
  <2>1. /\ q \in Seq(Node) /\ Len(q) = Len(u.open)
        /\ \A i \in 1 .. Len(u.open) : q[i] = IF i = p - 1 THEN c ELSE u.open[i]
    <3>1. p - 1 \in 1 .. Len(u.open)
      BY <1>1, <1>3
    <3> HIDE DEF p
    <3> QED BY <1>3, <1>4, <3>1, ExceptSeq
  <2>2. /\ tags \in [Node -> Tag \cup {NULL}]
        /\ \A m \in Node : tags[m] = IF m = c THEN g ELSE u.tag[m]
    BY <1>3, <1>4, <1>6
  <2>3. links \in Links /\ \A m \in Node : links[m] = IF m = s.last THEN c ELSE u.above[m]
    BY <1>4, <1>6 DEF Links
  <2> HIDE DEF q, tags, links
  <2> QED BY <1>2, <2>1, <2>2, <2>3
<1>20. Listed(a, tags) /\ Len(a) = Len(u.active)
  <2>1. \A i \in 1 .. Len(u.active) : u.active[i] # c
    <3>1. c # Marker
      BY <1>4, NodeAssumption
    <3> QED BY <1>4, <1>6, <3>1
  <2>2. \A i \in 1 .. Len(u.active) : u.active[i] # Marker => tags[u.active[i]] = u.tag[u.active[i]]
    <3>1. \A i \in 1 .. Len(u.active) : u.active[i] \in Node \cup {Marker}
      BY <1>6
    <3> HIDE DEF tags
    <3> QED BY <1>4, <1>6, <1>7, <3>1
  <2>3. tags[c] \in AnyFormatting
    <3> HIDE DEF tags
    <3> QED BY <1>4, <1>6, <1>7
  <2>4. Listed(u.active, u.tag)
    BY <1>6
  <2>5. c \in Node /\ at \in 1 .. Len(u.active)
    BY <1>4, <1>5
  <2> HIDE DEF q, tags, links, v, r, a
  <2>6. ASSUME NEW d, NEW w, Listed(d, w), at \in 1 .. Len(d),
               \A i \in 1 .. Len(d) : d[i] # c,
               \A i \in 1 .. Len(d) : d[i] # Marker => tags[d[i]] = w[d[i]]
        PROVE  Listed([d EXCEPT ![at] = c], tags) /\ Len([d EXCEPT ![at] = c]) = Len(d)
    BY <2>3, <2>5, <2>6, ListedReplaced, SMTT(30)
  <2>8. /\ Listed([u.active EXCEPT ![at] = c], tags)
        /\ Len([u.active EXCEPT ![at] = c]) = Len(u.active)
    BY <2>1, <2>2, <2>4, <2>5, <2>6
  <2> QED BY <2>8 DEF a
<1> HIDE DEF q, a, tags, links
<1>21. Gapped(v, p - 1)
  <2>1. /\ Gapped(u, p) /\ p >= 3 /\ u.tag[u.open[p - 1]] \in AnyFormatting
        /\ c \in Node /\ u.tag[c] = NULL
    BY <1>1, <1>2, <1>4, <1>6 DEF g
  <2>2. \A m \in Node : tags[m] = IF m = c THEN u.tag[u.open[p - 1]] ELSE u.tag[m]
    BY <1>7 DEF g
  <2> QED BY <1>7, <1>20, <2>1, <2>2, GappedReplaced
<1>22. v.open = q /\ v.active = a /\ v.tag = tags /\ v.above = links
  BY DEF Tree
<1> HIDE DEF v
<1>8. /\ Cardinality(Free(v)) \in Nat /\ Cardinality(Free(u)) = Cardinality(Free(v)) + 1
      /\ \A m \in Node : u.tag[m] # NULL => v.tag[m] = u.tag[m]
  <2>1. v.tag[c] # NULL /\ \A m \in Node : m # c => v.tag[m] = u.tag[m]
    BY <1>4, <1>6, <1>7, <1>22
  <2> QED BY <1>4, <1>6, <2>1, FreeTaken
<1>9. /\ Len(v.open) = Len(u.open)
      /\ \A i \in 1 .. Len(u.open) : i # p - 1 => v.open[i] = u.open[i]
      /\ v.open[p - 1] = c
  <2>1. p - 1 \in 1 .. Len(u.open)
    BY <1>1, <1>3
  <2> QED BY <1>7, <1>22, <2>1
<1>10. \A i \in 1 .. Len(t.open) : i < p - 1 => v.open[i] = t.open[i]
  <2>1. \A i \in 1 .. Len(t.open) : i < p - 1 => i \in 1 .. Len(u.open) /\ i # p - 1 /\ i < p
    BY <1>1, <1>3
  <2> QED BY <1>2, <1>9, <2>1
<1>11. \E b \in 1 .. Len(v.open) : p - 1 <= b /\ v.open[b] = block
  <2>1. PICK b \in 1 .. Len(u.open) : p <= b /\ u.open[b] = block
    BY <1>2
  <2>2. b # p - 1 /\ p - 1 <= b
    BY <1>1, <2>1
  <2> QED BY <1>9, <2>1, <2>2
<1>12. Len(v.open) <= Len(t.open) /\ Len(v.active) <= Len(t.active)
  BY <1>2, <1>9, <1>20, <1>22
<1>13. NoTable(t) => NoTable(v)
  <2>1. SUFFICES ASSUME NoTable(u), NEW i \in 1 .. Len(v.open) PROVE v.tag[v.open[i]] # "table"
    BY <1>2 DEF NoTable
  <2>2. CASE i = p - 1
    BY <1>4, <1>6, <1>7, <1>9, <1>22, <2>2
  <2>3. CASE i # p - 1
    <3>1. v.open[i] = u.open[i] /\ u.open[i] \in Node /\ i \in 1 .. Len(u.open)
      BY <1>3, <1>9, <2>3
    <3>2. u.tag[u.open[i]] # NULL
      BY <1>2, <3>1, GappedFields
    <3> QED BY <1>8, <2>1, <3>1, <3>2 DEF NoTable
  <2> QED BY <2>2, <2>3
<1>14. \A m \in Node : t.tag[m] # NULL => v.tag[m] = t.tag[m]
  BY <1>2, <1>8
<1>15. /\ Cardinality(Free(t)) <= Cardinality(Free(v)) + 3
       /\ Cardinality(Free(t)) <= Cardinality(Free(v)) + j
  <2>1. Cardinality(Free(t)) \in Nat /\ Cardinality(Free(u)) \in Nat
    BY FreeFinite
  <2>2. Cardinality(Free(t)) <= Cardinality(Free(u)) + (j - 1)
    BY <1>2
  <2>3. \A m, b, d \in Nat : m <= b + (j - 1) /\ b = d + 1 => m <= d + j /\ m <= d + 3
    OBVIOUS
  <2> QED BY <1>8, <2>1, <2>2, <2>3
<1>16. r \in Climbers
  <2>1. v \in Trees
    BY <1>21 DEF Gapped
  <2> QED BY <1>4, <2>1 DEF Climbers
<1>17. r.tree = v /\ r.last = c
  OBVIOUS
<1> HIDE DEF r
<1>18. r \in Climbed(t, k, j, block)
  BY <1>1, <1>9, <1>21, <1>10, <1>11, <1>12, <1>13, <1>14, <1>15, <1>16, <1>17 DEF Climbed
<1> QED BY <1>1, <1>18 DEF r, v, q, a, tags, links, c, u, g

\* Every step of the inner loop takes the gap one place down, whichever of its three
\* ends it has: off the list as well, off the stack alone, or renewed.
LEMMA ClimbIs ==
    ASSUME NEW t, Good(t), NEW k \in Nat, NEW j \in Nat, j >= 1, k - j >= 2, NEW block,
           NEW s \in Climbed(t, k, j - 1, block), k <= Len(t.open), Cardinality(Free(t)) >= 4
    PROVE  Climb(s, k - j, j, block) \in Climbed(t, k, j, block)
<1> DEFINE u == s.tree
           n == u.open[k - j]
           at == LastAt(u.active, n)
           c == Fresh(u)
           other == Climb(s, k - j, j, block)
           mark == IF s.last = block THEN at ELSE s.mark
<1>1. Len(t.open) \in Nat /\ Len(t.active) \in Nat
  BY GoodFields
<1>2. s \in Climbers /\ Gapped(u, k - (j - 1))
  BY DEF Climbed
<1>3. Listed(u.active, u.tag) /\ u.active \in Seq(Node \cup {Marker}) /\ Len(u.active) \in Nat
  BY <1>2, GappedFields DEF Gapped
<1>4. at \in 0 .. Len(u.active) /\ (at # 0 => u.active[at] = n)
  BY <1>3, LastAtIs
<1>5. /\ at = 0 =>
            other = [tree |-> Tree(RemoveByNode(u.open, n), u.active, u.tag, u.above),
                     last |-> s.last, mark |-> s.mark]
      /\ at # 0 /\ j > MaxInner =>
            other = [tree |-> Tree(RemoveByNode(u.open, n), RemoveByNode(u.active, n),
                                   u.tag, u.above),
                     last |-> s.last, mark |-> s.mark]
      /\ at # 0 /\ ~ (j > MaxInner) =>
            other = [tree |-> Tree([u.open EXCEPT ![k - j] = c], [u.active EXCEPT ![at] = c],
                                   [u.tag EXCEPT ![c] = u.tag[n]],
                                   [u.above EXCEPT ![s.last] = c]),
                     last |-> c, mark |-> mark]
  <2>1. s \in Climbers
    BY <1>2
  <2>2. Stepped(s, k - j, j, block, other)
    BY <2>1, ClimbStepped
  <2> HIDE DEF other
  <2> QED BY <2>2 DEF Stepped
<1> HIDE DEF other
<1>6. ASSUME at = 0 PROVE other \in Climbed(t, k, j, block)
  <2>1. Len(u.active) <= Len(u.active)
    BY <1>3
  <2>2. [tree |-> Tree(RemoveByNode(u.open, n), u.active, u.tag, u.above),
         last |-> s.last, mark |-> s.mark] \in Climbed(t, k, j, block)
    BY <1>1, <1>3, <2>1, ClimbedRemoved
  <2> QED BY <1>5, <1>6, <2>2
<1>7. ASSUME at # 0, j > MaxInner PROVE other \in Climbed(t, k, j, block)
  <2> DEFINE a == RemoveByNode(u.active, n)
  <2>1. Listed(a, u.tag) /\ Len(a) <= Len(u.active)
    BY <1>3, ListedRemoved
  <2> HIDE DEF a
  <2>2. [tree |-> Tree(RemoveByNode(u.open, n), a, u.tag, u.above),
         last |-> s.last, mark |-> s.mark] \in Climbed(t, k, j, block)
    BY <1>1, <2>1, ClimbedRemoved
  <2> QED BY <1>5, <1>7, <2>2 DEF a
<1>8. ASSUME at # 0, ~ (j > MaxInner) PROVE other \in Climbed(t, k, j, block)
  <2>1. j <= 3
    BY <1>8 DEF MaxInner
  <2>2. at \in 1 .. Len(u.active) /\ u.active[at] = u.open[k - j]
    BY <1>3, <1>4, <1>8
  <2>3. mark \in Nat
    <3>1. s.mark \in Nat /\ at \in Nat
      BY <1>2, <1>3, <1>4, ClimberIs
    <3> QED BY <3>1
  <2> HIDE DEF mark, at, c
  <2>4. [tree |-> Tree([u.open EXCEPT ![k - j] = Fresh(u)], [u.active EXCEPT ![at] = Fresh(u)],
                       [u.tag EXCEPT ![Fresh(u)] = u.tag[u.open[k - j]]],
                       [u.above EXCEPT ![s.last] = Fresh(u)]),
         last |-> Fresh(u), mark |-> mark] \in Climbed(t, k, j, block)
    BY <1>1, <2>1, <2>2, <2>3, ClimbedReplaced
  <2> QED BY <1>5, <1>8, <2>4 DEF c
<1> QED BY <1>6, <1>7, <1>8 DEF other

-----------------------------------------------------------------------------
(* State 15 to 20: what is above the gap goes below the common ancestor,   *)
(* and the new element between the furthest block and what was in it.      *)

\* The tree is good again: what was above the gap is inside the common ancestor, or
\* where AppropriatePlace puts it, and the new element is inside the furthest block
\* with everything that is above it on the stack inside the new one.
LEMMA Adopted ==
    ASSUME NEW u, NEW p, Gapped(u, p), p >= 3, u.tag[u.open[p - 1]] \in AnyFormatting,
           NEW b \in p .. Len(u.open),
           NEW e \in Node, u.tag[e] = NULL, NEW g \in AnyFormatting,
           NEW q \in Seq(Node), Len(q) = Len(u.open),
           \A i \in 1 .. Len(u.open) :
               q[i] = IF i = b THEN e
                      ELSE IF p - 1 <= i /\ i < b THEN u.open[i + 1] ELSE u.open[i],
           NEW tags \in [Node -> Tag \cup {NULL}],
           \A n \in Node : tags[n] = IF n = e THEN g ELSE u.tag[n],
           NEW links,
           links = Between([u.above EXCEPT ![u.open[p]] = AppropriatePlace(u, u.open[p - 2])],
                           e, u.open[b]),
           NEW a, Listed(a, tags)
    PROVE  Good(Tree(q, a, tags, links))
<1> DEFINE L == Len(u.open)
           last == u.open[p]
           block == u.open[b]
           x == u.open[p - 2]
           y == AppropriatePlace(u, x)
           M == [u.above EXCEPT ![last] = y]
           v == Tree(q, a, tags, links)
           h == [i \in 1 .. L |-> IF i = b THEN 0 ELSE IF p - 1 <= i /\ i < b THEN i + 1 ELSE i]
<1>1. /\ u.open \in Seq(Node) /\ L \in Nat /\ p \in Nat /\ p <= L /\ u \in Trees
      /\ u.tag \in [Node -> Tag \cup {NULL}] /\ u.above \in Links /\ Ranked(u.above)
      /\ \A i, j \in 1 .. L : u.open[i] = u.open[j] => i = j
      /\ \A i \in 1 .. L : u.open[i] \in Node /\ u.tag[u.open[i]] # NULL
      /\ Joined(u.tag, u.above) /\ Stacked(u.open, u.tag, u.above)
  BY GappedFields DEF Gapped
<1>2. /\ p - 2 \in 1 .. L /\ p - 1 \in 1 .. L /\ p \in 1 .. L /\ b \in 1 .. L /\ p <= b
      /\ p - 2 < p /\ b \in Nat
  BY <1>1
<1>3. /\ last \in Node /\ u.tag[last] # NULL /\ block \in Node /\ u.tag[block] # NULL
      /\ x \in Node /\ u.tag[x] # NULL /\ last # e /\ block # e
      /\ \A i \in 1 .. L : u.open[i] # e
  BY <1>1, <1>2
<1>4. g \in Tag /\ g # NULL /\ g # "table" /\ NULL \notin Node
  BY TagsAre, NodeAssumption
<1>5. /\ \A i, j \in 1 .. L : i < j /\ j < p => Inside(u.tag, u.above, u.open[i], u.open[j])
      /\ \A i, j \in 1 .. L : p <= i /\ i < j => u.open[i] \in Around(u.above, u.open[j])
      /\ \A i, j \in 1 .. L : i < p /\ p <= j => u.open[j] \notin Around(u.above, u.open[i])
      /\ \A i \in 1 .. L : p <= i => u.tag[u.open[i]] # "table"
  BY DEF Gapped
<1>6. /\ y \in Node /\ u.tag[y] # NULL /\ y \in Around(u.above, x)
      /\ \A i \in 1 .. p - 2 : \/ u.open[i] \in Around(u.above, y)
                               \/ /\ u.tag[u.open[i]] = "table"
                                  /\ u.above[u.open[i]] \in Around(u.above, y)
  <2>1. \A i \in 1 .. (p - 2) - 1 : Inside(u.tag, u.above, u.open[i], u.open[p - 2])
    <3>1. \A i \in 1 .. (p - 2) - 1 : i \in 1 .. L /\ i < p - 2
      BY <1>1, <1>2
    <3> QED BY <1>2, <1>5, <3>1
  <2> DEFINE m == p - 2
  <2>2. m \in 1 .. Len(u.open) /\ \A i \in 1 .. m - 1 : Inside(u.tag, u.above, u.open[i], u.open[m])
    BY <1>2, <2>1
  <2> HIDE DEF m
  <2>3. LET z == AppropriatePlace(u, u.open[m])
        IN  /\ z \in Node /\ u.tag[z] # NULL /\ z \in Around(u.above, u.open[m])
            /\ \A i \in 1 .. m : \/ u.open[i] \in Around(u.above, z)
                                 \/ /\ u.tag[u.open[i]] = "table"
                                    /\ u.above[u.open[i]] \in Around(u.above, z)
    BY <1>1, <2>2, PlaceIs
  <2> QED BY <2>3 DEF m
<1> HIDE DEF y
<1>7. last \notin Around(u.above, y)
  <2>1. last \notin Around(u.above, x)
    BY <1>2, <1>5
  <2>2. Around(u.above, y) \subseteq Around(u.above, x)
    BY <1>1, <1>3, <1>6, AroundIs
  <2> QED BY <2>1, <2>2
<1>8. /\ Ranked(M) /\ Around(M, last) = {last} \cup Around(u.above, y)
      /\ \A z \in Node : last \notin Around(u.above, z) => Around(M, z) = Around(u.above, z)
      /\ \A z \in Node : \A w \in Around(u.above, z) :
            last \in Around(u.above, w) => w \in Around(M, z)
  <2> HIDE DEF last
  <2> QED BY <1>1, <1>3, <1>6, <1>7, LinkMoved
<1>9. \A n \in Node : M[n] = IF n = last THEN y ELSE u.above[n]
  BY <1>1, <1>3 DEF Links
<1>10. links = Between(M, e, block)
  BY DEF y
<1> HIDE DEF M
<1>11. M[e] = NULL /\ \A n \in Node : M[n] # e
  <2>1. \A n \in Node : u.above[n] # NULL => u.tag[n] # NULL /\ u.tag[u.above[n]] # NULL
    BY <1>1 DEF Joined
  <2>2. u.above[e] = NULL /\ \A n \in Node : u.above[n] # e
    BY <1>4, <2>1
  <2> QED BY <1>3, <1>6, <1>9, <2>2
<1>12. /\ Ranked(links) /\ links[e] = block /\ Around(links, e) = {e} \cup Around(links, block)
       /\ \A z \in Node : Around(M, z) \subseteq Around(links, z)
       /\ \A z \in Node : z # e /\ block \notin Around(M, z) =>
             Around(links, z) = Around(M, z) /\ links[z] = M[z]
       /\ \A z \in Node : z # block /\ block \in Around(M, z) => e \in Around(links, z)
  <2> HIDE DEF block
  <2>1. Ranked(M) /\ block \in Node /\ e # block
    BY <1>3, <1>8
  <2>2. LET w == Between(M, e, block)
        IN  /\ Ranked(w) /\ w[e] = block /\ Around(w, e) = {e} \cup Around(w, block)
            /\ \A z \in Node : Around(M, z) \subseteq Around(w, z)
            /\ \A z \in Node : z # e /\ block \notin Around(M, z) =>
                  Around(w, z) = Around(M, z) /\ w[z] = M[z]
            /\ \A z \in Node : z # block /\ block \in Around(M, z) => e \in Around(w, z)
    BY <1>11, <2>1, LinkBetween
  <2> QED BY <1>10, <2>2
<1>13. \A n \in Node : links[n] = IF n = e THEN block ELSE IF M[n] = block THEN e ELSE M[n]
  BY <1>10 DEF Between
<1>14. \A i \in 1 .. L : i < p => /\ Around(links, u.open[i]) = Around(u.above, u.open[i])
                                  /\ links[u.open[i]] = u.above[u.open[i]]
  <2> SUFFICES ASSUME NEW i \in 1 .. L, i < p
               PROVE  /\ Around(links, u.open[i]) = Around(u.above, u.open[i])
                      /\ links[u.open[i]] = u.above[u.open[i]]
    OBVIOUS
  <2> DEFINE z == u.open[i]
  <2>1. z \in Node /\ z # e /\ last \notin Around(u.above, z) /\ block \notin Around(u.above, z)
    BY <1>1, <1>2, <1>3, <1>5
  <2>2. z # last
    BY <1>1, <1>2
  <2> HIDE DEF z
  <2>3. Around(M, z) = Around(u.above, z)
    BY <1>8, <2>1
  <2> HIDE DEF last, block
  <2>4. Around(links, z) = Around(u.above, z) /\ links[z] = u.above[z]
    BY <1>9, <1>12, <2>1, <2>2, <2>3
  <2> QED BY <2>4 DEF z
<1> HIDE DEF last, block, x
<1>15. ASSUME NEW j \in 1 .. L, p <= j
       PROVE  /\ \A i \in 1 .. L : p <= i /\ i <= j => u.open[i] \in Around(M, u.open[j])
              /\ Around(u.above, y) \subseteq Around(links, u.open[j])
  <2> DEFINE z == u.open[j]
  <2>1. z \in Node /\ z \in Around(u.above, z)
    BY <1>1, AroundIs
  <2>2. ASSUME NEW i \in 1 .. L, p <= i, i <= j PROVE u.open[i] \in Around(M, z)
    <3>1. u.open[i] \in Around(u.above, z)
      <4>1. CASE i = j
        BY <2>1, <4>1
      <4>2. CASE i # j
        <5>1. i < j
          BY <2>2, <4>2
        <5> QED BY <1>5, <2>2, <5>1
      <4> QED BY <4>1, <4>2
    <3>2. last \in Around(u.above, u.open[i])
      <4>1. CASE i = p
        BY <1>1, <1>3, <4>1, AroundIs DEF last
      <4>2. CASE i # p
        <5>1. p < i /\ p <= p
          BY <1>1, <2>2, <4>2
        <5> QED BY <1>2, <1>5, <5>1 DEF last
      <4> QED BY <4>1, <4>2
    <3> HIDE DEF z
    <3> QED BY <1>8, <2>1, <3>1, <3>2
  <2>3. last \in Around(M, z)
    <3>1. p <= p
      BY <1>1
    <3> HIDE DEF z
    <3> QED BY <1>2, <1>15, <2>2, <3>1 DEF last
  <2> HIDE DEF z
  <2>4. Around(M, last) \subseteq Around(M, z)
    BY <1>8, <2>1, <2>3, AroundIs
  <2>5. Around(u.above, y) \subseteq Around(links, z)
    BY <1>8, <1>12, <2>1, <2>4
  <2> QED BY <2>2, <2>5 DEF z
<1>16. \A i, j \in 1 .. L : p <= i /\ i <= j => u.open[i] \in Around(links, u.open[j])
  <2> SUFFICES ASSUME NEW i \in 1 .. L, NEW j \in 1 .. L, p <= i, i <= j
               PROVE  u.open[i] \in Around(links, u.open[j])
    OBVIOUS
  <2>1. p <= j /\ u.open[j] \in Node
    BY <1>1
  <2>2. u.open[i] \in Around(M, u.open[j])
    BY <1>15, <2>1
  <2> QED BY <1>12, <2>1, <2>2
<1>17. \A i \in 1 .. L : u.tag[u.open[i]] = "table" => i < p - 1
  <2> SUFFICES ASSUME NEW i \in 1 .. L, u.tag[u.open[i]] = "table" PROVE i < p - 1
    OBVIOUS
  <2>1. ~ (p <= i)
    BY <1>5
  <2>2. i # p - 1
    BY TagsAre
  <2> QED BY <1>1, <2>1, <2>2
<1>18. \A i \in 1 .. L : tags[u.open[i]] = u.tag[u.open[i]]
  BY <1>1, <1>3
<1>19. \A i, j \in 1 .. L : i < j /\ j < p - 1 => Inside(tags, links, u.open[i], u.open[j])
  <2> SUFFICES ASSUME NEW i \in 1 .. L, NEW j \in 1 .. L, i < j, j < p - 1
               PROVE  Inside(tags, links, u.open[i], u.open[j])
    OBVIOUS
  <2>1. i < p /\ j < p
    BY <1>1
  <2>2. Inside(u.tag, u.above, u.open[i], u.open[j])
    BY <1>5, <2>1
  <2> QED BY <1>14, <1>18, <2>1, <2>2 DEF Inside
<1>20. ASSUME NEW i \in 1 .. L, i < p - 1, NEW j \in 1 .. L, p <= j
       PROVE  Inside(tags, links, u.open[i], u.open[j])
  <2>1. i \in 1 .. p - 2 /\ i < p
    BY <1>1, <1>20
  <2>2. \/ u.open[i] \in Around(u.above, y)
        \/ u.tag[u.open[i]] = "table" /\ u.above[u.open[i]] \in Around(u.above, y)
    BY <1>6, <2>1
  <2>3. Around(u.above, y) \subseteq Around(links, u.open[j])
    BY <1>15, <1>20
  <2>4. links[u.open[i]] = u.above[u.open[i]]
    BY <1>14, <2>1
  <2> QED BY <1>18, <2>2, <2>3, <2>4 DEF Inside
<1>21. \A i \in 1 .. L : i < p - 1 => Inside(tags, links, u.open[i], e)
  <2> SUFFICES ASSUME NEW i \in 1 .. L, i < p - 1 PROVE Inside(tags, links, u.open[i], e)
    OBVIOUS
  <2>1. Inside(tags, links, u.open[i], block)
    BY <1>2, <1>20 DEF block
  <2> QED BY <1>12, <2>1 DEF Inside
<1>22. \A i \in 1 .. L : p <= i /\ i <= b => u.open[i] \in Around(links, e)
  <2> SUFFICES ASSUME NEW i \in 1 .. L, p <= i, i <= b PROVE u.open[i] \in Around(links, e)
    OBVIOUS
  <2>1. u.open[i] \in Around(links, block)
    BY <1>2, <1>16 DEF block
  <2> QED BY <1>12, <2>1
<1>23. \A j \in 1 .. L : b < j => e \in Around(links, u.open[j])
  <2> SUFFICES ASSUME NEW j \in 1 .. L, b < j PROVE e \in Around(links, u.open[j])
    OBVIOUS
  <2>1. p <= j /\ b <= j /\ b # j
    BY <1>1, <1>2
  <2>2. block \in Around(M, u.open[j])
    BY <1>2, <1>15, <2>1 DEF block
  <2>3. u.open[j] # block /\ u.open[j] \in Node
    BY <1>1, <1>2, <2>1 DEF block
  <2> QED BY <1>12, <2>2, <2>3
<1>24. links \in Links
  BY <1>12 DEF Ranked
<1>25. v \in Trees
  BY <1>24 DEF Trees, Listed, Tree
<1>26. v.open = q /\ v.active = a /\ v.tag = tags /\ v.above = links
  BY DEF Tree
<1> HIDE DEF v
<1>27. Joined(tags, links)
  <2>1. ASSUME NEW n \in Node, links[n] # NULL PROVE tags[n] # NULL /\ tags[links[n]] # NULL
    <3>1. tags[e] # NULL /\ tags[block] # NULL /\ tags[last] # NULL /\ tags[y] # NULL
      BY <1>3, <1>4, <1>6
    <3>2. CASE n = e
      BY <1>13, <3>1, <3>2
    <3>3. CASE n # e
      <4>1. M[n] # NULL /\ (links[n] = e \/ links[n] = M[n])
        <5>1. links[n] = IF M[n] = block THEN e ELSE M[n]
          BY <1>13, <3>3
        <5>2. block # NULL
          BY <1>3, <1>4
        <5> QED BY <2>1, <5>1, <5>2
      <4>2. CASE n = last
        BY <1>9, <3>1, <4>1, <4>2
      <4>3. CASE n # last
        <5>1. M[n] = u.above[n] /\ u.above[n] # NULL
          BY <1>9, <4>1, <4>3
        <5>2. u.tag[n] # NULL /\ u.tag[u.above[n]] # NULL /\ u.above[n] \in Node
          BY <1>1, <5>1 DEF Joined, Links
        <5>3. tags[n] # NULL /\ tags[u.above[n]] # NULL
          BY <3>1, <5>2
        <5> QED BY <3>1, <4>1, <5>1, <5>3
      <4> QED BY <4>2, <4>3
    <3> QED BY <3>2, <3>3
  <2> QED BY <1>12, <2>1 DEF Joined
<1>28. Stacked(q, tags, links)
  <2>1. Renewed(q, u.open, h, e)
    <3>1. h \in [1 .. Len(q) -> 0 .. Len(u.open)] /\ h[1] = 1 /\ Len(q) >= 1
      BY <1>1, <1>2
    <3>2. \A i \in 1 .. Len(q) : q[i] = IF h[i] = 0 THEN e ELSE u.open[h[i]]
      BY <1>1, <1>2
    <3>3. \A i, j \in 1 .. Len(q) : i < j /\ h[i] # 0 /\ h[j] # 0 => h[i] < h[j]
      BY <1>1, <1>2
    <3>4. \A i, j \in 1 .. Len(q) : h[i] = 0 /\ h[j] = 0 => i = j
      BY <1>1, <1>2
    <3> HIDE DEF h
    <3> QED BY <3>1, <3>2, <3>3, <3>4 DEF Renewed
  <2>2. \A i \in 1 .. L : i < p - 1 => i < p
    BY <1>1
  <2>3. \A i \in 1 .. Len(u.open) :
            /\ tags[u.open[i]] = u.tag[u.open[i]]
            /\ u.tag[u.open[i]] = "table" => Around(links, u.open[i]) = Around(u.above, u.open[i])
    BY <1>14, <1>17, <1>18, <2>2
  <2>4. \A j \in 1 .. Len(u.open) : u.open[j] # e /\ e \notin Around(u.above, u.open[j])
    BY <1>1, <1>3, AroundTagged
  <2>5. tags[e] \in Tag /\ tags[e] # "table"
    BY <1>4
  <2>6. \A i \in 1 .. Len(q) : h[i] = 0 =>
            /\ \A j \in 1 .. Len(u.open) :
                  /\ u.open[j] # e
                  /\ u.tag[u.open[j]] = "table" => e \notin Around(u.above, u.open[j])
            /\ tags[e] \in Tag
            /\ tags[e] = "table" => /\ i = Len(q)
                                    /\ \A j \in 1 .. Len(u.open) : u.tag[u.open[j]] # "table"
    BY <2>4, <2>5
  <2>7. Stacked(u.open, u.tag, u.above)
    BY <1>1
  <2>8. ASSUME NEW open, NEW q1, NEW h1, NEW above, NEW tag,
               Stacked(open, tag, above), Renewed(q1, open, h1, e),
               \A i \in 1 .. Len(open) :
                   /\ tags[open[i]] = tag[open[i]]
                   /\ tag[open[i]] = "table" => Around(links, open[i]) = Around(above, open[i]),
               \A i \in 1 .. Len(q1) : h1[i] = 0 =>
                   /\ \A j \in 1 .. Len(open) :
                         /\ open[j] # e
                         /\ tag[open[j]] = "table" => e \notin Around(above, open[j])
                   /\ tags[e] \in Tag
                   /\ tags[e] = "table" => /\ i = Len(q1)
                                           /\ \A j \in 1 .. Len(open) : tag[open[j]] # "table"
         PROVE  Stacked(q1, tags, links)
    BY <2>8, StackedRenewed, SMTT(30)
  <2> HIDE DEF h, L
  <2> QED BY <2>1, <2>3, <2>6, <2>7, <2>8, SMTT(30)
<1>29. Nested(q, tags, links)
  <2> SUFFICES ASSUME NEW i \in 1 .. L, NEW j \in 1 .. L, i < j
               PROVE  Inside(tags, links, q[i], q[j])
    BY DEF Nested
  <2>12. p \in Nat /\ b \in Nat /\ L \in Nat /\ p <= b /\ b <= L
    BY <1>1, <1>2
  <2>10. ASSUME NEW m \in 1 .. L
         PROVE  /\ m = b => q[m] = e
                /\ p - 1 <= m /\ m < b => q[m] = u.open[m + 1]
                /\ m < p - 1 \/ b < m => q[m] = u.open[m]
    <3>1. q[m] = IF m = b THEN e ELSE IF p - 1 <= m /\ m < b THEN u.open[m + 1] ELSE u.open[m]
      OBVIOUS
    <3>2. /\ m < p - 1 => m # b
          /\ b < m => m # b /\ ~ (m < b)
          /\ m < p - 1 => ~ (p - 1 <= m)
          /\ m < b => m # b
      BY <2>12
    <3> QED BY <3>1, <3>2
  <2>11. \A m \in 1 .. L : p - 1 <= m /\ m < b => m + 1 \in 1 .. L /\ p <= m + 1
    BY <2>12
  <2>1. CASE j < p - 1
    <3>1. i < p - 1
      BY <2>1, <2>12
    <3>2. q[i] = u.open[i] /\ q[j] = u.open[j]
      BY <2>1, <2>10, <3>1
    <3> QED BY <1>19, <2>1, <3>1, <3>2
  <2>2. CASE i < p - 1 /\ p - 1 <= j /\ j # b
    <3>1. q[i] = u.open[i]
      BY <2>2, <2>10
    <3>2. \E m \in 1 .. L : p <= m /\ q[j] = u.open[m]
      <4>1. CASE j < b
        <5>1. j + 1 \in 1 .. L /\ p <= j + 1 /\ q[j] = u.open[j + 1]
          BY <2>2, <2>10, <2>11, <4>1
        <5> QED BY <5>1
      <4>2. CASE b < j
        <5>1. p <= j /\ q[j] = u.open[j]
          BY <1>1, <1>2, <2>2, <4>2
        <5> QED BY <5>1
      <4>3. j < b \/ b < j
        BY <1>2, <2>2
      <4> QED BY <4>1, <4>2, <4>3
    <3> QED BY <1>20, <2>2, <3>1, <3>2
  <2>3. CASE i < p - 1 /\ j = b
    <3>1. q[i] = u.open[i] /\ q[j] = e
      BY <2>3, <2>10
    <3> QED BY <1>21, <2>3, <3>1
  <2>4. CASE p - 1 <= i /\ i < b /\ j = b
    <3>1. i \in Nat /\ i + 1 \in 1 .. L /\ p <= i + 1 /\ i + 1 <= b /\ i # b
      BY <1>1, <1>2, <2>4
    <3>2. q[j] = e
      BY <2>4
    <3>3. q[i] = u.open[i + 1]
      BY <2>4, <3>1
    <3> QED BY <1>22, <3>1, <3>2, <3>3 DEF Inside
  <2>5. CASE i = b
    <3>1. b < j /\ q[i] = e /\ q[j] = u.open[j]
      BY <1>1, <1>2, <2>5
    <3> QED BY <1>23, <3>1 DEF Inside
  <2>6. CASE p - 1 <= i /\ i # b /\ j # b
    <3>1. \E k, m \in 1 .. L : p <= k /\ k <= m /\ q[i] = u.open[k] /\ q[j] = u.open[m]
      <4>1. CASE j < b
        <5>1. /\ i + 1 \in 1 .. L /\ j + 1 \in 1 .. L /\ p <= i + 1 /\ i + 1 <= j + 1
              /\ q[i] = u.open[i + 1] /\ q[j] = u.open[j + 1]
          <6>1. p - 1 <= i /\ i < b /\ p - 1 <= j /\ j < b
            BY <1>1, <1>2, <2>6, <4>1
          <6>2. i + 1 <= j + 1
            OBVIOUS
          <6> QED BY <2>10, <2>11, <6>1, <6>2
        <5> QED BY <5>1
      <4>2. CASE i < b /\ b < j
        <5>1. /\ i + 1 \in 1 .. L /\ p <= i + 1 /\ i + 1 <= j
              /\ q[i] = u.open[i + 1] /\ q[j] = u.open[j]
          <6>1. p - 1 <= i /\ i < b /\ b < j
            BY <2>6, <4>2
          <6>2. i + 1 <= j
            OBVIOUS
          <6> QED BY <2>10, <2>11, <6>1, <6>2
        <5> QED BY <5>1
      <4>3. CASE b < i
        <5>1. p <= i /\ i <= j /\ q[i] = u.open[i] /\ q[j] = u.open[j]
          <6>1. b < i /\ b < j /\ p <= i /\ i <= j
            BY <1>1, <1>2, <4>3
          <6> QED BY <2>10, <6>1
        <5> QED BY <5>1
      <4>4. j < b \/ (i < b /\ b < j) \/ b < i
        BY <1>2, <2>6
      <4> QED BY <4>1, <4>2, <4>3, <4>4
    <3> QED BY <1>16, <3>1 DEF Inside
  <2>7. i < p - 1 \/ p - 1 <= i
    BY <1>1
  <2>8. j < p - 1 \/ p - 1 <= j
    BY <1>1
  <2>9. p - 1 <= i /\ j = b => i < b
    BY <1>2
  <2> QED BY <2>1, <2>2, <2>3, <2>4, <2>5, <2>6, <2>7, <2>8, <2>9
<1> QED BY <1>25, <1>26, <1>27, <1>28, <1>29 DEF Good, v

-----------------------------------------------------------------------------
(* A turn that rearranges.                                                 *)

\* State 19 with the positions it has: wherever they point by then, the list stays
\* a list of different elements and does not become longer than it was before the turn.
LEMMA ReplacedIs ==
    ASSUME NEW active, NEW tag, Listed(active, tag), NEW longest \in Nat,
           Len(active) <= longest, NEW index \in 1 .. longest, NEW mark \in Nat,
           NEW e \in Node, tag[e] \in AnyFormatting,
           \A i \in 1 .. Len(active) : active[i] # e
    PROVE  LET q == Replaced(active, index, mark, e)
           IN  Listed(q, tag) /\ Len(q) <= longest
<1> DEFINE left == IF index <= Len(active) THEN RemoveAt(active, index) ELSE active
           n == Min({mark, Len(left)})
           q == InsertAt(left, n + 1, e)
<1>1. active \in Seq(Node \cup {Marker}) /\ Len(active) \in Nat /\ e # Marker
      /\ e \in Node \cup {Marker}
  BY NodeAssumption DEF Listed
<1>2. /\ Listed(left, tag) /\ Len(left) + 1 <= longest
      /\ \A i \in 1 .. Len(left) : left[i] # e
  <2>1. CASE index <= Len(active)
    <3> DEFINE r == RemoveAt(active, index)
    <3>1. index \in 1 .. Len(active)
      BY <1>1, <2>1
    <3>2. r \in Seq(Node \cup {Marker}) /\ Shortened(r, active, index)
      BY <1>1, <3>1, RemoveAtIs
    <3>3. left = r
      BY <2>1
    <3> HIDE DEF r, left
    <3>4. Listed(r, tag)
      BY <3>1, <3>2, ListedShortened
    <3>5. Len(r) = Len(active) - 1
      BY <3>2 DEF Shortened
    <3>6. \A i \in 1 .. Len(r) : r[i] # e
      <4>1. \A i \in 1 .. Len(r) :
                /\ i \in 1 .. Len(active) - 1 /\ i \in 1 .. Len(active)
                /\ i + 1 \in 1 .. Len(active)
        BY <1>1, <3>5
      <4> QED BY <3>2, <4>1 DEF Shortened
    <3> QED BY <1>1, <3>3, <3>4, <3>5, <3>6
  <2>2. CASE ~ (index <= Len(active))
    BY <1>1, <2>2
  <2> QED BY <2>1, <2>2
<1> HIDE DEF left
<1>3. left \in Seq(Node \cup {Marker}) /\ Len(left) \in Nat
  BY <1>2 DEF Listed
<1>4. n + 1 \in 1 .. Len(left) + 1
  <2>1. {mark, Len(left)} \in SUBSET Nat /\ {mark, Len(left)} # {}
    BY <1>3
  <2>2. n \in {mark, Len(left)} /\ n <= Len(left)
    BY <2>1, MinIs
  <2> HIDE DEF n
  <2> QED BY <1>3, <2>2
<1> HIDE DEF n
<1>5. q \in Seq(Node \cup {Marker}) /\ Lengthened(q, left, n + 1, e)
  BY <1>1, <1>3, <1>4, InsertAtIs
<1>6. Replaced(active, index, mark, e) = q
  BY DEF Replaced, left, n
<1> HIDE DEF q
<1>7. Listed(q, tag)
  BY <1>1, <1>2, <1>4, <1>5, ListedLengthened
<1>8. Len(q) <= longest
  BY <1>2, <1>3, <1>5 DEF Lengthened
<1> QED BY <1>6, <1>7, <1>8

\* What the stack holds when place p - 1 has left and e is above place b.
Shifted(q, open, p, b, e) ==
    /\ q \in Seq(Node) /\ Len(q) = Len(open)
    /\ \A i \in 1 .. Len(open) :
          q[i] = IF i = b THEN e
                 ELSE IF p - 1 <= i /\ i < b THEN open[i + 1] ELSE open[i]

\* State 20: the formatting element leaves the stack, and the new one is above
\* the furthest block.
LEMMA RestackedIs ==
    ASSUME NEW open \in Seq(Node), \A i, j \in 1 .. Len(open) : open[i] = open[j] => i = j,
           NEW p \in 2 .. Len(open), NEW b \in p .. Len(open), NEW e \in Node
    PROVE  Shifted(Restacked(open, open[p - 1], open[b], e), open, p, b, e)
<1> DEFINE f == open[p - 1]
           block == open[b]
           left == RemoveByNode(open, f)
           at == LastAt(left, block)
           q == InsertAt(left, at + 1, e)
<1>1. /\ Len(open) \in Nat /\ p \in Nat /\ b \in Nat /\ 2 <= p /\ p <= b /\ b <= Len(open)
      /\ p - 1 \in 1 .. Len(open) /\ b \in 1 .. Len(open)
  OBVIOUS
<1>2. LastAt(open, f) = p - 1
  <2> DEFINE z == LastAt(open, f)
  <2>1. z \in 0 .. Len(open) /\ (z # 0 => open[z] = f)
        /\ \A i \in 1 .. Len(open) : open[i] = f => i <= z /\ z # 0
    BY LastAtIs
  <2> HIDE DEF z
  <2>2. z # 0
    BY <1>1, <2>1
  <2>3. z \in 1 .. Len(open) /\ open[z] = open[p - 1]
    BY <1>1, <2>1, <2>2
  <2>4. z = p - 1
    BY <1>1, <2>3
  <2> QED BY <2>4 DEF z
<1>3. left \in Seq(Node) /\ Shortened(left, open, p - 1)
  <2>1. p - 1 # 0
    BY <1>1
  <2> HIDE DEF f
  <2> QED BY <1>2, <2>1, RemoveByNodeIs
<1> HIDE DEF left
<1>4. /\ Len(left) = Len(open) - 1
      /\ \A j \in 1 .. Len(open) - 1 : left[j] = IF j < p - 1 THEN open[j] ELSE open[j + 1]
  BY <1>3 DEF Shortened
<1>5. at = b - 1
  <2>1. at \in 0 .. Len(left) /\ (at # 0 => left[at] = block)
        /\ \A i \in 1 .. Len(left) : left[i] = block => i <= at /\ at # 0
    <3> HIDE DEF block
    <3> QED BY <1>3, LastAtIs
  <2> HIDE DEF at
  <2>2. b - 1 \in 1 .. Len(left) /\ b - 1 \in 1 .. Len(open) - 1 /\ ~ (b - 1 < p - 1)
        /\ (b - 1) + 1 = b
    BY <1>1, <1>4
  <2>3. left[b - 1] = block
    BY <1>4, <2>2
  <2>4. at \in 1 .. Len(open) - 1 /\ b - 1 <= at /\ left[at] = block
    BY <1>1, <1>4, <2>1, <2>2, <2>3
  <2>5. ~ (at < p - 1) /\ at + 1 \in 1 .. Len(open)
    BY <1>1, <2>4
  <2>6. open[at + 1] = open[b]
    BY <1>4, <2>4, <2>5
  <2>7. at + 1 = b
    BY <1>1, <2>5, <2>6
  <2> QED BY <1>1, <2>4, <2>7
<1>6. at + 1 = b /\ b \in 1 .. Len(left) + 1
  BY <1>1, <1>4, <1>5
<1> HIDE DEF at
<1>7. q \in Seq(Node) /\ Lengthened(q, left, b, e)
  BY <1>3, <1>6, InsertAtIs
<1>8. Restacked(open, f, block, e) = q
  BY DEF Restacked, left, at
<1> HIDE DEF q
<1>9. /\ Len(q) = Len(left) + 1
      /\ \A j \in 1 .. Len(left) + 1 :
            q[j] = IF j < b THEN left[j] ELSE IF j = b THEN e ELSE left[j - 1]
  BY <1>7 DEF Lengthened
<1>10. Len(q) = Len(open)
  BY <1>1, <1>4, <1>9
<1>11. ASSUME NEW i \in 1 .. Len(open)
       PROVE  q[i] = IF i = b THEN e
                     ELSE IF p - 1 <= i /\ i < b THEN open[i + 1] ELSE open[i]
  <2>1. q[i] = IF i < b THEN left[i] ELSE IF i = b THEN e ELSE left[i - 1]
    <3>1. Len(left) + 1 = Len(open)
      BY <1>1, <1>4
    <3> QED BY <1>9, <3>1
  <2>2. CASE i < b
    <3>1. i \in 1 .. Len(open) - 1 /\ i # b
      BY <1>1, <2>2
    <3>2. (i < p - 1 /\ ~ (p - 1 <= i)) \/ (~ (i < p - 1) /\ p - 1 <= i)
      BY <1>1
    <3> QED BY <1>4, <2>1, <2>2, <3>1, <3>2
  <2>3. CASE i = b
    BY <1>1, <2>1, <2>3
  <2>4. CASE b < i
    <3>1. /\ i - 1 \in 1 .. Len(open) - 1 /\ ~ (i < b) /\ i # b /\ ~ (i - 1 < p - 1)
          /\ (i - 1) + 1 = i
      BY <1>1, <2>4
    <3>2. left[i - 1] = open[i]
      BY <1>4, <3>1
    <3> QED BY <2>1, <3>1, <3>2
  <2>5. i < b \/ i = b \/ b < i
    BY <1>1
  <2> QED BY <2>2, <2>3, <2>4, <2>5
<1> QED BY <1>7, <1>8, <1>10, <1>11 DEF Shifted

-----------------------------------------------------------------------------
\* The walk up from the furthest block to the formatting element.
Walked(t, index, at, k) ==
    LET block == t.open[k]
        n == k - at - 1
        climbed[j \in 0 .. n] ==
            IF j = 0 THEN [tree |-> t, last |-> block, mark |-> index - 1]
            ELSE Climb(climbed[j - 1], k - j, j, block)
    IN  climbed[n]

\* The rest of the turn, with what the walk has left.
Rearranged(t, s, index, at, k) ==
    LET f == t.active[index]
        block == t.open[k]
        e == Fresh(s.tree)
        u == Adopt(s.tree, s.last, t.open[at - 1], block, e, t.tag[f])
    IN  [u EXCEPT !.active = Replaced(@, index, s.mark, e),
                  !.open = Restacked(@, f, block, e)]

\* A turn is the walk and then the rest.
LEMMA RearrangeClimbs ==
    ASSUME NEW t, NEW index, NEW at, NEW k
    PROVE  Rearrange(t, index, at, k) =
              Rearranged(t, Walked(t, index, at, k), index, at, k)
  BY DEF Rearrange, Rearranged, Walked

\* When the walk ends the gap is right above the formatting element, and no more
\* than three elements have been used.
LEMMA ClimbingIs ==
    ASSUME NEW t, Good(t), NEW at \in 2 .. Len(t.open), NEW k \in at + 1 .. Len(t.open),
           \A i \in k .. Len(t.open) : t.tag[t.open[i]] # "table",
           Cardinality(Free(t)) >= 4, NEW index \in 1 .. Len(t.active)
    PROVE  Walked(t, index, at, k) \in Climbed(t, k, k - at - 1, t.open[k])
<1> DEFINE block == t.open[k]
           start == [tree |-> t, last |-> block, mark |-> index - 1]
           n == k - at - 1
           A == [j \in 0 .. n |-> Climbed(t, k, j, block)]
           Step == [j \in 1 .. n |-> [x \in Climbers |-> Climb(x, k - j, j, block)]]
           Body(f) == [j \in 0 .. n |-> IF j = 0 THEN start
                                        ELSE Climb(f[j - 1], k - j, j, block)]
           table == CHOOSE f : f = Body(f)
<1>1. /\ Len(t.active) \in Nat /\ DOMAIN t.active = 1 .. Len(t.active) /\ t \in Trees
      /\ Cardinality(Free(t)) \in Nat /\ Len(t.open) \in Nat
      /\ t.open \in Seq(Node) /\ \A i \in 1 .. Len(t.open) : t.open[i] \in Node
  BY GoodFields, FreeFinite
<1>2. /\ n \in Nat /\ k \in 2 .. Len(t.open) /\ k \in Nat /\ at \in Nat
      /\ \A j \in 1 .. n : k - j >= 2 /\ j >= 1 /\ j \in Nat
  BY <1>1
<1>3. Walked(t, index, at, k) = table[n]
  BY DEF Walked
<1> HIDE DEF n
<1>4. start \in Climbed(t, k, 0, block)
  <2>1. Gapped(t, k)
    BY <1>2, GappedStart
  <2>2. k - 0 = k /\ k <= k /\ k \in 1 .. Len(t.open)
    BY <1>1, <1>2
  <2>3. start \in Climbers
    <3>1. index - 1 \in Nat /\ block \in Node
      BY <1>1, <2>2
    <3> HIDE DEF block
    <3> QED BY <1>1, <3>1 DEF Climbers
  <2>4. \E b \in 1 .. Len(t.open) : k <= b /\ t.open[b] = block
    BY <2>2
  <2>5. /\ Cardinality(Free(t)) <= Cardinality(Free(t)) + 3
        /\ Cardinality(Free(t)) <= Cardinality(Free(t)) + 0
    BY <1>1
  <2>6. start.tree = t /\ start.last = block
    OBVIOUS
  <2>7. t.open[k] = block /\ Len(t.open) <= Len(t.open) /\ Len(t.active) <= Len(t.active)
    BY <1>1
  <2> HIDE DEF block, start
  <2> QED BY <2>1, <2>2, <2>3, <2>4, <2>5, <2>6, <2>7 DEF Climbed
<1>5. ASSUME NEW j \in 1 .. n, NEW x \in Climbed(t, k, j - 1, block)
      PROVE  Climb(x, k - j, j, block) \in Climbed(t, k, j, block)
  <2>1. k <= Len(t.open)
    BY <1>2
  <2> HIDE DEF block
  <2> QED BY <1>2, <1>5, <2>1, ClimbIs
<1>6. \A j : Climbed(t, k, j, block) \subseteq Climbers
  BY DEF Climbed
<1> HIDE DEF block, start
<1>7. Leads(n, A, start, Step)
  <2>1. start \in A[0]
    BY <1>2, <1>4
  <2>2. ASSUME NEW j \in 1 .. n, NEW x \in A[j - 1] PROVE Step[j][x] \in A[j]
    <3>1. j - 1 \in 0 .. n /\ j \in 0 .. n
      BY <1>2
    <3>2. x \in Climbed(t, k, j - 1, block) /\ x \in Climbers
      BY <1>6, <2>2, <3>1
    <3>3. Step[j][x] = Climb(x, k - j, j, block)
      BY <3>2
    <3> QED BY <1>5, <3>1, <3>2, <3>3
  <2> HIDE DEF A, Step
  <2> QED BY <2>1, <2>2 DEF Leads
<1>8. \A j \in 1 .. n : \A x \in A[j - 1] : Step[j][x] = Climb(x, k - j, j, block)
  <2> SUFFICES ASSUME NEW j \in 1 .. n, NEW x \in A[j - 1]
               PROVE  Step[j][x] = Climb(x, k - j, j, block)
    OBVIOUS
  <2>1. j - 1 \in 0 .. n
    BY <1>2
  <2>2. x \in Climbers
    BY <1>6, <2>1
  <2> QED BY <2>2
<1>9. table = Body(table)
  <2>1. PICK f : IsTable(f, n, start, Step) /\ \A i \in 0 .. n : f[i] \in A[i]
    <3> HIDE DEF A, Step
    <3> QED BY <1>2, <1>7, TableOf
  <2>2. f = Body(f)
    <3>1. \A j \in 1 .. n : j - 1 \in 0 .. n
      BY <1>2
    <3>2. \A j \in 1 .. n : Step[j][f[j - 1]] = Climb(f[j - 1], k - j, j, block)
      <4> HIDE DEF A, Step
      <4> QED BY <1>8, <2>1, <3>1
    <3>3. \A j \in 0 .. n : j # 0 => j \in 1 .. n
      BY <1>2
    <3> HIDE DEF Step
    <3> QED BY <2>1, <3>2, <3>3 DEF IsTable
  <2> HIDE DEF Body
  <2> QED BY <2>2
<1> HIDE DEF table
<1>10. \A i \in 0 .. n : table[i] \in A[i]
  <2>1. table[0] = start
    BY <1>2, <1>9
  <2>2. \A j \in 1 .. n : table[j] = Climb(table[j - 1], k - j, j, block)
    <3>1. \A j \in 1 .. n : j \in 0 .. n /\ j # 0
      BY <1>2
    <3> QED BY <1>9, <3>1
  <2>3. \A j \in 1 .. n : table[j - 1] \in A[j - 1] => table[j] = Step[j][table[j - 1]]
    <3> HIDE DEF A, Step
    <3> QED BY <1>8, <2>2
  <2> HIDE DEF A, Step
  <2> QED BY <1>2, <1>7, <2>1, <2>3, TableIn
<1>11. table[n] \in Climbed(t, k, n, block)
  BY <1>2, <1>10
<1> QED BY <1>3, <1>11 DEF n, block

\* What the record of a tree is once all four fields have changed.
Finished(t, s, index, at, k, other) ==
    LET u == s.tree
        f == t.active[index]
        block == t.open[k]
        e == Fresh(u)
        moved == [u.above EXCEPT ![s.last] = AppropriatePlace(u, t.open[at - 1])]
    IN  other = Tree(Restacked(u.open, f, block, e), Replaced(u.active, index, s.mark, e),
                     [u.tag EXCEPT ![e] = t.tag[f]], Between(moved, e, block))

\* The record that Rearrange returns is one of this kind.
LEMMA RearrangedIs ==
    ASSUME NEW t, NEW s \in Climbers, NEW index, NEW at, NEW k
    PROVE  Finished(t, s, index, at, k, Rearranged(t, s, index, at, k))
<1> DEFINE u == s.tree
           f == t.active[index]
           block == t.open[k]
           e == Fresh(u)
           moved == [u.above EXCEPT ![s.last] = AppropriatePlace(u, t.open[at - 1])]
           links == Between(moved, e, block)
           tags == [u.tag EXCEPT ![e] = t.tag[f]]
           o == Restacked(u.open, f, block, e)
           a == Replaced(u.active, index, s.mark, e)
           x == [u EXCEPT !.tag = tags]
           v == [x EXCEPT !.above = links]
<1>1. u \in Trees
  BY ClimberIs
<1>2. Adopt(u, s.last, t.open[at - 1], block, e, t.tag[f]) = v
  BY DEF Adopt, Between
<1>3. PICK p, q, r, y : u = [open |-> p, active |-> q, tag |-> r, above |-> y]
  BY <1>1 DEF Trees
<1>4. p = u.open /\ q = u.active
  BY <1>3
<1> HIDE DEF tags, links
<1>5. x = [open |-> p, active |-> q, tag |-> tags, above |-> y]
  BY <1>3
<1> HIDE DEF x
<1>6. v = [open |-> p, active |-> q, tag |-> tags, above |-> links]
  BY <1>5
<1>7. Rearranged(t, s, index, at, k) =
          [v EXCEPT !.active = Replaced(v.active, index, s.mark, e),
                    !.open = Restacked(v.open, f, block, e)]
  BY <1>2 DEF Rearranged
<1> HIDE DEF v, u, e, block, f
<1>8. v.active = u.active /\ v.open = u.open
  BY <1>4, <1>6
<1> DEFINE w == [v EXCEPT !.active = a]
<1>9. Rearranged(t, s, index, at, k) = [w EXCEPT !.open = o]
  BY <1>7, <1>8
<1> HIDE DEF a, o
<1>10. w = [open |-> p, active |-> a, tag |-> tags, above |-> links]
  BY <1>6
<1> HIDE DEF w
<1>11. [w EXCEPT !.open = o] = [open |-> o, active |-> a, tag |-> tags, above |-> links]
  BY <1>10
<1>12. Rearranged(t, s, index, at, k) = Tree(o, a, tags, links)
  BY <1>9, <1>11 DEF Tree
<1> QED BY <1>12 DEF Finished, o, a, tags, links, u, e, block, f

\* What a turn that rearranges leaves is a good tree, with neither of its lists
\* longer, and it has used four elements at most.
LEMMA RearrangeIs ==
    ASSUME NEW t, Good(t), NEW at \in 2 .. Len(t.open), NEW k \in at + 1 .. Len(t.open),
           \A i \in k .. Len(t.open) : t.tag[t.open[i]] # "table",
           Cardinality(Free(t)) >= 4, NEW index \in 1 .. Len(t.active),
           t.active[index] # Marker, t.open[at] = t.active[index]
    PROVE  LET v == Rearrange(t, index, at, k)
           IN  /\ Grown(v, t, 4) /\ Len(v.open) <= Len(t.open)
               /\ Len(v.active) <= Len(t.active)
<1> DEFINE block == t.open[k]
           f == t.active[index]
           p == at + 1
           s == Walked(t, index, at, k)
           u == s.tree
           e == Fresh(u)
           g == t.tag[f]
           moved == [u.above EXCEPT ![s.last] = AppropriatePlace(u, t.open[at - 1])]
           links == Between(moved, e, block)
           tags == [u.tag EXCEPT ![e] = g]
           q == Restacked(u.open, f, block, e)
           a == Replaced(u.active, index, s.mark, e)
           v == Tree(q, a, tags, links)
<1>1. /\ Len(t.active) \in Nat /\ Len(t.open) \in Nat /\ t.tag \in [Node -> Tag \cup {NULL}]
      /\ \A i \in 1 .. Len(t.open) : t.open[i] \in Node /\ t.tag[t.open[i]] # NULL
      /\ \A i \in 1 .. Len(t.active) : t.active[i] # Marker =>
            t.active[i] \in Node /\ t.tag[t.active[i]] \in AnyFormatting
  BY GoodFields
<1>2. /\ at \in Nat /\ k \in Nat /\ k - (k - at - 1) = p /\ p \in Nat /\ p >= 3
      /\ at < p /\ at - 1 < p /\ at \in 1 .. Len(t.open) /\ at - 1 \in 1 .. Len(t.open)
      /\ p - 1 = at /\ p - 2 = at - 1
  <2>1. Len(t.open) \in Nat
    BY <1>1
  <2>2. at \in Nat /\ k \in Nat /\ at \in 1 .. Len(t.open) /\ at - 1 \in 1 .. Len(t.open)
    BY <2>1
  <2>3. at >= 2
    BY <2>1, <2>2
  <2>4. \A x, y \in Nat : x >= 2 =>
           /\ y - (y - x - 1) = x + 1 /\ x + 1 \in Nat /\ x + 1 >= 3
           /\ x < x + 1 /\ x - 1 < x + 1 /\ (x + 1) - 1 = x /\ (x + 1) - 2 = x - 1
    OBVIOUS
  <2> QED BY <2>2, <2>3, <2>4
<1>3. f \in Node /\ g \in AnyFormatting /\ g \in Tag /\ g # NULL /\ g # "table"
  BY <1>1, TagsAre
<1>4. s \in Climbed(t, k, k - at - 1, block)
  BY ClimbingIs
<1> HIDE DEF s
<1>5. s \in Climbers /\ u \in Trees /\ s.mark \in Nat
  BY <1>4, ClimberIs DEF Climbed
<1>6. /\ Gapped(u, p) /\ u.open[p] = s.last
      /\ \A i \in 1 .. Len(t.open) : i < p => u.open[i] = t.open[i]
      /\ \E b \in 1 .. Len(u.open) : p <= b /\ u.open[b] = block
      /\ Len(u.open) <= Len(t.open) /\ Len(u.active) <= Len(t.active)
      /\ \A m \in Node : t.tag[m] # NULL => u.tag[m] = t.tag[m]
      /\ NoTable(t) => NoTable(u)
      /\ Cardinality(Free(t)) <= Cardinality(Free(u)) + 3
  <2> HIDE DEF block, p
  <2> QED BY <1>2, <1>4 DEF Climbed
<1>7. Rearrange(t, index, at, k) = v
  <2>1. Rearrange(t, index, at, k) = Rearranged(t, s, index, at, k)
    BY RearrangeClimbs DEF s
  <2>2. Rearranged(t, s, index, at, k) = v
    <3> HIDE DEF s
    <3>1. Finished(t, s, index, at, k, Rearranged(t, s, index, at, k))
      BY <1>5, RearrangedIs
    <3> QED BY <3>1 DEF Finished
  <2> QED BY <2>1, <2>2
<1>8. u.open[p - 1] = f /\ u.open[p - 2] = t.open[at - 1]
  BY <1>2, <1>6
<1>9. PICK b \in 1 .. Len(u.open) : p <= b /\ u.open[b] = block
  BY <1>6
<1> HIDE DEF u, p, block, f, g
<1>10. /\ u.open \in Seq(Node) /\ Len(u.open) \in Nat /\ Len(u.active) \in Nat
       /\ u.tag \in [Node -> Tag \cup {NULL}]
       /\ \A i \in 1 .. Len(u.open) : u.open[i] \in Node /\ u.tag[u.open[i]] # NULL
       /\ \A i \in 1 .. Len(u.active) : u.active[i] # Marker =>
             u.active[i] \in Node /\ u.tag[u.active[i]] # NULL
       /\ \A i, j \in 1 .. Len(u.open) : u.open[i] = u.open[j] => i = j
       /\ p \in 2 .. Len(u.open) /\ Listed(u.active, u.tag)
  <2>1. Gapped(u, p)
    BY <1>6
  <2>2. p \in 2 .. Len(u.open) /\ Listed(u.active, u.tag)
    BY <2>1 DEF Gapped
  <2> QED BY <2>1, <2>2, GappedFields
<1>11. b \in p .. Len(u.open)
  BY <1>2, <1>9, <1>10
<1>12. e \in Node /\ u.tag[e] = NULL /\ e \in Free(u)
  <2>1. Cardinality(Free(u)) \in Nat /\ Cardinality(Free(t)) \in Nat
    BY FreeFinite
  <2>2. Cardinality(Free(u)) # 0
    BY <1>6, <2>1
  <2>3. Free(u) # {}
    BY <2>2, FS_EmptySet
  <2> QED BY <2>3, FreshIs
<1> HIDE DEF e
<1>13. /\ q \in Seq(Node) /\ Len(q) = Len(u.open)
       /\ \A i \in 1 .. Len(u.open) :
             q[i] = IF i = b THEN e
                    ELSE IF p - 1 <= i /\ i < b THEN u.open[i + 1] ELSE u.open[i]
  <2>1. /\ u.open \in Seq(Node) /\ e \in Node /\ p \in 2 .. Len(u.open)
        /\ \A i, j \in 1 .. Len(u.open) : u.open[i] = u.open[j] => i = j
    BY <1>10, <1>12
  <2> DEFINE r == Restacked(u.open, u.open[p - 1], u.open[b], e)
  <2>2. Shifted(r, u.open, p, b, e)
    <3> DEFINE o == u.open
    <3>1. /\ o \in Seq(Node) /\ e \in Node /\ p \in 2 .. Len(o) /\ b \in p .. Len(o)
          /\ \A i, j \in 1 .. Len(o) : o[i] = o[j] => i = j
      BY <1>11, <2>1
    <3> HIDE DEF o
    <3>2. Shifted(Restacked(o, o[p - 1], o[b], e), o, p, b, e)
      BY <3>1, RestackedIs
    <3> QED BY <3>2 DEF o
  <2>3. q = r
    BY <1>8, <1>9
  <2> HIDE DEF q, r
  <2> QED BY <2>2, <2>3 DEF Shifted
<1>14. /\ tags \in [Node -> Tag \cup {NULL}] /\ tags[e] = g
       /\ \A n \in Node : tags[n] = IF n = e THEN g ELSE u.tag[n]
  BY <1>3, <1>10, <1>12
<1> HIDE DEF tags, q
<1>15. /\ Listed(u.active, tags)
       /\ \A i \in 1 .. Len(u.active) : u.active[i] # e
  <2>1. \A i \in 1 .. Len(u.active) : u.active[i] # e
    BY <1>10, <1>12, NodeAssumption
  <2>2. \A i \in 1 .. Len(u.active) : u.active[i] # Marker =>
            tags[u.active[i]] = u.tag[u.active[i]]
    BY <1>10, <1>14, <2>1
  <2>3. Listed(u.active, u.tag)
    BY <1>10
  <2>4. Listed(u.active, tags)
    <3>1. \A d, w : Listed(d, w) /\ (\A i \in 1 .. Len(d) : d[i] # Marker => tags[d[i]] = w[d[i]])
                    => Listed(d, tags)
      BY ListedSame
    <3> QED BY <2>2, <2>3, <3>1
  <2> QED BY <2>1, <2>4
<1>16. Listed(a, tags) /\ Len(a) <= Len(t.active)
  <2>1. /\ Len(t.active) \in Nat /\ Len(u.active) <= Len(t.active) /\ s.mark \in Nat
        /\ e \in Node /\ tags[e] \in AnyFormatting /\ Listed(u.active, tags)
    BY <1>1, <1>3, <1>5, <1>6, <1>12, <1>14, <1>15
  <2> QED BY <1>15, <2>1, ReplacedIs
<1> HIDE DEF a
<1>17. links = Between([u.above EXCEPT ![u.open[p]] = AppropriatePlace(u, u.open[p - 2])],
                       e, u.open[b])
  BY <1>6, <1>8, <1>9
<1> HIDE DEF links
<1>18. u.tag[u.open[p - 1]] \in AnyFormatting
  BY <1>1, <1>2, <1>3, <1>6, <1>8 DEF f, g
<1>19. Good(v)
  <2>1. /\ Gapped(u, p) /\ p >= 3 /\ e \in Node /\ u.tag[e] = NULL /\ g \in AnyFormatting
        /\ q \in Seq(Node) /\ Len(q) = Len(u.open) /\ tags \in [Node -> Tag \cup {NULL}]
        /\ Listed(a, tags)
    BY <1>2, <1>3, <1>6, <1>12, <1>13, <1>14, <1>16
  <2>2. /\ \A i \in 1 .. Len(u.open) :
              q[i] = IF i = b THEN e
                     ELSE IF p - 1 <= i /\ i < b THEN u.open[i + 1] ELSE u.open[i]
        /\ \A n \in Node : tags[n] = IF n = e THEN g ELSE u.tag[n]
    BY <1>13, <1>14
  <2> QED BY <1>11, <1>17, <1>18, <2>1, <2>2, Adopted
<1>20. v.open = q /\ v.active = a /\ v.tag = tags
  BY DEF Tree
<1> HIDE DEF v
<1>21. \A m \in Node : t.tag[m] # NULL => v.tag[m] = t.tag[m]
  BY <1>6, <1>12, <1>14, <1>20
<1>22. NoTable(t) => NoTable(v)
  <2> SUFFICES ASSUME NoTable(u), NEW i \in 1 .. Len(q) PROVE tags[q[i]] # "table"
    BY <1>6, <1>20 DEF NoTable
  <2>1. q[i] = e \/ \E j \in 1 .. Len(u.open) : q[i] = u.open[j]
    <3>1. i < b => i + 1 \in 1 .. Len(u.open)
      BY <1>10, <1>13
    <3> QED BY <1>13, <3>1
  <2> QED BY <1>3, <1>10, <1>14, <2>1 DEF NoTable
<1>23. Cardinality(Free(t)) <= Cardinality(Free(v)) + 4
  <2>1. \A m \in Node : m # e => v.tag[m] = u.tag[m]
    BY <1>14, <1>20
  <2>4. e \in Free(u) /\ v.tag[e] # NULL
    BY <1>3, <1>12, <1>14, <1>20
  <2>2. Cardinality(Free(v)) \in Nat /\ Cardinality(Free(u)) = Cardinality(Free(v)) + 1
    <3> HIDE DEF block, f, p, s, u, e, g, moved, links, tags, q, a, v
    <3>1. ASSUME NEW w, NEW x, NEW c \in Free(w), x.tag[c] # NULL,
                 \A m \in Node : m # c => x.tag[m] = w.tag[m]
          PROVE  Cardinality(Free(x)) \in Nat /\ Cardinality(Free(w)) = Cardinality(Free(x)) + 1
      BY ONLY <3>1, FreeTaken
    <3> QED BY ONLY <2>1, <2>4, <3>1
  <2>3. Cardinality(Free(t)) \in Nat
    BY FreeFinite
  <2> QED BY <1>6, <2>2, <2>3
<1>24. Len(v.open) <= Len(t.open) /\ Len(v.active) <= Len(t.active)
  BY <1>6, <1>13, <1>16, <1>20
<1>25. Len(v.open) <= Len(t.open) + 4
  BY <1>1, <1>10, <1>13, <1>20, <1>24
<1>26. Grown(v, t, 4)
  BY <1>19, <1>21, <1>22, <1>23, <1>25 DEF Grown
<1> QED BY <1>7, <1>24, <1>26

-----------------------------------------------------------------------------
(* A turn of the outer loop, and what follows the last one.                *)

\* u comes from t, and neither of the two lists has become longer.
Turned(u, t, k) ==
    /\ Grown(u, t, k)
    /\ Len(u.open) <= Len(t.open) /\ Len(u.active) <= Len(t.active)

\* What uses up to j elements uses up to k, when k is more.
LEMMA GrownMore ==
    ASSUME NEW t, Good(t), NEW j, NEW u, Grown(u, t, j), NEW k \in Nat, j <= k
    PROVE  Grown(u, t, k)
<1>1. /\ Len(u.open) \in Nat /\ Len(t.open) \in Nat /\ j \in Nat
      /\ Cardinality(Free(u)) \in Nat /\ Cardinality(Free(t)) \in Nat
  BY GoodFields, FreeFinite DEF Grown
<1>2. Len(u.open) <= Len(t.open) + j /\ Cardinality(Free(t)) <= Cardinality(Free(u)) + j
  BY DEF Grown
<1>3. Len(u.open) <= Len(t.open) + k /\ Cardinality(Free(t)) <= Cardinality(Free(u)) + k
  BY <1>1, <1>2, MoreAndMore
<1> QED BY <1>3 DEF Grown

\* Taking an entry off the list, and places off the stack, uses nothing.
LEMMA TurnedDown ==
    ASSUME NEW t, Good(t)
    PROVE  /\ Turned(t, t, 0)
           /\ \A u : Closed(u, t) => Turned(u, t, 0)
           /\ \A x : Turned([t EXCEPT !.active = RemoveByNode(t.active, x)], t, 0)
<1>1. Len(t.open) \in Nat /\ Len(t.active) \in Nat
  BY GoodFields
<1>2. Turned(t, t, 0)
  BY <1>1, GrownNot DEF Turned
<1>3. ASSUME NEW u, Closed(u, t) PROVE Turned(u, t, 0)
  <2>1. Grown(u, t, 0)
    BY <1>3, GrownNot
  <2> QED BY <1>1, <1>3, <2>1 DEF Turned, Closed
<1>4. ASSUME NEW x PROVE Turned([t EXCEPT !.active = RemoveByNode(t.active, x)], t, 0)
  <2> DEFINE q == RemoveByNode(t.active, x)
             u == [t EXCEPT !.active = q]
  <2>1. Listed(t.active, t.tag)
    BY DEF Good
  <2>2. Listed(q, t.tag) /\ Len(q) <= Len(t.active)
    BY <2>1, ListedRemoved
  <2> HIDE DEF q
  <2>3. Grown(u, t, 0) /\ u.open = t.open /\ u.active = q
    BY <2>2, GrownActive
  <2> HIDE DEF u
  <2>4. Turned(u, t, 0)
    BY <1>1, <2>2, <2>3 DEF Turned
  <2> QED BY <2>4 DEF u, q
<1> QED BY <1>2, <1>3, <1>4

\* Two turns, one after the other.
LEMMA TurnedOn ==
    ASSUME NEW t, Good(t), NEW u, NEW j, Turned(u, t, j), NEW s, NEW k, Turned(s, u, k)
    PROVE  Turned(s, t, j + k)
<1>1. Good(u) /\ Good(s)
  BY DEF Turned, Grown
<1>2. Grown(s, t, j + k)
  BY GrownOn DEF Turned
<1>3. /\ Len(t.open) \in Nat /\ Len(t.active) \in Nat /\ Len(u.open) \in Nat
      /\ Len(u.active) \in Nat /\ Len(s.open) \in Nat /\ Len(s.active) \in Nat
  BY <1>1, GoodFields
<1>4. Len(s.open) <= Len(t.open) /\ Len(s.active) <= Len(t.active)
  BY <1>3 DEF Turned
<1> QED BY <1>2, <1>4 DEF Turned

\* The entry that is found, if there is one, is an element with the tag looked for.
LEMMA BetweenLastMarkerIs ==
    ASSUME NEW t, Good(t), NEW g
    PROVE  LET i == BetweenLastMarker(t, g) IN
           /\ i \in 0 .. Len(t.active)
           /\ i # 0 => /\ i \in 1 .. Len(t.active) /\ t.active[i] # Marker
                       /\ t.tag[t.active[i]] = g
<1> DEFINE S == {i \in DOMAIN t.active :
                   i > LastAt(t.active, Marker) /\ t.tag[t.active[i]] = g} \cup {0}
           i == BetweenLastMarker(t, g)
<1>1. /\ Len(t.active) \in Nat /\ DOMAIN t.active = 1 .. Len(t.active)
      /\ t.active \in Seq(Node \cup {Marker})
  BY GoodFields
<1>2. S \in SUBSET (0 .. Len(t.active)) /\ S # {}
  BY <1>1
<1>3. i = Max(S)
  BY DEF BetweenLastMarker
<1>4. Max(S) \in S
  <2> HIDE DEF S
  <2> QED BY <1>1, <1>2, MaxIs
<1> HIDE DEF i
<1>5. i \in 0 .. Len(t.active)
  BY <1>2, <1>3, <1>4
<1>6. ASSUME i # 0
      PROVE  i \in 1 .. Len(t.active) /\ t.active[i] # Marker /\ t.tag[t.active[i]] = g
  <2>1. i \in 1 .. Len(t.active) /\ i > LastAt(t.active, Marker) /\ t.tag[t.active[i]] = g
    BY <1>1, <1>3, <1>4, <1>6
  <2> DEFINE z == LastAt(t.active, Marker)
  <2>2. z \in 0 .. Len(t.active) /\ (t.active[i] = Marker => i <= z)
    BY <1>1, <2>1, LastAtIs
  <2>3. z \in Nat /\ i \in Nat /\ i > z
    BY <1>1, <2>1, <2>2
  <2> HIDE DEF z
  <2> QED BY <2>1, <2>2, <2>3
<1> QED BY <1>5, <1>6 DEF i

\* A turn of the outer loop leaves a good tree by whichever of its ends it has, and
\* needs four free elements.
LEMMA TurnIs ==
    ASSUME NEW t, Good(t), Cardinality(Free(t)) >= 4, NEW g \in AnyFormatting
    PROVE  Turned(Turn(t, g).tree, t, 4)
<1> DEFINE index == BetweenLastMarker(t, g)
           f == t.active[index]
           at == LastAt(t.open, f)
           blocks == {k \in at .. Len(t.open) : t.tag[t.open[k]] \in Special}
           off == [t EXCEPT !.active = RemoveByNode(t.active, f)]
           popped == PopFrom(t, at)
           both == [popped EXCEPT !.active = RemoveByNode(popped.active, f)]
           moved == Rearrange(t, index, at, Min(blocks))
           u == Turn(t, g).tree
<1>1. /\ t.open \in Seq(Node) /\ Len(t.open) \in Nat /\ t.tag[t.open[1]] = "html"
      /\ Len(t.active) \in Nat
  BY GoodFields DEF Good, Stacked
<1>2. /\ index \in 0 .. Len(t.active)
      /\ index # 0 => index \in 1 .. Len(t.active) /\ f # Marker /\ t.tag[f] = g
  BY BetweenLastMarkerIs
<1>3. u = IF index = 0 THEN t
          ELSE IF at = 0 THEN off
          ELSE IF ~ InScopeAt(t, at) THEN t
          ELSE IF blocks = {} THEN both
          ELSE moved
  BY DEF Turn
<1> HIDE DEF index, f, u
<1>4. at \in 0 .. Len(t.open) /\ (at # 0 => t.open[at] = f)
  BY <1>1, LastAtIs
<1> HIDE DEF at
<1>5. at # 0 /\ index # 0 => at \in 2 .. Len(t.open)
  <2>1. g # "html"
    BY TagsAre
  <2> QED BY <1>1, <1>2, <1>4, <2>1
<1>6. ASSUME NEW v, Turned(v, t, 0) PROVE Turned(v, t, 4)
  <2>1. Grown(v, t, 0)
    BY <1>6 DEF Turned
  <2>2. Grown(v, t, 4)
    BY <2>1, GrownMore
  <2> QED BY <1>6, <2>2 DEF Turned
<1>7. Turned(t, t, 0) /\ Turned(off, t, 0)
  BY TurnedDown
<1>8. ASSUME at # 0, index # 0 PROVE Turned(both, t, 0)
  <2>1. Closed(popped, t)
    BY <1>5, <1>8, PopFromIs
  <2> HIDE DEF popped
  <2>2. Turned(popped, t, 0) /\ Good(popped)
    BY <2>1, TurnedDown DEF Closed
  <2>3. Turned(both, popped, 0)
    BY <2>2, TurnedDown
  <2> HIDE DEF both
  <2>4. Turned(both, t, 0 + 0)
    BY <2>2, <2>3, TurnedOn
  <2> QED BY <2>4
<1>9. ASSUME at # 0, index # 0, InScopeAt(t, at), blocks # {}
      PROVE  Turned(moved, t, 4)
  <2> DEFINE k == Min(blocks)
  <2>1. blocks \in SUBSET Nat
    BY <1>1, <1>5, <1>9
  <2>2. k \in blocks
    <3> HIDE DEF blocks
    <3> QED BY <1>9, <2>1, MinIs
  <2>3. k \in at .. Len(t.open) /\ t.tag[t.open[k]] \in Special
    BY <2>2
  <2> HIDE DEF k
  <2>4. k # at
    BY <1>2, <1>4, <1>9, <2>3, TagsAre
  <2>5. k \in at + 1 .. Len(t.open) /\ at \in 2 .. Len(t.open)
    BY <1>1, <1>5, <1>9, <2>3, <2>4
  <2>6. \A i \in k .. Len(t.open) : t.tag[t.open[i]] # "table"
    <3>1. \A i \in k .. Len(t.open) : i \in at + 1 .. Len(t.open)
      BY <1>1, <2>5
    <3> QED BY <1>9, <3>1, TagsAre DEF InScopeAt
  <2>7. index \in 1 .. Len(t.active) /\ t.active[index] # Marker /\ t.open[at] = t.active[index]
    BY <1>2, <1>4, <1>9 DEF f
  <2> DEFINE v == Rearrange(t, index, at, k)
  <2>8. Grown(v, t, 4) /\ Len(v.open) <= Len(t.open) /\ Len(v.active) <= Len(t.active)
    BY <2>5, <2>6, <2>7, RearrangeIs
  <2> HIDE DEF v
  <2>9. Turned(v, t, 4)
    BY <2>8 DEF Turned
  <2> QED BY <2>9 DEF v, k
<1> HIDE DEF off, both, moved, blocks
<1> QED BY <1>3, <1>6, <1>7, <1>8, <1>9 DEF u

\* What the caller of the algorithm does in the end: nothing more than popping, or
\* it opens the element that its start tag is for.
LEMMA ReturnIs ==
    ASSUME NEW t, Good(t), NEW j \in Job, NEW ends,
           j.caller = "a" => j.node # NULL /\ t.tag[j.node] = "a",
           j.caller # "end" => Cardinality(Free(t)) >= Len(t.active) + 1
    PROVE  LET v == Return(t, j, ends) IN
           /\ Good(v) /\ (NoTable(t) => NoTable(v))
           /\ j.caller = "end" => /\ Len(v.open) <= Len(t.open)
                                  /\ Len(v.active) <= Len(t.active)
           /\ j.caller # "end" => /\ Len(v.open) <= Len(t.open) + Len(t.active) + 1
                                  /\ Len(v.active) <= Len(t.active) + 1
<1> DEFINE other == IF ends = "true" THEN AnythingElseClosed(t, j.tag) ELSE t
           less == [t EXCEPT !.active = RemoveByNode(t.active, j.node)]
           both == [less EXCEPT !.open = RemoveByNode(less.open, j.node)]
           v == Return(t, j, ends)
<1>1. /\ j.tag \in AnyFormatting /\ j.node \in Node \cup {NULL}
      /\ j.caller \in {"end", "a", "nobr"}
  BY DEF Job
<1>2. Turned(other, t, 0)
  <2>1. j.tag \notin Special
    BY <1>1, TagsAre
  <2>2. Closed(AnythingElseClosed(t, j.tag), t)
    BY <2>1, AnythingElseClosedIs
  <2> QED BY <2>2, TurnedDown
<1>3. ASSUME j.caller = "a" PROVE Turned(both, t, 0)
  <2>1. Turned(less, t, 0)
    BY TurnedDown
  <2>2. less.open = t.open /\ less.tag = t.tag
    BY GoodFields DEF Good, Trees
  <2> HIDE DEF less
  <2>3. Good(less)
    BY <2>1 DEF Turned, Grown
  <2>4. j.node # less.open[1]
    BY <1>3, <2>2, TagsAre DEF Good, Stacked
  <2> DEFINE q == RemoveByNode(less.open, j.node)
  <2>5. Closed(both, less)
    BY <2>3, <2>4, RemoveOpenIs
  <2> HIDE DEF both
  <2>6. Turned(both, less, 0)
    BY <2>3, <2>5, TurnedDown
  <2>7. Turned(both, t, 0 + 0)
    BY <2>1, <2>6, TurnedOn
  <2> QED BY <2>7
<1>4. v = CASE j.caller = "end" -> other
            [] j.caller = "nobr" -> StartFormatting(other, j.tag)
            [] j.caller = "a" -> StartFormatting(both, j.tag)
  <2>1. [t EXCEPT !.active = RemoveByNode(@, j.node), !.open = RemoveByNode(@, j.node)] = both
    BY GoodFields DEF Good, Trees
  <2> QED BY <2>1 DEF Return
<1> HIDE DEF v, other, both
<1>5. ASSUME NEW s, Turned(s, t, 0), j.caller # "end", v = StartFormatting(s, j.tag)
      PROVE  /\ Good(v) /\ (NoTable(t) => NoTable(v))
             /\ Len(v.open) <= Len(t.open) + Len(t.active) + 1
             /\ Len(v.active) <= Len(t.active) + 1
  <2>1. /\ Good(s) /\ Len(s.open) <= Len(t.open) /\ Len(s.active) <= Len(t.active)
        /\ NoTable(t) => NoTable(s)
        /\ Cardinality(Free(t)) <= Cardinality(Free(s)) + 0
    BY <1>5 DEF Turned, Grown
  <2>2. /\ Len(s.open) \in Nat /\ Len(s.active) \in Nat /\ Len(t.open) \in Nat
        /\ Len(t.active) \in Nat
        /\ Cardinality(Free(s)) \in Nat /\ Cardinality(Free(t)) \in Nat
    BY <2>1, GoodFields, FreeFinite
  <2>3. Cardinality(Free(s)) >= Len(s.active) + 1
    BY <1>5, <2>1, <2>2
  <2>4. Grown(v, s, Len(s.active) + 1) /\ Len(v.active) <= Len(s.active) + 1
    BY <1>1, <1>5, <2>1, <2>3, StartFormattingIs
  <2>5. /\ Good(v) /\ (NoTable(s) => NoTable(v))
        /\ Len(v.open) <= Len(s.open) + (Len(s.active) + 1)
    BY <2>4 DEF Grown
  <2>6. Len(v.open) \in Nat /\ Len(v.active) \in Nat
    BY <2>5, GoodFields
  <2>7. Len(v.open) <= Len(t.open) + Len(t.active) + 1 /\ Len(v.active) <= Len(t.active) + 1
    <3>1. \A a, b, c, d, x, y \in Nat :
              /\ a <= b + (c + 1) /\ b <= x /\ c <= y => a <= x + y + 1
              /\ d <= c + 1 /\ c <= y => d <= y + 1
      OBVIOUS
    <3> QED BY <2>1, <2>2, <2>4, <2>5, <2>6, <3>1
  <2> QED BY <2>1, <2>5, <2>7
<1>6. ASSUME j.caller = "end"
       PROVE  /\ Good(v) /\ (NoTable(t) => NoTable(v))
              /\ Len(v.open) <= Len(t.open) /\ Len(v.active) <= Len(t.active)
  <2>1. v = other
    BY <1>4, <1>6
  <2> QED BY <1>2, <1>6, <2>1 DEF Turned, Grown
<1>7. ASSUME j.caller = "nobr"
       PROVE  /\ Good(v) /\ (NoTable(t) => NoTable(v))
              /\ Len(v.open) <= Len(t.open) + Len(t.active) + 1
              /\ Len(v.active) <= Len(t.active) + 1
  <2>1. v = StartFormatting(other, j.tag)
    BY <1>4, <1>7
  <2> QED BY <1>2, <1>5, <1>7, <2>1
<1>8. ASSUME j.caller = "a"
       PROVE  /\ Good(v) /\ (NoTable(t) => NoTable(v))
              /\ Len(v.open) <= Len(t.open) + Len(t.active) + 1
              /\ Len(v.active) <= Len(t.active) + 1
  <2>1. v = StartFormatting(both, j.tag)
    BY <1>4, <1>8
  <2> QED BY <1>3, <1>5, <1>8, <2>1
<1> QED BY <1>1, <1>6, <1>7, <1>8 DEF v

-----------------------------------------------------------------------------
(* The invariant.                                                          *)

\* The element that the caller of the algorithm still points at.
Kept(j) == IF j = NULL THEN NULL ELSE j.node

\* What it says of a tree, the algorithm in progress, and the mode.
Sound(t, j, m) ==
    /\ Good(t)
    /\ m \in {"in_body", "in_table"} /\ (m = "in_body" => NoTable(t))
    /\ j \in {NULL} \cup Job
    /\ Len(t.open) + 2 * Len(t.active) + 5 <= Cardinality(Node)
    /\ j # NULL /\ j.caller # "end" =>
          Len(t.open) + 3 * Len(t.active) + 8 <= Cardinality(Node)
    /\ j # NULL /\ j.caller = "a" => j.node # NULL
    /\ j # NULL /\ j.node # NULL => t.tag[j.node] = "a"

\* Only what something points at has a tag: everything else can be used again.
Inv ==
    /\ words \in Vocabulary
    /\ Sound(tree, job, mode)
    /\ \A n \in Node : tree.tag[n] # NULL => n \in Known(tree, Kept(job))

\* Forgetting keeps what the invariant says.
LEMMA SettledSound ==
    ASSUME words \in Vocabulary, words' = words,
           NEW t, NEW j, Sound(t, j, mode'), job' = j, tree' = Settled(t, Kept(j))
    PROVE  Inv'
<1> DEFINE kept == Kept(j)
           u == Settled(t, kept)
<1>1. Good(t) /\ j \in {NULL} \cup Job
  BY DEF Sound
<1>2. kept \in Node \cup {NULL}
  BY <1>1 DEF Kept, Job
<1> HIDE DEF kept
<1>3. /\ Good(u) /\ u.open = t.open /\ u.active = t.active
      /\ \A n \in Node : u.tag[n] = IF n \in Known(t, kept) THEN t.tag[n] ELSE NULL
      /\ Known(u, kept) = Known(t, kept)
  BY <1>1, <1>2, SettledIs
<1> HIDE DEF u
<1>4. \A n \in Node : u.tag[n] # NULL => n \in Known(u, kept)
  BY <1>3
<1>5. NoTable(t) => NoTable(u)
  <2>1. \A i \in 1 .. Len(t.open) : t.open[i] \in Node
    BY <1>1, GoodFields
  <2>2. NULL # "table"
    BY NullIsNoTag, TagsAre
  <2> QED BY <1>3, <2>1, <2>2 DEF NoTable
<1>6. j # NULL /\ j.node # NULL => u.tag[j.node] = "a"
  <2> SUFFICES ASSUME j # NULL, j.node # NULL PROVE u.tag[j.node] = "a"
    OBVIOUS
  <2>1. kept = j.node
    BY DEF kept, Kept
  <2>2. j.node \in Node /\ j.node \in Known(t, kept)
    BY <1>2, <2>1 DEF Known
  <2>3. t.tag[j.node] = "a"
    BY DEF Sound
  <2> QED BY <1>3, <2>2, <2>3
<1>7. Sound(u, j, mode')
  BY <1>3, <1>5, <1>6 DEF Sound
<1>8. tree' = u /\ job' = j /\ kept = Kept(j)
  BY DEF u, kept
<1> QED BY <1>4, <1>7, <1>8 DEF Inv

\* A handler that is done leaves a document of the size the model follows.
LEMMA HandledSound ==
    ASSUME words \in Vocabulary, NEW t, Good(t), Handled(t), job' = NULL,
           mode' \in {"in_body", "in_table"}, mode' = "in_body" => NoTable(t)
    PROVE  Inv'
<1>1. /\ words' = words /\ tree' = Settled(t, NULL)
      /\ Len(t.open) <= words.open /\ Len(t.active) <= words.active
  BY DEF Handled
<1>2. words.open \in Nat /\ words.active \in Nat
      /\ words.open + 3 * words.active + 5 <= Cardinality(Node)
  BY VocabularyAssumption
<1>3. Len(t.open) \in Nat /\ Len(t.active) \in Nat /\ Cardinality(Node) \in Nat
  BY GoodFields, UsedAndFree
<1>4. Len(t.open) + 2 * Len(t.active) + 5 <= Cardinality(Node)
  <2>1. \A a, b, x, y, n \in Nat :
            a <= x /\ b <= y /\ x + 3 * y + 5 <= n => a + 2 * b + 5 <= n
    OBVIOUS
  <2> QED BY <1>1, <1>2, <1>3, <2>1
<1>5. Sound(t, NULL, mode')
  BY <1>4 DEF Sound
<1>6. Kept(NULL) = NULL
  BY DEF Kept
<1>7. words' = words /\ tree' = Settled(t, Kept(NULL))
  BY <1>1, <1>6
<1> QED BY <1>5, <1>7, SettledSound

\* There are elements for whatever a handler opens.
LEMMA RoomIs ==
    ASSUME Inv
    PROVE  /\ Len(tree.open) \in Nat /\ Len(tree.active) \in Nat
           /\ Cardinality(Free(tree)) \in Nat /\ Cardinality(Node) \in Nat
           /\ Good(tree) /\ words \in Vocabulary /\ mode \in {"in_body", "in_table"}
           /\ job \in {NULL} \cup Job /\ (mode = "in_body" => NoTable(tree))
           /\ Cardinality(Free(tree)) >= Len(tree.active) + 4
           /\ job = NULL =>
                 /\ Cardinality(Free(tree)) >= Len(tree.active) + 5
                 /\ Cardinality(Node) <= Cardinality(Free(tree)) + Len(tree.open) + Len(tree.active)
           /\ job # NULL /\ job.caller # "end" =>
                 Cardinality(Free(tree)) >= 2 * Len(tree.active) + 7
<1>1. /\ Good(tree) /\ words \in Vocabulary /\ mode \in {"in_body", "in_table"}
      /\ job \in {NULL} \cup Job /\ (mode = "in_body" => NoTable(tree))
      /\ Len(tree.open) + 2 * Len(tree.active) + 5 <= Cardinality(Node)
      /\ job # NULL /\ job.caller # "end" =>
            Len(tree.open) + 3 * Len(tree.active) + 8 <= Cardinality(Node)
  BY DEF Inv, Sound
<1>2. /\ Len(tree.open) \in Nat /\ Len(tree.active) \in Nat
      /\ Cardinality(Free(tree)) \in Nat /\ Cardinality(Node) \in Nat
  BY <1>1, GoodFields, FreeFinite, UsedAndFree
<1> DEFINE kept == Kept(job)
<1>3. kept \in Node \cup {NULL} /\ (job = NULL => kept = NULL)
  BY <1>1 DEF Kept, Job
<1>4. \A n \in Node : tree.tag[n] # NULL => n \in Known(tree, kept)
  BY DEF Inv
<1> HIDE DEF kept
<1>5. /\ Cardinality(Node) <= Cardinality(Free(tree)) + Len(tree.open) + Len(tree.active) + 1
      /\ kept = NULL =>
            Cardinality(Node) <= Cardinality(Free(tree)) + Len(tree.open) + Len(tree.active)
  BY <1>1, <1>3, <1>4, KnownFew
<1>6. \A o, a, f, n \in Nat :
          /\ o + 2 * a + 5 <= n /\ n <= f + o + a + 1 => f >= a + 4
          /\ o + 2 * a + 5 <= n /\ n <= f + o + a => f >= a + 5
          /\ o + 3 * a + 8 <= n /\ n <= f + o + a + 1 => f >= 2 * a + 7
  OBVIOUS
<1> QED BY <1>1, <1>2, <1>3, <1>5, <1>6

\* The algorithm goes on with what a turn leaves.
LEMMA TurnedSound ==
    ASSUME NEW t, NEW j, NEW m, Sound(t, j, m), NEW k, NEW s, Turned(s, t, k)
    PROVE  Sound(s, j, m)
<1>1. /\ Good(t) /\ Good(s) /\ (NoTable(t) => NoTable(s))
      /\ Len(s.open) <= Len(t.open) /\ Len(s.active) <= Len(t.active)
      /\ \A n \in Node : t.tag[n] # NULL => s.tag[n] = t.tag[n]
  BY DEF Turned, Grown, Sound
<1>2. /\ Len(t.open) \in Nat /\ Len(t.active) \in Nat
      /\ Len(s.open) \in Nat /\ Len(s.active) \in Nat /\ Cardinality(Node) \in Nat
  BY <1>1, GoodFields, UsedAndFree
<1>3. \A a, b, x, y, n \in Nat : a <= x /\ b <= y =>
          /\ x + 2 * y + 5 <= n => a + 2 * b + 5 <= n
          /\ x + 3 * y + 8 <= n => a + 3 * b + 8 <= n
  OBVIOUS
<1>4. /\ Len(s.open) + 2 * Len(s.active) + 5 <= Cardinality(Node)
      /\ j # NULL /\ j.caller # "end" =>
            Len(s.open) + 3 * Len(s.active) + 8 <= Cardinality(Node)
  BY <1>1, <1>2, <1>3 DEF Sound
<1>5. j # NULL /\ j.node # NULL => s.tag[j.node] = "a"
  <2>1. j # NULL /\ j.node # NULL => j.node \in Node /\ t.tag[j.node] = "a"
    BY DEF Sound, Job
  <2>2. "a" # NULL
    BY NullIsNoTag DEF Tag, AnyFormatting
  <2> QED BY <1>1, <2>1, <2>2
<1> QED BY <1>1, <1>4, <1>5 DEF Sound

\* The caller of the algorithm finishes.
LEMMA ReturnSound ==
    ASSUME words \in Vocabulary, words' = words, mode' = mode, job' = NULL,
           NEW t, NEW j \in Job, Sound(t, j, mode), NEW ends,
           j.caller # "end" => Cardinality(Free(t)) >= Len(t.active) + 1,
           tree' = Settled(Return(t, j, ends), NULL)
    PROVE  Inv'
<1> DEFINE v == Return(t, j, ends)
<1>1. j # NULL
  BY NullIsNoJob
<1>2. Good(t) /\ (j.caller = "a" => j.node # NULL /\ t.tag[j.node] = "a")
  BY <1>1 DEF Sound
<1>3. /\ Good(v) /\ (NoTable(t) => NoTable(v))
      /\ j.caller = "end" => Len(v.open) <= Len(t.open) /\ Len(v.active) <= Len(t.active)
      /\ j.caller # "end" => /\ Len(v.open) <= Len(t.open) + Len(t.active) + 1
                             /\ Len(v.active) <= Len(t.active) + 1
  BY <1>2, ReturnIs
<1> HIDE DEF v
<1>4. /\ Len(t.open) \in Nat /\ Len(t.active) \in Nat
      /\ Len(v.open) \in Nat /\ Len(v.active) \in Nat /\ Cardinality(Node) \in Nat
  BY <1>2, <1>3, GoodFields, UsedAndFree
<1>5. \A a, b, x, y, n \in Nat :
          /\ a <= x /\ b <= y /\ x + 2 * y + 5 <= n => a + 2 * b + 5 <= n
          /\ a <= x + y + 1 /\ b <= y + 1 /\ x + 3 * y + 8 <= n => a + 2 * b + 5 <= n
  OBVIOUS
<1>6. Len(v.open) + 2 * Len(v.active) + 5 <= Cardinality(Node)
  BY <1>1, <1>3, <1>4, <1>5 DEF Sound
<1>7. Sound(v, NULL, mode')
  BY <1>3, <1>6 DEF Sound
<1>8. tree' = Settled(v, Kept(NULL))
  BY DEF Kept, v
<1> QED BY <1>7, <1>8, SettledSound

\* The algorithm begins, or State 2 is all of it.
LEMMA CallSound ==
    ASSUME words \in Vocabulary, job = NULL, NEW t, NEW j \in Job, Sound(t, j, mode),
           Cardinality(Free(t)) >= Len(t.active) + 1, CallAdoption(t, j)
    PROVE  Inv'
<1>1. Good(t) /\ j # NULL /\ j.tag \in AnyFormatting
  BY NullIsNoJob DEF Sound, Job
<1>2. /\ t.tag[t.open[1]] = "html" /\ Len(t.open) \in Nat /\ Len(t.open) >= 1
      /\ Current(t) = t.open[Len(t.open)] /\ Len(t.active) \in Nat
  BY <1>1, GoodFields DEF Good, Stacked
<1>3. CASE t.tag[Current(t)] = j.tag /\ Current(t) \notin ToSet(t.active)
  <2> DEFINE s == PopFrom(t, Len(t.open))
  <2>1. Len(t.open) # 1
    BY <1>1, <1>2, <1>3, TagsAre
  <2>2. Len(t.open) \in 2 .. Len(t.open)
    <3>1. \A n \in Nat : n >= 1 /\ n # 1 => n \in 2 .. n
      OBVIOUS
    <3> QED BY <1>2, <2>1, <3>1
  <2>3. Closed(s, t)
    BY <1>1, <2>2, PopFromIs
  <2>4. /\ tree' = Settled(Return(s, j, "false"), NULL)
        /\ words' = words /\ mode' = mode /\ job' = NULL
    BY <1>3 DEF CallAdoption
  <2> HIDE DEF s
  <2>5. Turned(s, t, 0) /\ s.active = t.active /\ Free(s) = Free(t)
    BY <1>1, <2>3, TurnedDown, ClosedIs DEF Closed
  <2>6. Sound(s, j, mode)
    BY <2>5, TurnedSound
  <2> QED BY <2>4, <2>5, <2>6, ReturnSound
<1>4. CASE ~ (t.tag[Current(t)] = j.tag /\ Current(t) \notin ToSet(t.active))
  <2>1. tree' = Settled(t, Kept(j)) /\ job' = j /\ words' = words /\ mode' = mode
    BY <1>1, <1>4 DEF CallAdoption, Kept
  <2>2. Sound(t, j, mode')
    BY <2>1
  <2> QED BY <2>1, <2>2, SettledSound
<1> QED BY <1>3, <1>4

\* What a handler that calls the algorithm leaves for it.
LEMMA CallerIs ==
    ASSUME NEW c \in {"end", "a", "nobr"}, NEW g \in AnyFormatting, NEW n \in Node \cup {NULL}
    PROVE  LET j == Caller(c, g, n)
           IN  j \in Job /\ j.caller = c /\ j.node = n /\ j.tag = g
  BY DEF Caller, Job, MaxOuter

-----------------------------------------------------------------------------
(* The tokens, one by one.                                                 *)

\* Entries up to a marker, when those behind it are cleared.
LEMMA ListedPrefix ==
    ASSUME NEW active, NEW tag, Listed(active, tag), NEW k \in 0 .. Len(active)
    PROVE  Listed(SubSeq(active, 1, k), tag)
<1> DEFINE q == SubSeq(active, 1, k)
           h == [i \in 1 .. k |-> i]
<1>1. active \in Seq(Node \cup {Marker}) /\ Len(active) \in Nat /\ k \in Nat /\ k <= Len(active)
  BY DEF Listed
<1>2. /\ q \in Seq(Node \cup {Marker}) /\ Len(q) = k
      /\ \A i \in 1 .. k : q[i] = active[i]
  BY <1>1
<1>3. Relisted(q, active, h, NULL)
  <2>1. h \in [1 .. Len(q) -> 0 .. Len(active)]
    BY <1>1, <1>2
  <2>2. \A i \in 1 .. Len(q) : q[i] = IF h[i] = 0 THEN NULL ELSE active[h[i]]
    BY <1>1, <1>2
  <2>3. \A i, j \in 1 .. Len(q) : h[i] = h[j] => i = j
    BY <1>1, <1>2
  <2> HIDE DEF h, q
  <2> QED BY <1>2, <2>1, <2>2, <2>3 DEF Relisted
<1>4. \A i \in 1 .. Len(q) : h[i] # 0
  BY <1>1, <1>2
<1> HIDE DEF q, h
<1>5. Listed(q, tag)
  BY <1>3, <1>4, ListedRenewed
<1> QED BY <1>5 DEF q

\* A closed p: nothing, or what ClosePElement does.
LEMMA ClosedPSound ==
    ASSUME NEW t, Good(t)
    PROVE  Closed(ClosedP(t), t)
<1>1. Closed(t, t)
  BY GoodFields DEF Closed
<1> QED BY <1>1, ClosedPIs DEF ClosedP

\* An element put on a stack that has only been popped.
LEMMA PutIs ==
    ASSUME NEW t, Good(t), Cardinality(Free(t)) >= 1, NEW u, Closed(u, t),
           NEW g \in Tag, g = "table" => NoTable(u)
    PROVE  /\ Good(InsertElement(u, g))
           /\ NoTable(u) /\ g # "table" => NoTable(InsertElement(u, g))
<1>1. Good(u) /\ Free(u) = Free(t)
  BY ClosedIs DEF Closed
<1>2. Free(u) # {} /\ Cardinality(Free(u)) >= 1
  <2>1. Cardinality(Free(t)) # 0
    BY FreeFinite
  <2> QED BY <1>1, <2>1, FS_EmptySet
<1>3. Good(InsertElement(u, g))
  BY <1>1, <1>2, InsertElementIs
<1>4. g # "table" => Grown(InsertElement(u, g), u, 1)
  BY <1>1, <1>2, InsertedGrown
<1> QED BY <1>3, <1>4 DEF Grown

\* A start tag of a formatting element: entries opened anew, one element, one entry.
LEMMA StartTagKeeps ==
    ASSUME Inv, NEW g \in Tag, StartTag(g)
    PROVE  Inv'
<1> DEFINE t == StartFormatting(tree, g)
<1>1. job = NULL /\ g \in FormattingTag /\ Handled(t) /\ mode' = mode /\ job' = job
  BY DEF StartTag, Token, Quiet
<1>2. g \in AnyFormatting
  BY <1>1 DEF AnyFormatting
<1>3. /\ Good(tree) /\ Cardinality(Free(tree)) >= Len(tree.active) + 1
      /\ words \in Vocabulary /\ mode \in {"in_body", "in_table"}
      /\ (mode = "in_body" => NoTable(tree))
  BY <1>1, RoomIs
<1>4. Grown(t, tree, Len(tree.active) + 1)
  BY <1>2, <1>3, StartFormattingIs
<1> HIDE DEF t
<1>5. Good(t) /\ (NoTable(tree) => NoTable(t))
  BY <1>4 DEF Grown
<1> QED BY <1>1, <1>3, <1>5, HandledSound

\* A start tag that the mode in_body has no case for.
LEMMA StartPlainKeeps ==
    ASSUME Inv, NEW g \in Tag, StartPlain(g)
    PROVE  Inv'
<1> DEFINE t == InsertElement(Reconstruct(tree), g)
<1>1. job = NULL /\ g \in PlainTag /\ Handled(t) /\ mode' = mode /\ job' = job
  BY DEF StartPlain, Token, Quiet
<1>2. g # "table"
  BY <1>1 DEF PlainTag
<1>3. /\ Good(tree) /\ Cardinality(Free(tree)) >= Len(tree.active) + 1
      /\ words \in Vocabulary /\ mode \in {"in_body", "in_table"}
      /\ (mode = "in_body" => NoTable(tree))
  BY <1>1, RoomIs
<1>4. Grown(t, tree, Len(tree.active) + 1)
  BY <1>2, <1>3, OpenedIs
<1> HIDE DEF t
<1>5. Good(t) /\ (NoTable(tree) => NoTable(t))
  BY <1>4 DEF Grown
<1> QED BY <1>1, <1>3, <1>5, HandledSound

\* The element, and a marker for it.
LEMMA StartObjectKeeps ==
    ASSUME Inv, StartObject
    PROVE  Inv'
<1> DEFINE u == InsertElement(Reconstruct(tree), "object")
           t == [u EXCEPT !.active = Append(@, Marker)]
<1>1. job = NULL /\ Handled(t) /\ mode' = mode /\ job' = job
  BY DEF StartObject, Token, Quiet
<1>2. /\ Good(tree) /\ Cardinality(Free(tree)) >= Len(tree.active) + 1
      /\ words \in Vocabulary /\ mode \in {"in_body", "in_table"}
      /\ (mode = "in_body" => NoTable(tree))
  BY <1>1, RoomIs
<1>3. Grown(t, tree, Len(tree.active) + 1)
  BY <1>2, StartObjectIs
<1> HIDE DEF t
<1>4. Good(t) /\ (NoTable(tree) => NoTable(t))
  BY <1>3 DEF Grown
<1> QED BY <1>1, <1>2, <1>4, HandledSound

\* Text opens entries anew and adds no element of its own.
LEMMA TextKeeps ==
    ASSUME Inv, Text
    PROVE  Inv'
<1> DEFINE t == Reconstruct(tree)
<1>1. job = NULL /\ Handled(t) /\ mode' = mode /\ job' = job
  BY DEF Text, Quiet
<1>2. /\ Good(tree) /\ Cardinality(Free(tree)) >= Len(tree.active)
      /\ words \in Vocabulary /\ mode \in {"in_body", "in_table"}
      /\ (mode = "in_body" => NoTable(tree))
  BY <1>1, RoomIs
<1>3. Grown(t, tree, Len(tree.active))
  BY <1>2, ReconstructIs
<1> HIDE DEF t
<1>4. Good(t) /\ (NoTable(tree) => NoTable(t))
  BY <1>3 DEF Grown
<1> QED BY <1>1, <1>2, <1>4, HandledSound

\* A block closes an open p first.
LEMMA StartBlockKeeps ==
    ASSUME Inv, NEW g \in Tag, StartBlock(g)
    PROVE  Inv'
<1> DEFINE u == ClosedP(tree)
           t == InsertElement(u, g)
<1>1. job = NULL /\ g \in BlockTag /\ Handled(t) /\ mode' = mode /\ job' = job
  BY DEF StartBlock, Token, Quiet
<1>2. g # "table"
  BY <1>1 DEF BlockTag
<1>3. /\ Good(tree) /\ Cardinality(Free(tree)) >= 1
      /\ words \in Vocabulary /\ mode \in {"in_body", "in_table"}
      /\ (mode = "in_body" => NoTable(tree))
  BY <1>1, RoomIs
<1>4. Closed(u, tree)
  BY <1>3, ClosedPSound
<1> HIDE DEF u
<1>5. Good(t) /\ (NoTable(u) => NoTable(t))
  BY <1>2, <1>3, <1>4, PutIs
<1>6. NoTable(tree) => NoTable(u)
  BY <1>3, <1>4, ClosedIs
<1> HIDE DEF t
<1> QED BY <1>1, <1>3, <1>5, <1>6, HandledSound

\* An end tag that the mode in_body has no case for closes down to its element.
LEMMA EndPlainKeeps ==
    ASSUME Inv, NEW g \in Tag, EndPlain(g)
    PROVE  Inv'
<1> DEFINE t == AnythingElseClosed(tree, g)
<1>1. job = NULL /\ g \in PlainTag /\ Handled(t) /\ mode' = mode /\ job' = job
  BY DEF EndPlain, Token, Quiet
<1>2. g \notin Special
  BY <1>1 DEF PlainTag, Special, BlockTag
<1>3. /\ Good(tree) /\ words \in Vocabulary /\ mode \in {"in_body", "in_table"}
      /\ (mode = "in_body" => NoTable(tree))
  BY <1>1, RoomIs
<1>4. Closed(t, tree)
  BY <1>2, <1>3, AnythingElseClosedIs
<1> HIDE DEF t
<1>5. Good(t) /\ (NoTable(tree) => NoTable(t))
  BY <1>3, <1>4, ClosedIs DEF Closed
<1> QED BY <1>1, <1>3, <1>5, HandledSound

\* Everything above the div goes with it.
LEMMA EndDivKeeps ==
    ASSUME Inv, EndDiv
    PROVE  Inv'
<1> DEFINE u == ImpliedEndTags(tree, "")
           t == PopFrom(u, InScope(u, "div"))
<1>1. /\ job = NULL /\ InScope(tree, "div") # 0 /\ Handled(t) /\ mode' = mode /\ job' = job
  BY DEF EndDiv, Token, Quiet
<1>2. "div" \in Tag /\ "div" # "p" /\ "div" # "html"
  BY DEF Tag, Special, BlockTag
<1>3. /\ Good(tree) /\ words \in Vocabulary /\ mode \in {"in_body", "in_table"}
      /\ (mode = "in_body" => NoTable(tree))
  BY <1>1, RoomIs
<1>4. Closed(u, tree) /\ InScope(u, "div") # 0
  BY <1>1, <1>2, <1>3, ImpliedEndTagsIs
<1> HIDE DEF u
<1>5. Good(u)
  BY <1>4 DEF Closed
<1>6. InScope(u, "div") \in 2 .. Len(u.open)
  BY <1>2, <1>4, <1>5, InScopeIs
<1>7. Closed(t, u)
  BY <1>5, <1>6, PopFromIs
<1> HIDE DEF t
<1>8. Closed(t, tree)
  BY <1>3, <1>4, <1>7, ClosedIs
<1>9. Good(t) /\ (NoTable(tree) => NoTable(t))
  BY <1>3, <1>8, ClosedIs DEF Closed
<1> QED BY <1>1, <1>3, <1>9, HandledSound

\* The end tag of a p that is not open opens one, and closes it again.
LEMMA EndPKeeps ==
    ASSUME Inv, EndP
    PROVE  Inv'
<1> DEFINE u == IF InScope(tree, "p") # 0 THEN tree ELSE InsertElement(tree, "p")
           t == ClosePElement(u)
<1>1. job = NULL /\ Handled(t) /\ mode' = mode /\ job' = job
  BY DEF EndP, Token, Quiet
<1>2. "p" \in Tag /\ "p" # "table"
  BY DEF Tag, Special, BlockTag
<1>3. /\ Good(tree) /\ Cardinality(Free(tree)) >= 1
      /\ words \in Vocabulary /\ mode \in {"in_body", "in_table"}
      /\ (mode = "in_body" => NoTable(tree))
  BY <1>1, RoomIs
<1>4. Good(u) /\ (NoTable(tree) => NoTable(u)) /\ InScope(u, "p") # 0
  <2>1. CASE InScope(tree, "p") # 0
    BY <1>3, <2>1
  <2>2. CASE InScope(tree, "p") = 0
    <3> DEFINE v == InsertElement(tree, "p")
    <3>1. /\ Good(v) /\ Grown(v, tree, 1) /\ v.tag[Fresh(tree)] = "p"
          /\ Len(v.open) = Len(tree.open) + 1 /\ v.open[Len(v.open)] = Fresh(tree)
      BY <1>2, <1>3, InsertedGrown
    <3>2. u = v
      BY <2>2
    <3> HIDE DEF v, u
    <3>3. Len(v.open) \in Nat /\ Len(v.open) >= 1
      BY <3>1, GoodFields
    <3>4. Len(v.open) \in 1 .. Len(v.open) /\ v.tag[v.open[Len(v.open)]] = "p"
      BY <3>1, <3>3
    <3>5. InScopeAt(v, Len(v.open))
      <4>1. \A n \in Nat : n + 1 .. n = {}
        OBVIOUS
      <4>2. Len(v.open) + 1 .. Len(v.open) = {}
        BY <3>3, <4>1
      <4> QED BY <4>2 DEF InScopeAt
    <3>6. InScope(v, "p") # 0
      BY <3>1, <3>4, <3>5, InScopeIs
    <3> QED BY <3>1, <3>2, <3>6 DEF Grown
  <2> QED BY <2>1, <2>2
<1> HIDE DEF u
<1>5. Closed(t, u)
  BY <1>4, ClosedPIs
<1> HIDE DEF t
<1>6. Good(t) /\ (NoTable(u) => NoTable(t))
  BY <1>4, <1>5, ClosedIs DEF Closed
<1> QED BY <1>1, <1>3, <1>4, <1>6, HandledSound

\* The entries behind the marker go with it.
LEMMA EndObjectKeeps ==
    ASSUME Inv, EndObject
    PROVE  Inv'
<1> DEFINE s == ImpliedEndTags(tree, "")
           u == PopFrom(s, InScope(s, "object"))
           m == LastAt(u.active, Marker)
           q == SubSeq(u.active, 1, m - 1)
           t == [u EXCEPT !.active = q]
<1>1. /\ job = NULL /\ InScope(tree, "object") # 0 /\ Handled(t) /\ mode' = mode /\ job' = job
  BY DEF EndObject, Token, Quiet
<1>2. "object" \in Tag /\ "object" # "p" /\ "object" # "html"
  BY DEF Tag, Special, BlockTag
<1>3. /\ Good(tree) /\ words \in Vocabulary /\ mode \in {"in_body", "in_table"}
      /\ (mode = "in_body" => NoTable(tree))
  BY <1>1, RoomIs
<1>4. Closed(s, tree) /\ InScope(s, "object") # 0
  BY <1>1, <1>2, <1>3, ImpliedEndTagsIs
<1> HIDE DEF s
<1>5. Good(s)
  BY <1>4 DEF Closed
<1>6. InScope(s, "object") \in 2 .. Len(s.open)
  BY <1>2, <1>4, <1>5, InScopeIs
<1>7. Closed(u, s)
  BY <1>5, <1>6, PopFromIs
<1> HIDE DEF u
<1>8. Closed(u, tree)
  BY <1>3, <1>4, <1>7, ClosedIs
<1>9. Good(u) /\ (NoTable(tree) => NoTable(u))
  BY <1>3, <1>8, ClosedIs DEF Closed
<1>10. Listed(q, u.tag)
  <2>1. u.active \in Seq(Node \cup {Marker}) /\ Len(u.active) \in Nat /\ Listed(u.active, u.tag)
    BY <1>9, GoodFields DEF Good
  <2>2. m \in 0 .. Len(u.active)
    BY <2>1, LastAtIs
  <2> HIDE DEF m
  <2>3. CASE m = 0
    <3>1. q = SubSeq(u.active, 1, 0)
      BY <2>1, <2>3
    <3>2. 0 \in 0 .. Len(u.active)
      BY <2>1
    <3> QED BY <2>1, <3>1, <3>2, ListedPrefix
  <2>4. CASE m # 0
    <3>1. m - 1 \in 0 .. Len(u.active)
      BY <2>1, <2>2, <2>4
    <3> QED BY <2>1, <3>1, ListedPrefix
  <2> QED BY <2>3, <2>4
<1> HIDE DEF q
<1>11. Grown(t, u, 0)
  BY <1>9, <1>10, GrownActive
<1> HIDE DEF t
<1>12. Good(t) /\ (NoTable(u) => NoTable(t))
  BY <1>11 DEF Grown
<1> QED BY <1>1, <1>3, <1>9, <1>12, HandledSound

\* An a that is an entry calls the algorithm; its element must still be one when the
\* handler that keeps a pointer to it goes on.
LEMMA StartAKeeps ==
    ASSUME Inv, StartA
    PROVE  Inv'
<1> DEFINE i == BetweenLastMarker(tree, "a")
           j == Caller("a", "a", tree.active[i])
           t == StartFormatting(tree, "a")
<1>1. /\ job = NULL /\ RoomToReconstruct /\ Len(tree.active) < words.active
      /\ \/ i # 0 /\ CallAdoption(tree, j)
         \/ Handled(t) /\ mode' = mode /\ job' = job
  BY DEF StartA, Token, Quiet
<1>2. "a" \in AnyFormatting
  BY DEF AnyFormatting
<1>3. /\ Good(tree) /\ Cardinality(Free(tree)) >= Len(tree.active) + 1
      /\ words \in Vocabulary /\ mode \in {"in_body", "in_table"}
      /\ (mode = "in_body" => NoTable(tree))
      /\ Len(tree.open) \in Nat /\ Len(tree.active) \in Nat /\ Cardinality(Node) \in Nat
  BY <1>1, RoomIs
<1>4. CASE i # 0 /\ CallAdoption(tree, j)
  <2>1. i \in 1 .. Len(tree.active) /\ tree.active[i] # Marker /\ tree.tag[tree.active[i]] = "a"
    BY <1>3, <1>4, BetweenLastMarkerIs
  <2>2. tree.active[i] \in Node
    BY <1>3, <2>1, GoodFields
  <2> DEFINE n == tree.active[i]
  <2> HIDE DEF i
  <2>3. n \in Node /\ tree.tag[n] = "a" /\ n # NULL
    BY <2>1, <2>2, NodeAssumption
  <2>4. CallAdoption(tree, Caller("a", "a", n))
    BY <1>4
  <2> HIDE DEF n
  <2> DEFINE c == Caller("a", "a", n)
  <2>5. c \in Job /\ c.caller = "a" /\ c.node = n
    BY <1>2, <2>3, CallerIs
  <2>6. CallAdoption(tree, c)
    BY <2>4
  <2> HIDE DEF c
  <2>7. /\ Len(tree.open) + 2 * Len(tree.active) + 5 <= Cardinality(Node)
        /\ Len(tree.open) + 3 * Len(tree.active) + 8 <= Cardinality(Node)
    <3>1. words.open \in Nat /\ words.active \in Nat
          /\ words.open + 3 * words.active + 5 <= Cardinality(Node)
      BY <1>3, VocabularyAssumption
    <3>2. Len(tree.open) + Len(tree.active) < words.open
      BY <1>1 DEF RoomToReconstruct
    <3>3. \A a, b, x, y, z \in Nat :
              a + b < x /\ b < y /\ x + 3 * y + 5 <= z =>
                 a + 2 * b + 5 <= z /\ a + 3 * b + 8 <= z
      OBVIOUS
    <3> QED BY <1>1, <1>3, <3>1, <3>2, <3>3
  <2>8. Sound(tree, c, mode)
    BY <1>3, <2>3, <2>5, <2>7 DEF Sound
  <2> QED BY <1>1, <1>3, <2>5, <2>6, <2>8, CallSound
<1>5. CASE Handled(t) /\ mode' = mode /\ job' = job
  <2>1. Grown(t, tree, Len(tree.active) + 1)
    BY <1>2, <1>3, StartFormattingIs
  <2> HIDE DEF t
  <2>2. Good(t) /\ (NoTable(tree) => NoTable(t))
    BY <2>1 DEF Grown
  <2> QED BY <1>1, <1>3, <1>5, <2>2, HandledSound
<1> QED BY <1>1, <1>4, <1>5

\* A nobr in scope calls the algorithm, after the entries have been opened anew.
LEMMA StartNobrKeeps ==
    ASSUME Inv, StartNobr
    PROVE  Inv'
<1> DEFINE t == Reconstruct(tree)
           u == InsertElement(t, "nobr")
           v == PushWithCheck(u)
           c == Caller("nobr", "nobr", NULL)
<1>1. /\ job = NULL /\ RoomToReconstruct /\ Len(tree.active) < words.active
      /\ \/ CallAdoption(t, c)
         \/ Handled(v) /\ mode' = mode /\ job' = job
  BY DEF StartNobr, Token, Quiet
<1>2. "nobr" \in AnyFormatting /\ "nobr" \in Tag /\ "nobr" # "table"
  BY DEF AnyFormatting, Tag
<1>3. /\ Good(tree) /\ Cardinality(Free(tree)) >= Len(tree.active) + 1
      /\ words \in Vocabulary /\ mode \in {"in_body", "in_table"}
      /\ (mode = "in_body" => NoTable(tree))
      /\ Len(tree.open) \in Nat /\ Len(tree.active) \in Nat /\ Cardinality(Node) \in Nat
      /\ Cardinality(Free(tree)) \in Nat
      /\ Cardinality(Node) <= Cardinality(Free(tree)) + Len(tree.open) + Len(tree.active)
  BY <1>1, RoomIs
<1>4. CASE CallAdoption(t, c)
  <2>1. Grown(t, tree, Len(tree.active)) /\ Len(t.active) = Len(tree.active)
    BY <1>3, ReconstructIs
  <2> HIDE DEF t
  <2>2. /\ Good(t) /\ (NoTable(tree) => NoTable(t))
        /\ Len(t.open) <= Len(tree.open) + Len(tree.active)
        /\ Cardinality(Free(tree)) <= Cardinality(Free(t)) + Len(tree.active)
    BY <2>1 DEF Grown
  <2>3. c \in Job /\ c.caller = "nobr" /\ c.node = NULL
    BY <1>2, CallerIs
  <2> HIDE DEF c
  <2>4. Len(t.open) \in Nat /\ Cardinality(Free(t)) \in Nat
    BY <2>2, GoodFields, FreeFinite
  <2>5. words.open \in Nat /\ words.active \in Nat
        /\ words.open + 3 * words.active + 5 <= Cardinality(Node)
    BY <1>3, VocabularyAssumption
  <2>6. Len(tree.open) + Len(tree.active) < words.open
    BY <1>1 DEF RoomToReconstruct
  <2>7. \A a, b, o, x, y, z, f, g \in Nat :
            /\ a + b < x /\ b < y /\ x + 3 * y + 5 <= z /\ o <= a + b
               => o + 2 * b + 5 <= z /\ o + 3 * b + 8 <= z
            /\ a + b < x /\ b < y /\ x + 3 * y + 5 <= z /\ z <= f + a + b /\ f <= g + b
               => g >= b + 1
    OBVIOUS
  <2>8. /\ Len(t.open) + 2 * Len(t.active) + 5 <= Cardinality(Node)
        /\ Len(t.open) + 3 * Len(t.active) + 8 <= Cardinality(Node)
        /\ Cardinality(Free(t)) >= Len(t.active) + 1
    BY <1>1, <1>3, <2>1, <2>2, <2>4, <2>5, <2>6, <2>7
  <2>9. Sound(t, c, mode)
    BY <1>3, <2>2, <2>3, <2>8 DEF Sound
  <2> QED BY <1>1, <1>3, <1>4, <2>3, <2>8, <2>9, CallSound
<1>5. CASE Handled(v) /\ mode' = mode /\ job' = job
  <2>1. /\ Grown(u, tree, Len(tree.active) + 1)
        /\ u.tag[Current(u)] = "nobr"
        /\ \A i \in 1 .. Len(u.active) : u.active[i] # Current(u)
    BY <1>2, <1>3, OpenedIs
  <2> HIDE DEF u
  <2>2. Good(u) /\ (NoTable(tree) => NoTable(u))
    BY <2>1 DEF Grown
  <2>3. Grown(v, u, 0)
    BY <1>2, <2>1, <2>2, PushWithCheckIs
  <2> HIDE DEF v
  <2>4. Good(v) /\ (NoTable(u) => NoTable(v))
    BY <2>3 DEF Grown
  <2> QED BY <1>1, <1>3, <1>5, <2>2, <2>4, HandledSound
<1> QED BY <1>1, <1>4, <1>5

\* Without its only table, the stack has none.
LEMMA TablePopped ==
    ASSUME NEW t, Good(t), InScope(t, "table") # 0
    PROVE  LET u == PopFrom(t, InScope(t, "table"))
           IN  Closed(u, t) /\ NoTable(u)
<1> DEFINE i == InScope(t, "table")
           u == PopFrom(t, i)
<1>1. i \in 2 .. Len(t.open) /\ t.tag[t.open[i]] = "table"
  <2>1. "table" # "html"
    BY TagsAre
  <2> QED BY <2>1, InScopeIs
<1> HIDE DEF i
<1>2. /\ Closed(u, t) /\ Len(u.open) = i - 1
      /\ \A j \in 1 .. i - 1 : u.open[j] = t.open[j]
  BY <1>1, PopFromIs
<1> HIDE DEF u
<1>3. u.tag = t.tag
  BY <1>2 DEF Closed
<1>4. NoTable(u)
  <2> SUFFICES ASSUME NEW j \in 1 .. i - 1 PROVE t.tag[t.open[j]] # "table"
    BY <1>2, <1>3 DEF NoTable
  <2>1. Len(t.open) \in Nat
    BY GoodFields
  <2>2. j \in 1 .. Len(t.open) /\ i \in 1 .. Len(t.open) /\ j # i
    BY <1>1, <2>1
  <2> QED BY <1>1, <2>2 DEF Good, Stacked
<1> QED BY <1>2, <1>4 DEF u, i

\* A table in a table closes it; otherwise there is none, and the mode changes.
LEMMA StartTableKeeps ==
    ASSUME Inv, StartTable
    PROVE  Inv'
<1> DEFINE i == InScope(tree, "table")
           s == IF mode = "in_table" THEN PopFrom(tree, i) ELSE tree
           u == ClosedP(s)
           t == InsertElement(u, "table")
<1>1. /\ job = NULL /\ (mode = "in_table" => i # 0) /\ Handled(t)
      /\ mode' = "in_table" /\ job' = job
  BY DEF StartTable, Token, Quiet
<1>2. "table" \in Tag
  BY TagsAre
<1>3. /\ Good(tree) /\ Cardinality(Free(tree)) >= 1
      /\ words \in Vocabulary /\ mode \in {"in_body", "in_table"}
      /\ (mode = "in_body" => NoTable(tree))
  BY <1>1, RoomIs
<1>4. Closed(s, tree) /\ NoTable(s)
  <2>1. Closed(tree, tree)
    BY <1>3, GoodFields DEF Closed
  <2> QED BY <1>1, <1>3, <2>1, TablePopped
<1> HIDE DEF s
<1>5. Closed(u, s)
  BY <1>4, ClosedPSound DEF Closed
<1> HIDE DEF u
<1>6. Closed(u, tree) /\ NoTable(u)
  <2>1. Good(s)
    BY <1>4 DEF Closed
  <2> QED BY <1>3, <1>4, <1>5, <2>1, ClosedIs
<1>7. Good(t)
  BY <1>2, <1>3, <1>6, PutIs
<1> HIDE DEF t
<1> QED BY <1>1, <1>3, <1>7, HandledSound

\* The only table goes, and with it the reason for the mode in_table.
LEMMA EndTableKeeps ==
    ASSUME Inv, EndTable
    PROVE  Inv'
<1> DEFINE t == PopFrom(tree, InScope(tree, "table"))
<1>1. /\ job = NULL /\ InScope(tree, "table") # 0 /\ Handled(t)
      /\ mode' = ResetMode(t) /\ job' = job
  BY DEF EndTable, Token, Quiet
<1>2. Good(tree) /\ words \in Vocabulary
  BY RoomIs
<1>3. Closed(t, tree) /\ NoTable(t)
  BY <1>1, <1>2, TablePopped
<1>4. ResetMode(t) \in {"in_body", "in_table"}
  BY DEF ResetMode
<1> HIDE DEF t
<1>5. Good(t)
  BY <1>3 DEF Closed
<1> QED BY <1>1, <1>2, <1>3, <1>4, <1>5, HandledSound

\* The end tag is a call of the algorithm with nothing to do after it.
LEMMA EndFormattingKeeps ==
    ASSUME Inv, NEW g \in Tag, EndFormatting(g)
    PROVE  Inv'
<1> DEFINE c == Caller("end", g, NULL)
<1>1. job = NULL /\ g \in AnyFormatting /\ CallAdoption(tree, c)
  BY DEF EndFormatting, Token, Quiet
<1>2. c \in Job /\ c.caller = "end" /\ c.node = NULL
  BY <1>1, CallerIs
<1> HIDE DEF c
<1>3. /\ words \in Vocabulary /\ Cardinality(Free(tree)) >= Len(tree.active) + 1
  BY <1>1, RoomIs
<1>4. Sound(tree, c, mode)
  BY <1>2 DEF Inv, Sound
<1> QED BY <1>1, <1>2, <1>3, <1>4, CallSound

\* One turn: the algorithm goes on, or its caller finishes.
LEMMA AdoptionTurnKeeps ==
    ASSUME Inv, AdoptionTurn
    PROVE  Inv'
<1> DEFINE o == Turn(tree, job.tag)
           t == o.tree
<1>1. /\ job # NULL /\ words' = words /\ mode' = mode
      /\ \/ /\ TurnLeft(job) /\ tree' = Settled(t, job.node)
            /\ job' = [job EXCEPT !.turn = @ + 1]
         \/ tree' = Settled(Return(t, job, o.ends), NULL) /\ job' = NULL
  BY DEF AdoptionTurn
<1>2. /\ job \in Job /\ job.tag \in AnyFormatting /\ Good(tree) /\ words \in Vocabulary
      /\ Cardinality(Free(tree)) >= 4
      /\ Len(tree.active) \in Nat /\ Cardinality(Free(tree)) \in Nat
      /\ job.caller # "end" => Cardinality(Free(tree)) >= 2 * Len(tree.active) + 7
  BY <1>1, RoomIs DEF Job
<1>3. Turned(t, tree, 4)
  BY <1>2, TurnIs
<1> HIDE DEF t
<1>4. Sound(tree, job, mode)
  BY DEF Inv
<1>5. Sound(t, job, mode)
  BY <1>3, <1>4, TurnedSound
<1>6. CASE /\ TurnLeft(job) /\ tree' = Settled(t, job.node)
           /\ job' = [job EXCEPT !.turn = @ + 1]
  <2> DEFINE j == [job EXCEPT !.turn = job.turn + 1]
  <2>1. /\ j \in Job /\ j.caller = job.caller /\ j.node = job.node
    BY <1>2, <1>6 DEF TurnLeft, Job, MaxOuter
  <2>2. job' = j
    BY <1>6
  <2> HIDE DEF j
  <2>3. j # NULL
    BY <2>1, NullIsNoJob
  <2>4. Sound(t, j, mode')
    BY <1>1, <1>5, <2>1, <2>3 DEF Sound
  <2>5. tree' = Settled(t, Kept(j))
    BY <1>6, <2>1, <2>3 DEF Kept
  <2> QED BY <1>1, <1>2, <2>2, <2>4, <2>5, SettledSound
<1>7. CASE tree' = Settled(Return(t, job, o.ends), NULL) /\ job' = NULL
  <2>1. Len(t.active) \in Nat /\ Cardinality(Free(t)) \in Nat
        /\ Len(t.active) <= Len(tree.active)
        /\ Cardinality(Free(tree)) <= Cardinality(Free(t)) + 4
    BY <1>3, GoodFields, FreeFinite DEF Turned, Grown
  <2>2. job.caller # "end" => Cardinality(Free(t)) >= Len(t.active) + 1
    <3>1. \A a, b, f, g \in Nat : f >= 2 * a + 7 /\ b <= a /\ f <= g + 4 => g >= b + 1
      OBVIOUS
    <3> QED BY <1>2, <2>1, <3>1
  <2> DEFINE ends == o.ends
  <2> HIDE DEF ends
  <2>3. tree' = Settled(Return(t, job, ends), NULL) /\ job' = NULL
    BY <1>7 DEF ends
  <2> QED BY <1>1, <1>2, <1>5, <2>2, <2>3, ReturnSound
<1> QED BY <1>1, <1>6, <1>7

\* The document begins with html and body, no entries, and the mode in_body.
LEMMA InitInv == Init => Inv
<1> SUFFICES ASSUME Init PROVE Inv
  OBVIOUS
<1> DEFINE tag == [n \in Node |-> CASE n = 1 -> "html" [] n = 2 -> "body" [] OTHER -> NULL]
           above == [n \in Node |-> IF n = 2 THEN 1 ELSE NULL]
           d == [n \in Node |-> IF n = 2 THEN 1 ELSE 0]
<1>1. /\ words \in Vocabulary /\ mode = "in_body" /\ job = NULL
      /\ tree = [open |-> <<1, 2>>, active |-> <<>>, tag |-> tag, above |-> above]
  BY DEF Init
<1>2. 1 \in Node /\ 2 \in Node /\ NULL \notin Node
  BY NodeAssumption
<1>3. /\ "html" \in Tag /\ "body" \in Tag /\ "html" # NULL /\ "body" # NULL
  BY NullIsNoTag DEF Tag, Special
<1>4. tag \in [Node -> Tag \cup {NULL}] /\ tag[1] = "html" /\ tag[2] = "body"
      /\ \A n \in Node : n # 1 /\ n # 2 => tag[n] = NULL
  BY <1>2, <1>3
<1>5. above \in Links /\ above[2] = 1 /\ \A n \in Node : n # 2 => above[n] = NULL
  BY <1>2 DEF Links
<1>6. Depths(above, d)
  BY <1>2, <1>5 DEF Depths
<1>7. Ranked(above)
  BY <1>5, <1>6 DEF Ranked
<1> HIDE DEF tag, above
<1>8. /\ tree.open = <<1, 2>> /\ tree.active = <<>> /\ tree.tag = tag /\ tree.above = above
      /\ Len(tree.open) = 2 /\ tree.open[1] = 1 /\ tree.open[2] = 2 /\ Len(tree.active) = 0
      /\ tree.open \in Seq(Node) /\ tree.active \in Seq(Node \cup {Marker})
  BY <1>1, <1>2
<1>9. tree \in Trees
  BY <1>1, <1>4, <1>5, <1>8 DEF Trees
<1>10. \A i \in 1 .. Len(tree.open) : i = 1 \/ i = 2
  BY <1>8
<1>11. Joined(tag, above)
  BY <1>2, <1>3, <1>4, <1>5, <1>7 DEF Joined
<1>12. Stacked(tree.open, tag, above)
  <2>1. tag[1] # "table" /\ tag[2] # "table"
    BY <1>4
  <2> QED BY <1>3, <1>4, <1>8, <1>10, <2>1 DEF Stacked
<1>13. Nested(tree.open, tag, above)
  <2>1. 1 \in Around(above, 2)
    BY <1>2, <1>5, <1>7, AroundIs
  <2>2. \A i, j \in 1 .. Len(tree.open) : i < j => i = 1 /\ j = 2
    BY <1>8
  <2> QED BY <1>8, <2>1, <2>2 DEF Nested, Inside
<1>14. Listed(tree.active, tag)
  <2>1. \A i \in 1 .. Len(tree.active) : FALSE
    BY <1>8
  <2> QED BY <1>8, <2>1 DEF Listed
<1>15. Good(tree)
  BY <1>8, <1>9, <1>11, <1>12, <1>13, <1>14 DEF Good
<1>16. NoTable(tree)
  BY <1>4, <1>8, <1>10 DEF NoTable
<1>17. Len(tree.open) + 2 * Len(tree.active) + 5 <= Cardinality(Node)
  <2>1. /\ words.open \in Nat /\ words.active \in Nat /\ words.open >= 2
        /\ words.open + 3 * words.active + 5 <= Cardinality(Node) /\ Cardinality(Node) \in Nat
    BY <1>1, VocabularyAssumption, UsedAndFree
  <2>2. \A a, b, n \in Nat : a >= 2 /\ a + 3 * b + 5 <= n => 2 + 2 * 0 + 5 <= n
    OBVIOUS
  <2> QED BY <1>8, <2>1, <2>2
<1>18. Sound(tree, job, mode)
  BY <1>1, <1>15, <1>16, <1>17 DEF Sound
<1>19. ASSUME NEW n \in Node, tree.tag[n] # NULL PROVE n \in Known(tree, Kept(job))
  <2>1. n = 1 \/ n = 2
    BY <1>4, <1>8, <1>19
  <2>2. tree.open \in Seq(Node \cup {Marker})
    BY <1>2, <1>8
  <2>3. 1 \in 1 .. Len(tree.open) /\ 2 \in 1 .. Len(tree.open) /\ 1 # Marker /\ 2 # Marker
    BY <1>2, <1>8, NodeAssumption
  <2>4. tree.open[1] \in Elements(tree.open) /\ tree.open[2] \in Elements(tree.open)
    BY <1>8, <2>2, <2>3, ElementsAre
  <2> QED BY <1>8, <2>1, <2>4 DEF Known
<1> QED BY <1>1, <1>18, <1>19 DEF Inv

\* Every handler, and every turn of the algorithm, keeps the invariant.
LEMMA NextInv == Inv /\ [Next]_vars => Inv'
<1> SUFFICES ASSUME Inv, [Next]_vars PROVE Inv'
  OBVIOUS
<1>1. ASSUME NEW g \in Tag, StartTag(g) PROVE Inv'
  BY <1>1, StartTagKeeps
<1>2. ASSUME NEW g \in Tag, StartPlain(g) PROVE Inv'
  BY <1>2, StartPlainKeeps
<1>3. ASSUME NEW g \in Tag, StartBlock(g) PROVE Inv'
  BY <1>3, StartBlockKeeps
<1>4. ASSUME NEW g \in Tag, EndFormatting(g) PROVE Inv'
  BY <1>4, EndFormattingKeeps
<1>5. ASSUME NEW g \in Tag, EndPlain(g) PROVE Inv'
  BY <1>5, EndPlainKeeps
<1>6. CASE StartA
  BY <1>6, StartAKeeps
<1>7. CASE StartNobr
  BY <1>7, StartNobrKeeps
<1>8. CASE StartObject
  BY <1>8, StartObjectKeeps
<1>9. CASE StartTable
  BY <1>9, StartTableKeeps
<1>10. CASE Text
  BY <1>10, TextKeeps
<1>11. CASE EndDiv
  BY <1>11, EndDivKeeps
<1>12. CASE EndP
  BY <1>12, EndPKeeps
<1>13. CASE EndObject
  BY <1>13, EndObjectKeeps
<1>14. CASE EndTable
  BY <1>14, EndTableKeeps
<1>15. CASE AdoptionTurn
  BY <1>15, AdoptionTurnKeeps
<1>16. CASE UNCHANGED vars
  BY <1>16 DEF vars, Inv
<1> QED BY <1>1, <1>2, <1>3, <1>4, <1>5, <1>6, <1>7, <1>8, <1>9, <1>10, <1>11, <1>12,
           <1>13, <1>14, <1>15, <1>16 DEF Next

\* What is said of neighbours on the stack holds of any two places of it.
LEMMA InvMeans == Inv => TypeOK /\ OpenNested
<1> SUFFICES ASSUME Inv PROVE TypeOK /\ OpenNested
  OBVIOUS
<1>1. /\ Good(tree) /\ words \in Vocabulary /\ mode \in {"in_body", "in_table"}
      /\ job \in {NULL} \cup Job
  BY RoomIs
<1>2. /\ tree.open \in Seq(Node) /\ tree.active \in Seq(Node \cup {Marker})
      /\ tree.open \in Seq(Node \cup {Marker})
      /\ DOMAIN tree.open = 1 .. Len(tree.open) /\ DOMAIN tree.active = 1 .. Len(tree.active)
      /\ \A i \in 1 .. Len(tree.open) : tree.tag[tree.open[i]] # NULL
      /\ \A i \in 1 .. Len(tree.active) : tree.active[i] # Marker =>
            tree.tag[tree.active[i]] # NULL
  <2>1. tree.open \in Seq(Node)
    BY <1>1, GoodFields
  <2> QED BY <1>1, <2>1, GoodFields
<1>3. \A n \in Elements(tree.open) \cup Elements(tree.active) : tree.tag[n] # NULL
  <2>1. \A n \in Elements(tree.open) : tree.tag[n] # NULL
    BY <1>2, ElementsAre
  <2>2. \A n \in Elements(tree.active) : tree.tag[n] # NULL
    BY <1>2, ElementsAre
  <2> QED BY <2>1, <2>2
<1>4. IsInjective(tree.open)
  BY <1>1, <1>2 DEF IsInjective, Good, Stacked
<1>5. \A i, j \in DOMAIN tree.active :
          tree.active[i] = tree.active[j] /\ tree.active[i] # Marker => i = j
  BY <1>1, <1>2 DEF Good, Listed
<1>6. tree \in [open: Seq(Node), active: Seq(Node \cup {Marker}),
                tag: [Node -> Tag \cup {NULL}], above: [Node -> Node \cup {NULL}]]
  BY <1>1 DEF Good, Trees, Links
<1>7. TypeOK
  BY <1>1, <1>3, <1>4, <1>5, <1>6 DEF TypeOK
<1>8. OpenNested
  <2> SUFFICES ASSUME NEW i \in 2 .. Len(tree.open)
               PROVE  \/ tree.open[i - 1] \in Around(tree.above, tree.open[i])
                      \/ /\ tree.tag[tree.open[i - 1]] = "table"
                         /\ tree.above[tree.open[i - 1]] \in Around(tree.above, tree.open[i])
    BY DEF OpenNested
  <2>1. Len(tree.open) \in Nat
    BY <1>1, GoodFields
  <2>2. i - 1 \in 1 .. Len(tree.open) /\ i \in 1 .. Len(tree.open) /\ i - 1 < i
    BY <2>1
  <2> QED BY <1>1, <2>2 DEF Good, Nested, Inside
<1> QED BY <1>7, <1>8

(***************************************************************************)
(* The two lists never hold an element twice, nor one that is not there    *)
(* any more, whatever start tags, end tags and text the parser meets: of   *)
(* the handlers of html/tree/insertion_mode/in_body.c and in_table.c, and  *)
(* lxb_html_tree_adoption_agency_algorithm with positions it computed      *)
(* before it removed entries.                                              *)
(***************************************************************************)
THEOREM FormattingTypes == Spec => []TypeOK
<1>1. Inv => TypeOK
  BY InvMeans
<1> QED BY <1>1, InitInv, NextInv, PTL DEF Spec

(***************************************************************************)
(* The stack is a way down the document, for documents of any size: what   *)
(* an open element stands on is around it, but for a table whose content   *)
(* went before it.  lxb_html_tree_adoption_agency_algorithm and            *)
(* lxb_html_tree_insert_foreign_element move nodes with primitives that    *)
(* check nothing, so this is what keeps the document a tree.               *)
(***************************************************************************)
THEOREM FormattingNested == Spec => []OpenNested
<1>1. Inv => OpenNested
  BY InvMeans
<1> QED BY <1>1, InitInv, NextInv, PTL DEF Spec
===============================================================================
