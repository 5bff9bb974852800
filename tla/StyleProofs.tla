----------------------------- MODULE StyleProofs -----------------------------
(***************************************************************************)
(* Proofs about Style: whatever is moved, attached, removed and set, the   *)
(* lists keep their types, and an element outside the document shows       *)
(* nothing that a stylesheet declares.                                     *)
(***************************************************************************)
EXTENDS Style, FiniteSetTheorems, SequenceTheorems, WellFoundedInduction, TLAPS

-----------------------------------------------------------------------------
(* Loops: a function on 0 .. n that is defined step by step.               *)

LEMMA LeastExists ==
    ASSUME NEW n \in Nat, NEW S \in SUBSET (0 .. n), S # {}
    PROVE  \E m \in S : \A k \in S : m <= k
<1> DEFINE Upto(m) == {k \in S : k <= m}
           R == StrictSubsetOrdering(0 .. n)
           D == {Upto(m) : m \in S}
<1>1. D \subseteq FiniteSubsetsOf(0 .. n) /\ D # {}
  <2>1. ASSUME NEW m \in S PROVE Upto(m) \in FiniteSubsetsOf(0 .. n)
    <3>1. Upto(m) \in SUBSET (0 .. n)
      OBVIOUS
    <3>2. IsFiniteSet(0 .. n)
      <4>1. 0 \in Int /\ n \in Int
        OBVIOUS
      <4> QED BY <4>1, FS_Interval
    <3> HIDE DEF Upto
    <3> QED BY <3>1, <3>2, FS_Subset DEF FiniteSubsetsOf
  <2> HIDE DEF Upto
  <2> QED BY <2>1
<1>2. IsWellFoundedOn(R, FiniteSubsetsOf(0 .. n))
  BY FS_StrictSubsetOrderingWellFounded
<1>3. PICK d \in D : \A c \in D : ~ (<<c, d>> \in R)
  <2> HIDE DEF D, R
  <2> QED BY <1>1, <1>2, WFMin
<1>4. PICK m \in S : d = Upto(m)
  OBVIOUS
<1>5. ASSUME NEW k \in S, ~ (m <= k) PROVE FALSE
  <2>1. Upto(k) \subseteq Upto(m) /\ m \in Upto(m) /\ m \notin Upto(k)
    <3>1. k \in Int /\ m \in Int /\ k < m /\ \A j \in S : j \in Int
      BY <1>5
    <3>2. \A j \in S : j <= k => j <= m
      BY <3>1
    <3>3. m \in Upto(m) /\ m \notin Upto(k)
      BY <3>1
    <3> QED BY <3>2, <3>3
  <2>2. <<Upto(k), Upto(m)>> \in R
    BY <2>1 DEF StrictSubsetOrdering
  <2> QED BY <1>3, <1>4, <2>2
<1> QED BY <1>5

LEMMA Climbing ==
    ASSUME NEW n \in Nat, NEW P, 0 \in P,
           \A i \in 1 .. n : i - 1 \in P => i \in P
    PROVE  0 .. n \subseteq P
<1> SUFFICES ASSUME ~ (0 .. n \subseteq P) PROVE FALSE
  OBVIOUS
<1> DEFINE S == (0 .. n) \ P
<1>1. PICK m \in S : \A k \in S : m <= k
  <2>1. S \in SUBSET (0 .. n) /\ S # {}
    OBVIOUS
  <2> HIDE DEF S
  <2> QED BY <2>1, LeastExists
<1>2. m \in 1 .. n /\ m - 1 \in 0 .. n
  OBVIOUS
<1>3. m - 1 \in P
  BY <1>1, <1>2
<1> QED BY <1>2, <1>3

\* Step is a loop body: it leads from A[i - 1] to A[i].
Leads(n, A, b, Step) ==
    /\ b \in A[0]
    /\ \A i \in 1 .. n : \A x \in A[i - 1] : Step[i][x] \in A[i]

\* The table of such a loop.
IsTable(f, n, b, Step) ==
    f = [i \in 0 .. n |-> IF i = 0 THEN b ELSE Step[i][f[i - 1]]]

LEMMA TableExists ==
    ASSUME NEW n \in Nat, NEW b, NEW Step
    PROVE  \E f : IsTable(f, n, b, Step)
<1> DEFINE P == {m \in 0 .. n : \E f : IsTable(f, m, b, Step)}
<1>1. 0 \in P
  <2>1. IsTable([i \in 0 .. 0 |-> b], 0, b, Step)
    BY DEF IsTable
  <2> QED BY <2>1
<1>2. ASSUME NEW i \in 1 .. n, i - 1 \in P PROVE i \in P
  <2>1. PICK f : IsTable(f, i - 1, b, Step)
    BY <1>2
  <2> DEFINE g == [j \in 0 .. i |-> IF j = i THEN Step[i][f[i - 1]] ELSE f[j]]
  <2>5. i \in Nat /\ i >= 1 /\ 0 \in 0 .. i - 1
    OBVIOUS
  <2>6. f[0] = b
    BY <2>1, <2>5 DEF IsTable
  <2>7. \A j \in 1 .. i - 1 : f[j] = Step[j][f[j - 1]]
    BY <2>1, <2>5 DEF IsTable
  <2>2. \A j \in 0 .. i : g[j] = IF j = 0 THEN b ELSE Step[j][g[j - 1]]
    <3> TAKE j \in 0 .. i
    <3>1. CASE j = 0
      <4>1. g[j] = f[0]
        BY <2>5, <3>1
      <4> QED BY <2>6, <3>1, <4>1
    <3>2. CASE j = i
      <4>1. g[j] = Step[i][f[i - 1]] /\ j # 0
        BY <2>5, <3>2
      <4>2. g[j - 1] = f[i - 1]
        BY <2>5, <3>2
      <4> QED BY <3>2, <4>1, <4>2
    <3>3. CASE j \in 1 .. i - 1
      <4>1. j \in 0 .. i /\ j - 1 \in 0 .. i /\ j # i /\ j - 1 # i /\ j # 0
        BY <2>5, <3>3
      <4>2. g[j] = f[j] /\ g[j - 1] = f[j - 1]
        BY <4>1
      <4> QED BY <2>7, <3>3, <4>1, <4>2
    <3> QED BY <3>1, <3>2, <3>3
  <2>3. g = [j \in 0 .. i |-> IF j = 0 THEN b ELSE Step[j][g[j - 1]]]
    <3>1. g = [j \in 0 .. i |-> g[j]]
      OBVIOUS
    <3> HIDE DEF g
    <3> QED BY <2>2, <3>1
  <2>4. IsTable(g, i, b, Step)
    <3> HIDE DEF g
    <3> QED BY <2>3 DEF IsTable
  <2> HIDE DEF g
  <2> QED BY <2>4
<1>3. n \in P
  <2> HIDE DEF P
  <2> QED BY <1>1, <1>2, Climbing
<1> QED BY <1>3

LEMMA TableIn ==
    ASSUME NEW n \in Nat, NEW A, NEW b, NEW Step, NEW f,
           Leads(n, A, b, Step), f[0] = b,
           \A i \in 1 .. n : f[i - 1] \in A[i - 1] => f[i] = Step[i][f[i - 1]]
    PROVE  \A i \in 0 .. n : f[i] \in A[i]
<1> DEFINE P == {i \in 0 .. n : f[i] \in A[i]}
<1>1. 0 \in P
  BY DEF Leads
<1>2. ASSUME NEW i \in 1 .. n, i - 1 \in P PROVE i \in P
  BY <1>2 DEF Leads
<1>3. 0 .. n \subseteq P
  <2> HIDE DEF P
  <2> QED BY <1>1, <1>2, Climbing
<1> QED BY <1>3

\* The shape of every loop below.
LEMMA TableOf ==
    ASSUME NEW n \in Nat, NEW A, NEW b, NEW Step, Leads(n, A, b, Step)
    PROVE  \E f : /\ IsTable(f, n, b, Step)
                 /\ \A i \in 0 .. n : f[i] \in A[i]
<1>1. PICK f : IsTable(f, n, b, Step)
  BY TableExists
<1>2. f[0] = b /\ \A i \in 1 .. n : f[i] = Step[i][f[i - 1]]
  BY <1>1 DEF IsTable
<1>3. \A i \in 0 .. n : f[i] \in A[i]
  BY <1>2, TableIn
<1> QED BY <1>1, <1>3

-----------------------------------------------------------------------------
(* The loops of Style: what holds before the first turn, and after every   *)
(* turn because it held before, holds at the end.                          *)

\* Without.
LEMMA WithoutLoop ==
    ASSUME NEW T, NEW q \in Seq(T), NEW gone, NEW A,
           <<>> \in A[0],
           \A i \in 1 .. Len(q) : \A x \in A[i - 1] :
               (IF q[i] \in gone THEN x ELSE Append(x, q[i])) \in A[i]
    PROVE  Without(q, gone) \in A[Len(q)]
<1> DEFINE n == Len(q)
           Next1(x, i) == (IF q[i] \in gone THEN x ELSE Append(x, q[i]))
           Step == [i \in 1 .. n |-> [x \in A[i - 1] |-> Next1(x, i)]]
           Body(f) == [i \in 0 .. n |-> IF i = 0 THEN <<>> ELSE Next1(f[i - 1], i)]
           table == CHOOSE f : f = Body(f)
<1>1. n \in Nat
  OBVIOUS
<1>2. \A i \in 1 .. n : \A x \in A[i - 1] : Step[i][x] = Next1(x, i) /\ Next1(x, i) \in A[i]
  OBVIOUS
<1> HIDE DEF Next1, n
<1>3. Leads(n, A, <<>>, Step)
  <2> HIDE DEF Step
  <2> QED BY <1>2 DEF Leads
<1>4. table = Body(table)
  <2>1. PICK f : IsTable(f, n, <<>>, Step) /\ \A i \in 0 .. n : f[i] \in A[i]
    <3> HIDE DEF Step
    <3> QED BY <1>1, <1>3, TableOf
  <2>2. \A i \in 0 .. n : i # 0 => i \in 1 .. n /\ i - 1 \in 0 .. n
    BY <1>1
  <2>3. f = Body(f)
    <3> HIDE DEF Step
    <3> QED BY <1>2, <2>1, <2>2 DEF IsTable
  <2> HIDE DEF Body
  <2> QED BY <2>3
<1> HIDE DEF table
<1>5. table[0] = <<>> /\ \A i \in 1 .. n : table[i] = Next1(table[i - 1], i)
  BY <1>1, <1>4
<1>6. table[0] = <<>>
  BY <1>5
<1>7. \A i \in 1 .. n : table[i - 1] \in A[i - 1] => table[i] = Step[i][table[i - 1]]
  <2> HIDE DEF Step
  <2> QED BY <1>2, <1>5
<1>8. \A i \in 0 .. n : table[i] \in A[i]
  <2> HIDE DEF Step
  <2> QED BY <1>1, <1>3, <1>7, <1>6, TableIn
<1>9. Without(q, gone) = table[n]
  BY DEF Without, table, Next1, n
<1> QED BY <1>1, <1>8, <1>9 DEF n

\* ListAppend.
LEMMA ListAppendLoop ==
    ASSUME NEW lists, NEW from, NEW sp, NEW decls \in Seq(Declaration), NEW A,
           lists \in A[0],
           \A i \in 1 .. Len(decls) : \A x \in A[i - 1] :
               [x EXCEPT ![decls[i].prop] =
                  StyleAppend(@, [from |-> from, sp |-> Weight(sp, decls[i])])] \in A[i]
    PROVE  ListAppend(lists, from, sp, decls) \in A[Len(decls)]
<1> DEFINE n == Len(decls)
           Next1(x, i) == [x EXCEPT ![decls[i].prop] =
                              StyleAppend(@, [from |-> from, sp |-> Weight(sp, decls[i])])]
           Step == [i \in 1 .. n |-> [x \in A[i - 1] |-> Next1(x, i)]]
           Body(f) == [i \in 0 .. n |-> IF i = 0 THEN lists ELSE Next1(f[i - 1], i)]
           table == CHOOSE f : f = Body(f)
<1>1. n \in Nat
  OBVIOUS
<1>2. \A i \in 1 .. n : \A x \in A[i - 1] : Step[i][x] = Next1(x, i) /\ Next1(x, i) \in A[i]
  OBVIOUS
<1> HIDE DEF Next1, n
<1>3. Leads(n, A, lists, Step)
  <2> HIDE DEF Step
  <2> QED BY <1>2 DEF Leads
<1>4. table = Body(table)
  <2>1. PICK f : IsTable(f, n, lists, Step) /\ \A i \in 0 .. n : f[i] \in A[i]
    <3> HIDE DEF Step
    <3> QED BY <1>1, <1>3, TableOf
  <2>2. \A i \in 0 .. n : i # 0 => i \in 1 .. n /\ i - 1 \in 0 .. n
    BY <1>1
  <2>3. f = Body(f)
    <3> HIDE DEF Step
    <3> QED BY <1>2, <2>1, <2>2 DEF IsTable
  <2> HIDE DEF Body
  <2> QED BY <2>3
<1> HIDE DEF table
<1>5. table[0] = lists /\ \A i \in 1 .. n : table[i] = Next1(table[i - 1], i)
  BY <1>1, <1>4
<1>6. table[0] = lists
  BY <1>5
<1>7. \A i \in 1 .. n : table[i - 1] \in A[i - 1] => table[i] = Step[i][table[i - 1]]
  <2> HIDE DEF Step
  <2> QED BY <1>2, <1>5
<1>8. \A i \in 0 .. n : table[i] \in A[i]
  <2> HIDE DEF Step
  <2> QED BY <1>1, <1>3, <1>7, <1>6, TableIn
<1>9. ListAppend(lists, from, sp, decls) = table[n]
  BY DEF ListAppend, table, Next1, n
<1> QED BY <1>1, <1>8, <1>9 DEF n

\* AttachSheet.
LEMMA AttachSheetLoop ==
    ASSUME NEW S, NEW lists, NEW s \in Sheet, NEW e, NEW A,
           lists \in A[0],
           \A i \in 1 .. Len(Rules[s]) : \A x \in A[i - 1] :
               (IF Matches(S, Rules[s][i], e)
                   THEN ListAppend(x, <<s, i>>, Rules[s][i].sp, Rules[s][i].decls)
                   ELSE x) \in A[i]
    PROVE  AttachSheet(S, lists, s, e) \in A[Len(Rules[s])]
<1> DEFINE n == Len(Rules[s])
           Next1(x, i) == (IF Matches(S, Rules[s][i], e)
                              THEN ListAppend(x, <<s, i>>, Rules[s][i].sp, Rules[s][i].decls)
                              ELSE x)
           Step == [i \in 1 .. n |-> [x \in A[i - 1] |-> Next1(x, i)]]
           Body(f) == [i \in 0 .. n |-> IF i = 0 THEN lists ELSE Next1(f[i - 1], i)]
           table == CHOOSE f : f = Body(f)
<1>1. n \in Nat
  BY RulesAssumption
<1>2. \A i \in 1 .. n : \A x \in A[i - 1] : Step[i][x] = Next1(x, i) /\ Next1(x, i) \in A[i]
  OBVIOUS
<1> HIDE DEF Next1, n
<1>3. Leads(n, A, lists, Step)
  <2> HIDE DEF Step
  <2> QED BY <1>2 DEF Leads
<1>4. table = Body(table)
  <2>1. PICK f : IsTable(f, n, lists, Step) /\ \A i \in 0 .. n : f[i] \in A[i]
    <3> HIDE DEF Step
    <3> QED BY <1>1, <1>3, TableOf
  <2>2. \A i \in 0 .. n : i # 0 => i \in 1 .. n /\ i - 1 \in 0 .. n
    BY <1>1
  <2>3. f = Body(f)
    <3> HIDE DEF Step
    <3> QED BY <1>2, <2>1, <2>2 DEF IsTable
  <2> HIDE DEF Body
  <2> QED BY <2>3
<1> HIDE DEF table
<1>5. table[0] = lists /\ \A i \in 1 .. n : table[i] = Next1(table[i - 1], i)
  BY <1>1, <1>4
<1>6. table[0] = lists
  BY <1>5
<1>7. \A i \in 1 .. n : table[i - 1] \in A[i - 1] => table[i] = Step[i][table[i - 1]]
  <2> HIDE DEF Step
  <2> QED BY <1>2, <1>5
<1>8. \A i \in 0 .. n : table[i] \in A[i]
  <2> HIDE DEF Step
  <2> QED BY <1>1, <1>3, <1>7, <1>6, TableIn, SMTT(30)
<1>9. AttachSheet(S, lists, s, e) = table[n]
  BY DEF AttachSheet, table, Next1, n
<1> QED BY <1>1, <1>8, <1>9 DEF n

\* AttachSheets.
LEMMA AttachSheetsLoop ==
    ASSUME NEW S, S.sheets \in Seq(Sheet), NEW lists, NEW e, NEW A,
           lists \in A[0],
           \A i \in 1 .. Len(S.sheets) : \A x \in A[i - 1] :
               AttachSheet(S, x, S.sheets[i], e) \in A[i]
    PROVE  AttachSheets(S, lists, e) \in A[Len(S.sheets)]
<1> DEFINE n == Len(S.sheets)
           Next1(x, i) == AttachSheet(S, x, S.sheets[i], e)
           Step == [i \in 1 .. n |-> [x \in A[i - 1] |-> Next1(x, i)]]
           Body(f) == [i \in 0 .. n |-> IF i = 0 THEN lists ELSE Next1(f[i - 1], i)]
           table == CHOOSE f : f = Body(f)
<1>1. n \in Nat
  OBVIOUS
<1>2. \A i \in 1 .. n : \A x \in A[i - 1] : Step[i][x] = Next1(x, i) /\ Next1(x, i) \in A[i]
  OBVIOUS
<1> HIDE DEF Next1, n
<1>3. Leads(n, A, lists, Step)
  <2> HIDE DEF Step
  <2> QED BY <1>2 DEF Leads
<1>4. table = Body(table)
  <2>1. PICK f : IsTable(f, n, lists, Step) /\ \A i \in 0 .. n : f[i] \in A[i]
    <3> HIDE DEF Step
    <3> QED BY <1>1, <1>3, TableOf
  <2>2. \A i \in 0 .. n : i # 0 => i \in 1 .. n /\ i - 1 \in 0 .. n
    BY <1>1
  <2>3. f = Body(f)
    <3> HIDE DEF Step
    <3> QED BY <1>2, <2>1, <2>2 DEF IsTable
  <2> HIDE DEF Body
  <2> QED BY <2>3
<1> HIDE DEF table
<1>5. table[0] = lists /\ \A i \in 1 .. n : table[i] = Next1(table[i - 1], i)
  BY <1>1, <1>4
<1>6. table[0] = lists
  BY <1>5
<1>7. \A i \in 1 .. n : table[i - 1] \in A[i - 1] => table[i] = Step[i][table[i - 1]]
  <2> HIDE DEF Step
  <2> QED BY <1>2, <1>5
<1>8. \A i \in 0 .. n : table[i] \in A[i]
  <2> HIDE DEF Step
  <2> QED BY <1>1, <1>3, <1>7, <1>6, TableIn
<1>9. AttachSheets(S, lists, e) = table[n]
  BY DEF AttachSheets, table, Next1, n
<1> QED BY <1>1, <1>8, <1>9 DEF n

\* Strike.
LEMMA StrikeLoop ==
    ASSUME NEW q \in Seq(Sheet), NEW s, NEW A,
           [kept |-> <<>>, struck |-> FALSE] \in A[0],
           \A i \in 1 .. Len(q) : \A x \in A[i - 1] :
               (IF q[i] = s /\ ~x.struck
                   THEN [x EXCEPT !.struck = TRUE]
                   ELSE [kept |-> Append(x.kept, q[i]), struck |-> FALSE]) \in A[i]
    PROVE  \E x \in A[Len(q)] : Strike(q, s) = x.kept
<1> DEFINE n == Len(q)
           first == [kept |-> <<>>, struck |-> FALSE]
           Next1(x, i) == (IF q[i] = s /\ ~x.struck
                              THEN [x EXCEPT !.struck = TRUE]
                              ELSE [kept |-> Append(x.kept, q[i]), struck |-> FALSE])
           Step == [i \in 1 .. n |-> [x \in A[i - 1] |-> Next1(x, i)]]
           Body(f) == [i \in 0 .. n |-> IF i = 0 THEN first ELSE Next1(f[i - 1], i)]
           table == CHOOSE f : f = Body(f)
<1>1. n \in Nat
  OBVIOUS
<1>2. first \in A[0]
  OBVIOUS
<1>3. \A i \in 1 .. n : \A x \in A[i - 1] : Step[i][x] = Next1(x, i) /\ Next1(x, i) \in A[i]
  OBVIOUS
<1> HIDE DEF Next1, n, first
<1>4. Leads(n, A, first, Step)
  <2> HIDE DEF Step
  <2> QED BY <1>3, <1>2 DEF Leads
<1>5. table = Body(table)
  <2>1. PICK f : IsTable(f, n, first, Step) /\ \A i \in 0 .. n : f[i] \in A[i]
    <3> HIDE DEF Step
    <3> QED BY <1>1, <1>4, TableOf
  <2>2. \A i \in 0 .. n : i # 0 => i \in 1 .. n /\ i - 1 \in 0 .. n
    BY <1>1
  <2>3. f = Body(f)
    <3> HIDE DEF Step
    <3> QED BY <1>3, <2>1, <2>2 DEF IsTable
  <2> HIDE DEF Body
  <2> QED BY <2>3
<1> HIDE DEF table
<1>6. table[0] = first /\ \A i \in 1 .. n : table[i] = Next1(table[i - 1], i)
  <2>1. \A i \in 1 .. n : i \in 0 .. n /\ i # 0
    BY <1>1
  <2>2. \A i \in 0 .. n : table[i] = IF i = 0 THEN first ELSE Next1(table[i - 1], i)
    BY <1>5
  <2>3. 0 \in 0 .. n
    BY <1>1
  <2> HIDE DEF Body
  <2> QED BY <2>1, <2>2, <2>3
<1>7. table[0] = first
  BY <1>6
<1>8. \A i \in 1 .. n : table[i - 1] \in A[i - 1] => table[i] = Step[i][table[i - 1]]
  <2> HIDE DEF Step
  <2> QED BY <1>3, <1>6
<1>9. \A i \in 0 .. n : table[i] \in A[i]
  <2> HIDE DEF Step
  <2> QED BY <1>1, <1>4, <1>8, <1>7, TableIn
<1>10. Strike(q, s) = table[n].kept
  BY DEF Strike, table, Next1, n, first
<1> QED BY <1>1, <1>9, <1>10 DEF n

\* Notify.
LEMMA NotifyLoop ==
    ASSUME NEW S, NEW e, Below(S, e) \in Seq(Element), NEW A,
           S \in A[0],
           \A i \in 1 .. Len(Below(S, e)) : \A x \in A[i - 1] :
               InsertedSteps(x, Below(S, e)[i]) \in A[i]
    PROVE  Notify(S, e) \in A[Len(Below(S, e))]
<1> DEFINE n == Len(Below(S, e))
           Next1(x, i) == InsertedSteps(x, Below(S, e)[i])
           Step == [i \in 1 .. n |-> [x \in A[i - 1] |-> Next1(x, i)]]
           Body(f) == [i \in 0 .. n |-> IF i = 0 THEN S ELSE Next1(f[i - 1], i)]
           table == CHOOSE f : f = Body(f)
<1>1. n \in Nat
  OBVIOUS
<1>2. \A i \in 1 .. n : \A x \in A[i - 1] : Step[i][x] = Next1(x, i) /\ Next1(x, i) \in A[i]
  OBVIOUS
<1> HIDE DEF Next1, n
<1>3. Leads(n, A, S, Step)
  <2> HIDE DEF Step
  <2> QED BY <1>2 DEF Leads
<1>4. table = Body(table)
  <2>1. PICK f : IsTable(f, n, S, Step) /\ \A i \in 0 .. n : f[i] \in A[i]
    <3> HIDE DEF Step
    <3> QED BY <1>1, <1>3, TableOf
  <2>2. \A i \in 0 .. n : i # 0 => i \in 1 .. n /\ i - 1 \in 0 .. n
    BY <1>1
  <2>3. f = Body(f)
    <3> HIDE DEF Step
    <3> QED BY <1>2, <2>1, <2>2 DEF IsTable
  <2> HIDE DEF Body
  <2> QED BY <2>3
<1> HIDE DEF table
<1>5. table[0] = S /\ \A i \in 1 .. n : table[i] = Next1(table[i - 1], i)
  BY <1>1, <1>4
<1>6. table[0] = S
  BY <1>5
<1>7. \A i \in 1 .. n : table[i - 1] \in A[i - 1] => table[i] = Step[i][table[i - 1]]
  <2> HIDE DEF Step
  <2> QED BY <1>2, <1>5
<1>8. \A i \in 0 .. n : table[i] \in A[i]
  <2> HIDE DEF Step
  <2> QED BY <1>1, <1>3, <1>7, <1>6, TableIn
<1>9. Notify(S, e) = table[n]
  BY DEF Notify, table, Next1, n
<1> QED BY <1>1, <1>8, <1>9 DEF n

-----------------------------------------------------------------------------
(* The operations on lists.                                                *)

\* w is what is left of the first i of q without what is in gone: g says where
\* each of w comes from.
Picks(w, q, gone, i, g) ==
    /\ g \in [DOMAIN w -> 1 .. i]
    /\ \A k \in DOMAIN w : w[k] = q[g[k]]
    /\ \A k, l \in DOMAIN w : k < l => g[k] < g[l]
    /\ \A j \in 1 .. i : q[j] \notin gone <=> \E k \in DOMAIN w : g[k] = j

\* One more of q.
LEMMA PicksMore ==
    ASSUME NEW T, NEW q \in Seq(T), NEW gone, NEW i \in 1 .. Len(q), NEW w \in Seq(T),
           NEW g, Picks(w, q, gone, i - 1, g)
    PROVE  /\ Append(w, q[i]) \in Seq(T)
           /\ q[i] \in gone => Picks(w, q, gone, i, g)
           /\ q[i] \notin gone => \E h : Picks(Append(w, q[i]), q, gone, i, h)
<1>1. i \in Int /\ i >= 1 /\ q[i] \in T
  OBVIOUS
<1>2. ASSUME q[i] \in gone PROVE Picks(w, q, gone, i, g)
  <2>1. \A j \in 1 .. i : j = i \/ j \in 1 .. i - 1
    BY <1>1
  <2>2. \A k \in DOMAIN w : g[k] \in 1 .. i - 1 /\ g[k] \in 1 .. i /\ g[k] # i
    BY <1>1 DEF Picks
  <2>3. g \in [DOMAIN w -> 1 .. i]
    BY <2>2 DEF Picks
  <2> QED BY <1>2, <2>1, <2>2, <2>3 DEF Picks
<1> DEFINE n == Len(w)
           v == Append(w, q[i])
           h == [k \in 1 .. n + 1 |-> IF k = n + 1 THEN i ELSE g[k]]
<1>3. /\ v \in Seq(T) /\ DOMAIN v = 1 .. n + 1 /\ DOMAIN w = 1 .. n /\ n \in Nat
      /\ v[n + 1] = q[i] /\ \A k \in 1 .. n : v[k] = w[k] /\ k # n + 1 /\ k \in 1 .. n + 1
  BY <1>1
<1>4. \A k \in 1 .. n : h[k] = g[k] /\ g[k] \in 1 .. i - 1 /\ w[k] = q[g[k]]
  BY <1>3 DEF Picks
<1>5. h[n + 1] = i
  BY <1>3
<1>6. \A k \in 1 .. n + 1 : k \in 1 .. n \/ k = n + 1
  BY <1>3
<1> HIDE DEF v, h, n
<1>7. h \in [1 .. n + 1 -> 1 .. i]
  <2>1. \A k \in 1 .. n + 1 : h[k] \in 1 .. i
    BY <1>1, <1>4, <1>5, <1>6
  <2> QED BY <2>1 DEF h
<1>8. \A k \in 1 .. n + 1 : v[k] = q[h[k]]
  BY <1>3, <1>4, <1>5, <1>6
<1>9. \A k, l \in 1 .. n + 1 : k < l => h[k] < h[l]
  <2>1. \A k, l \in 1 .. n : k < l => g[k] < g[l]
    BY <1>3 DEF Picks
  <2>2. \A k, l \in 1 .. n + 1 : k < l => k \in 1 .. n
    BY <1>3
  <2>3. \A k \in 1 .. n : h[k] < i /\ h[k] \in Int
    BY <1>1, <1>4
  <2> QED BY <1>4, <1>5, <1>6, <2>1, <2>2, <2>3
<1>10. ASSUME q[i] \notin gone
       PROVE  \A j \in 1 .. i : q[j] \notin gone <=> \E k \in 1 .. n + 1 : h[k] = j
  <2>1. \A j \in 1 .. i - 1 : q[j] \notin gone <=> \E k \in 1 .. n : g[k] = j
    BY <1>3 DEF Picks
  <2>2. \A j \in 1 .. i : j = i \/ (j \in 1 .. i - 1 /\ j # i)
    BY <1>1
  <2>3. n + 1 \in 1 .. n + 1
    BY <1>3
  <2> QED BY <1>10, <1>3, <1>4, <1>5, <1>6, <2>1, <2>2, <2>3
<1>11. q[i] \notin gone => Picks(v, q, gone, i, h)
  BY <1>3, <1>7, <1>8, <1>9, <1>10 DEF Picks
<1> QED BY <1>2, <1>3, <1>11 DEF v

LEMMA WithoutPicks ==
    ASSUME NEW T, NEW q \in Seq(T), NEW gone
    PROVE  /\ Without(q, gone) \in Seq(T)
           /\ \E g : Picks(Without(q, gone), q, gone, Len(q), g)
<1> DEFINE A == [i \in 0 .. Len(q) |-> {w \in Seq(T) : \E g : Picks(w, q, gone, i, g)}]
<1>1. Len(q) \in Nat
  OBVIOUS
<1>2. <<>> \in A[0]
  <2>1. Picks(<<>>, q, gone, 0, <<>>)
    BY DEF Picks
  <2> QED BY <1>1, <2>1
<1>3. ASSUME NEW i \in 1 .. Len(q), NEW w \in A[i - 1]
      PROVE  (IF q[i] \in gone THEN w ELSE Append(w, q[i])) \in A[i]
  <2>1. i - 1 \in 0 .. Len(q) /\ i \in 0 .. Len(q)
    BY <1>1
  <2>2. w \in Seq(T)
    BY <2>1
  <2>3. PICK g : Picks(w, q, gone, i - 1, g)
    BY <2>1
  <2>4. /\ Append(w, q[i]) \in Seq(T)
        /\ q[i] \in gone => Picks(w, q, gone, i, g)
        /\ q[i] \notin gone => \E h : Picks(Append(w, q[i]), q, gone, i, h)
    BY <2>2, <2>3, PicksMore
  <2> QED BY <2>1, <2>2, <2>4
<1>4. Without(q, gone) \in A[Len(q)]
  <2> HIDE DEF A
  <2> QED BY <1>2, <1>3, WithoutLoop
<1> QED BY <1>1, <1>4

LEMMA WithoutIs ==
    ASSUME NEW T, NEW q \in Seq(T), NEW gone
    PROVE  /\ Without(q, gone) \in Seq(T)
           /\ \A k \in DOMAIN Without(q, gone) :
                 /\ Without(q, gone)[k] \notin gone
                 /\ \E j \in DOMAIN q : Without(q, gone)[k] = q[j]
           /\ \A j \in DOMAIN q : q[j] \notin gone =>
                 \E k \in DOMAIN Without(q, gone) : Without(q, gone)[k] = q[j]
           /\ IsInjective(q) => IsInjective(Without(q, gone))
<1> DEFINE w == Without(q, gone)
<1>1. w \in Seq(T)
  BY WithoutPicks
<1>2. PICK g : Picks(w, q, gone, Len(q), g)
  BY WithoutPicks
<1> HIDE DEF w
<1>3. DOMAIN q = 1 .. Len(q)
  OBVIOUS
<1>4. \A k \in DOMAIN w : w[k] = q[g[k]] /\ g[k] \in DOMAIN q /\ q[g[k]] \notin gone
  BY <1>2, <1>3 DEF Picks
<1>5. \A j \in DOMAIN q : q[j] \notin gone => \E k \in DOMAIN w : w[k] = q[j]
  BY <1>2, <1>3 DEF Picks
<1>6. ASSUME IsInjective(q) PROVE IsInjective(w)
  <2>1. \A k, l \in DOMAIN w : w[k] = w[l] => g[k] = g[l]
    BY <1>4, <1>6 DEF IsInjective
  <2>2. \A k, l \in DOMAIN w : g[k] = g[l] => k = l
    <3>1. \A k, l \in DOMAIN w : k \in Int /\ l \in Int
      BY <1>1
    <3>2. \A k \in DOMAIN w : g[k] \in Int
      BY <1>2 DEF Picks
    <3>3. \A k, l \in DOMAIN w : k < l => g[k] < g[l]
      BY <1>2 DEF Picks
    <3> QED BY <3>1, <3>2, <3>3
  <2> QED BY <2>1, <2>2 DEF IsInjective
<1> QED BY <1>1, <1>4, <1>5, <1>6 DEF w

LEMMA WeightIs ==
    ASSUME NEW sp \in 0 .. InlineBit, NEW d
    PROVE  /\ Weight(sp, d) \in 0 .. 2 * ImportantBit - 1
           /\ sp = InlineBit <=> Weight(sp, d) % ImportantBit >= InlineBit
<1>1. sp \in 0 .. 10 /\ ImportantBit = 20 /\ InlineBit = 10
  BY DEF InlineBit, ImportantBit
<1>2. CASE d.important
  <2>1. Weight(sp, d) = sp + 20
    BY <1>1, <1>2 DEF Weight
  <2> QED BY <1>1, <2>1
<1>3. CASE ~d.important
  <2>1. Weight(sp, d) = sp
    BY <1>1, <1>3 DEF Weight
  <2> QED BY <1>1, <2>1
<1> QED BY <1>2, <1>3

\* r is q with x at place k.
Inserted(r, q, k, x) ==
    /\ Len(r) = Len(q) + 1
    /\ \A i \in 1 .. Len(r) : r[i] = IF i < k THEN q[i] ELSE IF i = k THEN x ELSE q[i - 1]

LEMMA InsertAtIs ==
    ASSUME NEW T, NEW q \in Seq(T), NEW x \in T, NEW k \in 1 .. Len(q) + 1
    PROVE  InsertAt(q, k, x) \in Seq(T) /\ Inserted(InsertAt(q, k, x), q, k, x)
<1> DEFINE a == SubSeq(q, 1, k - 1)
           b == SubSeq(q, k, Len(q))
           n == Len(q)
<1>1. n \in Nat /\ k \in Int /\ 1 <= k /\ k <= n + 1
  OBVIOUS
<1>2. a \in Seq(T) /\ Len(a) = k - 1 /\ \A i \in 1 .. k - 1 : a[i] = q[i]
  <2>1. a \in Seq(T)
    BY SubSeqProperties
  <2>2. Len(a) = k - 1
    BY <1>1, SubSeqProperties
  <2>3. \A i \in 1 .. k - 1 : a[i] = q[i]
    BY <1>1, SubSeqProperties
  <2> QED BY <2>1, <2>2, <2>3
<1>3. b \in Seq(T) /\ Len(b) = n - k + 1 /\ \A i \in 1 .. n - k + 1 : b[i] = q[i + k - 1]
  <2>1. b \in Seq(T)
    BY SubSeqProperties
  <2>2. Len(b) = n - k + 1
    BY <1>1, SubSeqProperties
  <2>3. \A i \in 1 .. n - k + 1 : b[i] = q[i + k - 1]
    BY <1>1, SubSeqProperties
  <2> QED BY <2>1, <2>2, <2>3
<1> HIDE DEF a, b, n
<1>4. <<x>> \in Seq(T) /\ Len(<<x>>) = 1 /\ <<x>>[1] = x
  OBVIOUS
<1> DEFINE c == a \o <<x>>
<1>5. c \in Seq(T) /\ Len(c) = k /\ \A i \in 1 .. k : c[i] = IF i < k THEN q[i] ELSE x
  <2>1. c \in Seq(T) /\ Len(c) = Len(a) + Len(<<x>>)
    BY <1>2, <1>4, ConcatProperties
  <2>2. \A i \in 1 .. Len(a) + Len(<<x>>) :
             c[i] = IF i <= Len(a) THEN a[i] ELSE <<x>>[i - Len(a)]
    BY <1>2, <1>4, ConcatProperties
  <2> HIDE DEF c
  <2>3. \A i \in 1 .. k : c[i] = IF i < k THEN q[i] ELSE x
    <3> TAKE i \in 1 .. k
    <3>1. c[i] = IF i <= k - 1 THEN a[i] ELSE <<x>>[i - (k - 1)]
      BY <1>1, <1>2, <1>4, <2>2
    <3>2. i - (k - 1) = 1 \/ i < k
      BY <1>1
    <3> QED BY <1>1, <1>2, <1>4, <3>1, <3>2
  <2> QED BY <1>1, <1>2, <1>4, <2>1, <2>3
<1> HIDE DEF c
<1> DEFINE r == c \o b
<1>6. InsertAt(q, k, x) = r
  BY DEF InsertAt, a, b, c, n
<1>7. r \in Seq(T) /\ Len(r) = n + 1
  <2>1. r \in Seq(T) /\ Len(r) = Len(c) + Len(b)
    BY <1>3, <1>5, ConcatProperties
  <2> QED BY <1>1, <1>3, <1>5, <2>1
<1>8. \A i \in 1 .. n + 1 : r[i] = IF i <= k THEN c[i] ELSE b[i - k]
  <2>1. \A i \in 1 .. Len(c) + Len(b) : r[i] = IF i <= Len(c) THEN c[i] ELSE b[i - Len(c)]
    BY <1>3, <1>5, ConcatProperties
  <2> HIDE DEF r
  <2> QED BY <1>1, <1>3, <1>5, <2>1
<1> HIDE DEF r
<1>9. \A i \in 1 .. n + 1 : r[i] = IF i < k THEN q[i] ELSE IF i = k THEN x ELSE q[i - 1]
  <2> TAKE i \in 1 .. n + 1
  <2>1. CASE i <= k
    BY <1>1, <1>5, <1>8, <2>1
  <2>2. CASE i > k
    <3>1. i - k \in 1 .. n - k + 1 /\ (i - k) + k - 1 = i - 1
      BY <1>1, <2>2
    <3>2. b[i - k] = q[i - 1]
      BY <1>3, <3>1
    <3> QED BY <1>1, <1>8, <2>2, <3>2
  <2> QED BY <1>1, <2>1, <2>2
<1> QED BY <1>6, <1>7, <1>9 DEF Inserted, n

\* Heavier ones do not come behind lighter ones.
Sorted(q) == \A i, j \in DOMAIN q : i < j => q[j].sp <= q[i].sp

\* r is q with x in front of the first one that is not heavier.
Entered(r, q, x) ==
    \E k \in 1 .. Len(q) + 1 :
       /\ Inserted(r, q, k, x)
       /\ \A i \in 1 .. k - 1 : q[i].sp > x.sp
       /\ k <= Len(q) => q[k].sp <= x.sp

LEMMA WeakAppendIs ==
    ASSUME NEW T, NEW q \in Seq(T), NEW x \in T, x.sp \in Int, \A y \in T : y.sp \in Int
    PROVE  WeakAppend(q, x) \in Seq(T) /\ Entered(WeakAppend(q, x), q, x)
<1> DEFINE n == Len(q)
           weaker == {i \in DOMAIN q : q[i].sp <= x.sp}
           at == IF weaker = {} THEN n + 1
                 ELSE CHOOSE i \in weaker : \A j \in weaker : i <= j
<1>1. n \in Nat /\ DOMAIN q = 1 .. n /\ \A i \in 1 .. n : q[i] \in T /\ q[i].sp \in Int
  OBVIOUS
<1>2. weaker \in SUBSET (0 .. n) /\ weaker \in SUBSET (1 .. n)
  BY <1>1
<1>3. \A i \in 1 .. n : i \in weaker <=> q[i].sp <= x.sp
  BY <1>1
<1> HIDE DEF weaker, n
<1>4. weaker # {} => at \in weaker /\ \A j \in weaker : at <= j
  <2>1. weaker # {} => \E m \in weaker : \A j \in weaker : m <= j
    BY <1>1, <1>2, LeastExists
  <2> QED BY <2>1
<1>5. weaker = {} => at = n + 1
  OBVIOUS
<1> HIDE DEF at
<1>6. at \in 1 .. n + 1
  <2>1. CASE weaker = {}
    BY <1>1, <1>5, <2>1
  <2>2. CASE weaker # {}
    <3>1. at \in 1 .. n
      BY <1>2, <1>4, <2>2
    <3> QED BY <1>1, <3>1
  <2> QED BY <2>1, <2>2
<1>7. \A i \in 1 .. at - 1 : q[i].sp > x.sp
  <2> TAKE i \in 1 .. at - 1
  <2>1. i \in 1 .. n /\ i < at /\ i \in Int /\ at \in Int
    BY <1>1, <1>6
  <2>2. i \notin weaker
    BY <1>4, <2>1
  <2> QED BY <1>1, <1>3, <2>1, <2>2
<1>8. at <= n => q[at].sp <= x.sp
  <2>1. at <= n => weaker # {}
    BY <1>1, <1>5
  <2> QED BY <1>2, <1>3, <1>4, <2>1
<1>9. WeakAppend(q, x) = InsertAt(q, at, x)
  BY DEF WeakAppend, at, weaker, n
<1>10. InsertAt(q, at, x) \in Seq(T) /\ Inserted(InsertAt(q, at, x), q, at, x)
  BY <1>6, InsertAtIs DEF n
<1> QED BY <1>6, <1>7, <1>8, <1>9, <1>10 DEF Entered, n

\* The active declaration and the weaker ones are one list.
LEMMA StyleAppendIs ==
    ASSUME NEW T, NEW q \in Seq(T), NEW x \in T, \A y \in T : y.sp \in Int
    PROVE  /\ StyleAppend(q, x) \in Seq(T)
           /\ Sorted(q) => Entered(StyleAppend(q, x), q, x)
<1> DEFINE n == Len(q)
           h == Head(q)
           t == Tail(q)
<1>1. CASE q = <<>>
  <2>1. StyleAppend(q, x) = <<x>> /\ <<x>> \in Seq(T) /\ Len(<<x>>) = 1 /\ Len(q) = 0
    BY <1>1 DEF StyleAppend
  <2>2. Inserted(<<x>>, q, 1, x)
    BY <2>1 DEF Inserted
  <2>3. 1 \in 1 .. Len(q) + 1 /\ 1 .. 1 - 1 = {} /\ ~(1 <= Len(q))
    BY <2>1
  <2>4. Entered(<<x>>, q, x)
    BY <2>2, <2>3 DEF Entered
  <2> QED BY <2>1, <2>4
<1>2. CASE q # <<>>
  <2>1. /\ n \in Nat /\ n >= 1 /\ h \in T /\ t \in Seq(T) /\ Len(t) = n - 1 /\ h = q[1]
        /\ \A i \in 1 .. n - 1 : t[i] = q[i + 1]
    BY <1>2
  <2>2. h.sp \in Int /\ x.sp \in Int /\ \A i \in 1 .. n : q[i].sp \in Int
    <3>1. \A i \in 1 .. n : q[i] \in T
      OBVIOUS
    <3> QED BY <2>1, <3>1
  <2> HIDE DEF h, t, n
  <2>3. \A y \in T, r \in Seq(T) :
            /\ <<y>> \o r \in Seq(T) /\ Len(<<y>> \o r) = Len(r) + 1
            /\ \A i \in 1 .. Len(r) + 1 : (<<y>> \o r)[i] = IF i = 1 THEN y ELSE r[i - 1]
    <3> TAKE y \in T, r \in Seq(T)
    <3>1. <<y>> \in Seq(T) /\ Len(<<y>>) = 1 /\ <<y>>[1] = y
      OBVIOUS
    <3>2. /\ <<y>> \o r \in Seq(T) /\ Len(<<y>> \o r) = 1 + Len(r) /\ Len(r) \in Nat
          /\ \A i \in 1 .. 1 + Len(r) : (<<y>> \o r)[i] = IF i <= 1 THEN <<y>>[i] ELSE r[i - 1]
      BY <3>1, ConcatProperties
    <3> QED BY <3>1, <3>2
  <2>4. CASE x.sp < h.sp
    <3> DEFINE w == WeakAppend(t, x)
               r == <<h>> \o w
    <3>1. w \in Seq(T) /\ Entered(w, t, x)
      BY <2>1, <2>2, WeakAppendIs
    <3>2. StyleAppend(q, x) = r
      BY <1>2, <2>4 DEF StyleAppend, h, t
    <3> HIDE DEF w
    <3>3. r \in Seq(T) /\ Len(r) = Len(w) + 1
          /\ \A i \in 1 .. Len(w) + 1 : r[i] = IF i = 1 THEN h ELSE w[i - 1]
      BY <2>1, <2>3, <3>1
    <3> HIDE DEF r
    <3>4. PICK k \in 1 .. n : /\ Inserted(w, t, k, x)
                              /\ \A i \in 1 .. k - 1 : t[i].sp > x.sp
                              /\ k <= n - 1 => t[k].sp <= x.sp
      BY <2>1, <3>1 DEF Entered
    <3>5. Len(w) = n /\ \A i \in 1 .. n :
               w[i] = IF i < k THEN t[i] ELSE IF i = k THEN x ELSE t[i - 1]
      BY <2>1, <3>4 DEF Inserted
    <3>6. Inserted(r, q, k + 1, x)
      <4>1. Len(r) = n + 1
        BY <3>3, <3>5
      <4>2. ASSUME NEW i \in 1 .. n + 1
            PROVE  r[i] = IF i < k + 1 THEN q[i] ELSE IF i = k + 1 THEN x ELSE q[i - 1]
        <5>1. CASE i = 1
          BY <2>1, <3>3, <3>5, <5>1
        <5>2. CASE i # 1
          <6>1. i - 1 \in 1 .. n /\ r[i] = w[i - 1]
            BY <2>1, <3>3, <3>5, <5>2
          <6>2. CASE i - 1 < k
            <7>1. w[i - 1] = t[i - 1] /\ i - 1 \in 1 .. n - 1
              BY <2>1, <3>5, <6>1, <6>2
            <7>2. t[i - 1] = q[i]
              BY <2>1, <7>1
            <7> QED BY <2>1, <6>1, <6>2, <7>1, <7>2
          <6>3. CASE i - 1 = k
            BY <2>1, <3>5, <6>1, <6>3
          <6>4. CASE i - 1 > k
            <7>1. w[i - 1] = t[i - 2] /\ i - 2 \in 1 .. n - 1
              BY <2>1, <3>5, <6>1, <6>4
            <7>2. t[i - 2] = q[i - 1]
              BY <2>1, <7>1
            <7> QED BY <2>1, <6>1, <6>4, <7>1, <7>2
          <6> QED BY <2>1, <6>1, <6>2, <6>3, <6>4
        <5> QED BY <5>1, <5>2
      <4> QED BY <4>1, <4>2 DEF Inserted, n
    <3>7. \A i \in 1 .. (k + 1) - 1 : q[i].sp > x.sp
      <4> TAKE i \in 1 .. (k + 1) - 1
      <4>1. CASE i = 1
        BY <2>1, <2>2, <2>4, <4>1
      <4>2. CASE i # 1
        <5>1. i - 1 \in 1 .. k - 1 /\ i - 1 \in 1 .. n - 1
          BY <2>1, <4>2
        <5>2. t[i - 1] = q[i]
          BY <2>1, <5>1
        <5> QED BY <3>4, <5>1, <5>2
      <4> QED BY <4>1, <4>2
    <3>8. k + 1 <= n => q[k + 1].sp <= x.sp
      <4> SUFFICES ASSUME k + 1 <= n PROVE q[k + 1].sp <= x.sp
        OBVIOUS
      <4>1. k \in 1 .. n - 1
        BY <2>1
      <4> QED BY <2>1, <3>4, <4>1
    <3>9. k + 1 \in 1 .. n + 1
      BY <2>1
    <3> QED BY <3>2, <3>3, <3>6, <3>7, <3>8, <3>9 DEF Entered, n
  <2>5. CASE ~(x.sp < h.sp)
    <3> DEFINE w == WeakAppend(t, h)
               r == <<x>> \o w
    <3>1. w \in Seq(T) /\ Entered(w, t, h)
      BY <2>1, <2>2, WeakAppendIs
    <3>2. StyleAppend(q, x) = r
      BY <1>2, <2>5 DEF StyleAppend, h, t
    <3> HIDE DEF w
    <3>3. r \in Seq(T) /\ Len(r) = Len(w) + 1
          /\ \A i \in 1 .. Len(w) + 1 : r[i] = IF i = 1 THEN x ELSE w[i - 1]
      BY <2>1, <2>3, <3>1
    <3> HIDE DEF r
    <3>4. ASSUME Sorted(q) PROVE Entered(r, q, x)
      <4>1. PICK k \in 1 .. n : /\ Inserted(w, t, k, h)
                                /\ \A i \in 1 .. k - 1 : t[i].sp > h.sp
        BY <2>1, <3>1 DEF Entered
      <4>2. k = 1
        <5> SUFFICES ASSUME k # 1 PROVE FALSE
          OBVIOUS
        <5>1. 1 \in 1 .. k - 1 /\ 1 \in 1 .. n - 1 /\ 1 \in 1 .. n /\ 2 \in 1 .. n
          BY <2>1
        <5>2. t[1].sp > h.sp /\ t[1] = q[2]
          BY <2>1, <4>1, <5>1
        <5>3. q[2].sp <= q[1].sp
          BY <3>4, <5>1 DEF Sorted, n
        <5> QED BY <2>1, <2>2, <5>1, <5>2, <5>3
      <4>3. Len(w) = n /\ \A i \in 1 .. n : w[i] = IF i = 1 THEN h ELSE t[i - 1]
        <5>1. Len(w) = n /\ \A i \in 1 .. n :
                   w[i] = IF i < 1 THEN t[i] ELSE IF i = 1 THEN h ELSE t[i - 1]
          BY <2>1, <4>1, <4>2 DEF Inserted
        <5> QED BY <5>1
      <4>4. \A i \in 1 .. n : w[i] = q[i]
        <5> TAKE i \in 1 .. n
        <5>1. i # 1 => i - 1 \in 1 .. n - 1 /\ i - 1 + 1 = i
          BY <2>1
        <5> QED BY <2>1, <4>3, <5>1
      <4>5. \A i \in 1 .. n + 1 : r[i] = IF i < 1 THEN q[i] ELSE IF i = 1 THEN x ELSE q[i - 1]
        <5> TAKE i \in 1 .. n + 1
        <5>1. i # 1 => i - 1 \in 1 .. n
          BY <2>1
        <5> QED BY <3>3, <4>3, <4>4, <5>1
      <4>6. Inserted(r, q, 1, x)
        BY <3>3, <4>3, <4>5 DEF Inserted, n
      <4>7. q[1].sp <= x.sp /\ 1 \in 1 .. n + 1 /\ 1 .. 1 - 1 = {}
        BY <2>1, <2>2, <2>5
      <4> QED BY <4>6, <4>7 DEF Entered, n
    <3> QED BY <3>2, <3>3, <3>4
  <2> QED BY <2>4, <2>5
<1> QED BY <1>1, <1>2

\* The lists of one element, with entries from T.
Lists(T) == [Properties -> Seq(T)]

LEMMA ListAppendIs ==
    ASSUME NEW T, NEW lists \in Lists(T), NEW from, NEW sp,
           NEW decls \in Seq(Declaration), \A y \in T : y.sp \in Int,
           \A d \in Declaration : [from |-> from, sp |-> Weight(sp, d)] \in T
    PROVE  ListAppend(lists, from, sp, decls) \in Lists(T)
<1> DEFINE A == [i \in 0 .. Len(decls) |-> Lists(T)]
           new(i) == [from |-> from, sp |-> Weight(sp, decls[i])]
<1>1. Len(decls) \in Nat /\ \A i \in 1 .. Len(decls) : decls[i] \in Declaration
  OBVIOUS
<1>2. \A i \in 0 .. Len(decls) : A[i] = Lists(T)
  OBVIOUS
<1>3. ASSUME NEW i \in 1 .. Len(decls), NEW x \in Lists(T)
      PROVE  [x EXCEPT ![decls[i].prop] = StyleAppend(@, new(i))] \in Lists(T)
  <2>1. decls[i].prop \in Properties
    BY <1>1 DEF Declaration
  <2>2. x[decls[i].prop] \in Seq(T)
    BY <2>1 DEF Lists
  <2>3. new(i) \in T
    BY <1>1
  <2> HIDE DEF new
  <2>4. StyleAppend(x[decls[i].prop], new(i)) \in Seq(T)
    BY <2>2, <2>3, StyleAppendIs
  <2> QED BY <2>4 DEF Lists
<1>4. \A i \in 1 .. Len(decls) : i \in 0 .. Len(decls) /\ i - 1 \in 0 .. Len(decls)
  BY <1>1
<1>5. lists \in A[0] /\ A[Len(decls)] = Lists(T)
  BY <1>1
<1>6. \A i \in 1 .. Len(decls) : \A x \in A[i - 1] :
          [x EXCEPT ![decls[i].prop] = StyleAppend(@, new(i))] \in A[i]
  <2> HIDE DEF A, new
  <2> QED BY <1>2, <1>3, <1>4
<1>7. ListAppend(lists, from, sp, decls) \in A[Len(decls)]
  <2> HIDE DEF A
  <2> QED BY <1>5, <1>6, ListAppendLoop
<1> QED BY <1>5, <1>7

\* An entry of rule i of a stylesheet.
LEMMA RuleEntry ==
    ASSUME NEW s \in Sheet, NEW i \in 1 .. Len(Rules[s]), NEW d \in Declaration
    PROVE  /\ [from |-> <<s, i>>, sp |-> Weight(Rules[s][i].sp, d)] \in Entry
           /\ ~IsInline([from |-> <<s, i>>, sp |-> Weight(Rules[s][i].sp, d)])
<1> DEFINE w == Weight(Rules[s][i].sp, d)
<1>1. Rules[s][i] \in Rule
  BY RulesAssumption
<1>2. Rules[s][i].sp \in 0 .. InlineBit /\ Rules[s][i].sp # InlineBit
  BY <1>1 DEF Rule, InlineBit
<1>3. w \in 0 .. 2 * ImportantBit - 1 /\ ~(w % ImportantBit >= InlineBit)
  BY <1>2, WeightIs
<1> HIDE DEF w
<1>4. <<s, i>> \in Sheet \X Nat
  BY RulesAssumption
<1>5. [from |-> <<s, i>>, sp |-> w] \in Entry
  BY <1>3, <1>4 DEF Entry
<1>6. ~IsInline([from |-> <<s, i>>, sp |-> w])
  BY <1>3 DEF IsInline
<1> QED BY <1>5, <1>6 DEF w

LEMMA EntryWeight ==
    \A x \in Entry : x.sp \in Int /\ x.sp \in 0 .. 2 * ImportantBit - 1
BY DEF Entry, ImportantBit

LEMMA AttachSheetIs ==
    ASSUME NEW S, NEW lists \in Lists(Entry), NEW s \in Sheet, NEW e
    PROVE  AttachSheet(S, lists, s, e) \in Lists(Entry)
<1> DEFINE n == Len(Rules[s])
           A == [i \in 0 .. n |-> Lists(Entry)]
           more(x, i) == ListAppend(x, <<s, i>>, Rules[s][i].sp, Rules[s][i].decls)
<1>1. n \in Nat /\ \A i \in 1 .. n : Rules[s][i] \in Rule
  BY RulesAssumption
<1>2. ASSUME NEW i \in 1 .. n, NEW x \in Lists(Entry) PROVE more(x, i) \in Lists(Entry)
  <2>1. Rules[s][i].decls \in Seq(Declaration)
    BY <1>1 DEF Rule
  <2>2. \A d \in Declaration : [from |-> <<s, i>>, sp |-> Weight(Rules[s][i].sp, d)] \in Entry
    BY RuleEntry
  <2> QED BY <2>1, <2>2, EntryWeight, ListAppendIs
<1> HIDE DEF more
<1>3. \A i \in 1 .. n : \A x \in A[i - 1] :
          (IF Matches(S, Rules[s][i], e) THEN more(x, i) ELSE x) \in A[i]
  <2>1. \A i \in 1 .. n : A[i] = Lists(Entry) /\ A[i - 1] = Lists(Entry)
    BY <1>1
  <2> HIDE DEF A, n
  <2> QED BY <1>2, <2>1
<1>4. lists \in A[0] /\ A[n] = Lists(Entry)
  BY <1>1
<1>5. AttachSheet(S, lists, s, e) \in A[n]
  <2> HIDE DEF A
  <2> QED BY <1>3, <1>4, AttachSheetLoop DEF more
<1> QED BY <1>4, <1>5

LEMMA AttachSheetsIs ==
    ASSUME NEW S, S.sheets \in Seq(Sheet), NEW lists \in Lists(Entry), NEW e
    PROVE  AttachSheets(S, lists, e) \in Lists(Entry)
<1> DEFINE n == Len(S.sheets)
           A == [i \in 0 .. n |-> Lists(Entry)]
<1>1. n \in Nat /\ \A i \in 1 .. n : S.sheets[i] \in Sheet
  OBVIOUS
<1>2. \A i \in 1 .. n : \A x \in A[i - 1] : AttachSheet(S, x, S.sheets[i], e) \in A[i]
  <2>1. \A i \in 1 .. n : A[i] = Lists(Entry) /\ A[i - 1] = Lists(Entry)
    BY <1>1
  <2> HIDE DEF A, n
  <2> QED BY <1>1, <2>1, AttachSheetIs
<1>3. lists \in A[0] /\ A[n] = Lists(Entry)
  BY <1>1
<1>4. AttachSheets(S, lists, e) \in A[n]
  <2> HIDE DEF A
  <2> QED BY <1>2, <1>3, AttachSheetsLoop
<1> QED BY <1>3, <1>4

LEMMA StrikeIs ==
    ASSUME NEW q \in Seq(Sheet), NEW s
    PROVE  Strike(q, s) \in Seq(Sheet)
<1> DEFINE n == Len(q)
           B == [kept : Seq(Sheet), struck : BOOLEAN]
           A == [i \in 0 .. n |-> B]
           first == [kept |-> <<>>, struck |-> FALSE]
           more(x, i) == IF q[i] = s /\ ~x.struck THEN [x EXCEPT !.struck = TRUE]
                         ELSE [kept |-> Append(x.kept, q[i]), struck |-> FALSE]
<1>1. n \in Nat /\ \A i \in 1 .. n : q[i] \in Sheet
  OBVIOUS
<1>2. first \in A[0] /\ A[n] = B
  <2>1. first \in B /\ 0 \in 0 .. n /\ n \in 0 .. n
    BY <1>1
  <2> HIDE DEF B, first
  <2> QED BY <2>1
<1>3. \A i \in 1 .. n : \A x \in A[i - 1] : more(x, i) \in A[i]
  <2>1. ASSUME NEW i \in 1 .. n, NEW x \in B PROVE more(x, i) \in B
    <3>1. Append(x.kept, q[i]) \in Seq(Sheet)
      BY <1>1
    <3> QED BY <3>1
  <2>2. \A i \in 1 .. n : A[i] = B /\ A[i - 1] = B
    <3>1. \A i \in 1 .. n : i \in 0 .. n /\ i - 1 \in 0 .. n
      BY <1>1
    <3> HIDE DEF B, n
    <3> QED BY <3>1
  <2> HIDE DEF A, n, B, more
  <2> QED BY <2>1, <2>2
<1>4. \E x \in A[n] : Strike(q, s) = x.kept
  <2> HIDE DEF A
  <2> QED BY <1>2, <1>3, StrikeLoop
<1> QED BY <1>2, <1>4

\* Of a sequence without duplicates the loop takes what it should.
LEMMA StrikePicks ==
    ASSUME NEW q \in Seq(Sheet), IsInjective(q), NEW s
    PROVE  \E g : Picks(Strike(q, s), q, {s}, Len(q), g)
<1> DEFINE n == Len(q)
           B == [kept : Seq(Sheet), struck : BOOLEAN]
           Left(x, i) == /\ \E g : Picks(x.kept, q, {s}, i, g)
                         /\ x.struck => i > 0 /\ q[i] = s
           A == [i \in 0 .. n |-> {x \in B : Left(x, i)}]
           first == [kept |-> <<>>, struck |-> FALSE]
           more(x, i) == IF q[i] = s /\ ~x.struck THEN [x EXCEPT !.struck = TRUE]
                         ELSE [kept |-> Append(x.kept, q[i]), struck |-> FALSE]
<1>1. n \in Nat /\ \A i \in 1 .. n : q[i] \in Sheet
  OBVIOUS
<1>2. first \in A[0]
  <2>1. Picks(<<>>, q, {s}, 0, <<>>)
    BY DEF Picks
  <2>2. first \in B /\ first.kept = <<>> /\ ~first.struck
    OBVIOUS
  <2> HIDE DEF first, B
  <2> QED BY <1>1, <2>1, <2>2
<1>3. ASSUME NEW i \in 1 .. n, NEW x \in A[i - 1] PROVE more(x, i) \in A[i]
  <2>1. i - 1 \in 0 .. n /\ i \in 0 .. n /\ i > 0
    BY <1>1
  <2>2. x \in B /\ Left(x, i - 1)
    <3> HIDE DEF Left, B
    <3> QED BY <2>1
  <2>3. PICK g : Picks(x.kept, q, {s}, i - 1, g)
    BY <2>2
  <2>4. /\ x.kept \in Seq(Sheet) /\ Append(x.kept, q[i]) \in Seq(Sheet)
        /\ q[i] \in {s} => Picks(x.kept, q, {s}, i, g)
        /\ q[i] \notin {s} => \E h : Picks(Append(x.kept, q[i]), q, {s}, i, h)
    <3>1. x.kept \in Seq(Sheet)
      BY <2>2
    <3> QED BY <2>3, <3>1, PicksMore
  <2>5. q[i] = s => ~x.struck
    <3>1. x.struck => i - 1 > 0 /\ q[i - 1] = s
      BY <2>2
    <3>2. i - 1 > 0 => i - 1 \in DOMAIN q /\ i \in DOMAIN q /\ i - 1 # i
      BY <1>1
    <3> QED BY <3>1, <3>2 DEF IsInjective
  <2>6. CASE q[i] = s
    <3> DEFINE y == [x EXCEPT !.struck = TRUE]
    <3>1. y \in B /\ y.kept = x.kept
      BY <2>2
    <3>2. Left(y, i)
      BY <2>1, <2>4, <2>6, <3>1
    <3>3. more(x, i) = y
      BY <2>5, <2>6
    <3> HIDE DEF y, Left, B, more
    <3> QED BY <2>1, <3>1, <3>2, <3>3
  <2>7. CASE q[i] # s
    <3> DEFINE y == [kept |-> Append(x.kept, q[i]), struck |-> FALSE]
    <3>1. y \in B /\ y.kept = Append(x.kept, q[i]) /\ ~y.struck
      BY <2>4
    <3>2. Left(y, i)
      BY <2>4, <2>7, <3>1
    <3>3. more(x, i) = y
      BY <2>7
    <3> HIDE DEF y, Left, B, more
    <3> QED BY <2>1, <3>1, <3>2, <3>3
  <2> QED BY <2>6, <2>7
<1>4. PICK x \in A[n] : Strike(q, s) = x.kept
  <2> HIDE DEF A
  <2> QED BY <1>2, <1>3, StrikeLoop
<1>5. n \in 0 .. n
  BY <1>1
<1> QED BY <1>4, <1>5

-----------------------------------------------------------------------------
(* The line from an element up: the smallest closed set around it.         *)

Pointer == Element \cup {Doc, NULL}

Closed(S, C) == \A x \in C \cap Element : S.parent[x] \in C

\* A parent comes earlier in Elements.
Ordered(S) ==
    /\ S.parent \in [Element -> Pointer]
    /\ \A j \in DOMAIN Elements : S.parent[Elements[j]] \in Element =>
          \E i \in DOMAIN Elements : i < j /\ Elements[i] = S.parent[Elements[j]]

LEMMA LineEquation ==
    ASSUME NEW S, S.parent \in [Element -> Pointer], NEW e \in Element
    PROVE  Line(S, e) = {e} \cup IF S.parent[e] \in Element THEN Line(S, S.parent[e])
                                 ELSE {S.parent[e]}
<1> DEFINE Around(x) == {y \in Pointer : \A C \in SUBSET Pointer :
                            x \in C /\ Closed(S, C) => y \in C}
           Body(f) == [x \in Element |->
                         {x} \cup IF S.parent[x] \in Element THEN f[S.parent[x]]
                                  ELSE {S.parent[x]}]
           up == CHOOSE f : f = Body(f)
           h == [x \in Element |-> Around(x)]
<1>1. ASSUME NEW x \in Element
      PROVE  Around(x) = {x} \cup IF S.parent[x] \in Element THEN Around(S.parent[x])
                                  ELSE {S.parent[x]}
  <2> DEFINE p == S.parent[x]
             rest == IF p \in Element THEN Around(p) ELSE {p}
  <2>1. p \in Pointer /\ x \in Pointer /\ p \in rest /\ rest \subseteq Pointer
    BY DEF Pointer
  <2>2. ASSUME NEW y \in {x} \cup rest PROVE y \in Around(x)
    <3>1. ASSUME NEW C \in SUBSET Pointer, x \in C, Closed(S, C) PROVE y \in C
      <4>1. p \in C
        BY <3>1 DEF Closed
      <4> QED BY <2>2, <3>1, <4>1
    <3> QED BY <2>1, <2>2, <3>1
  <2>3. ASSUME NEW z \in ({x} \cup rest) \cap Element PROVE S.parent[z] \in {x} \cup rest
    <3>1. CASE z = x
      BY <2>1, <3>1
    <3>2. CASE z # x /\ p \in Element
      <4>1. z \in Around(p) /\ S.parent[z] \in Pointer
        BY <2>3, <3>2
      <4>2. S.parent[z] \in Around(p)
        BY <2>3, <4>1 DEF Closed
      <4> QED BY <3>2, <4>2
    <3>3. CASE z # x /\ p \notin Element
      BY <2>3, <3>3
    <3> QED BY <3>1, <3>2, <3>3
  <2>4. ASSUME NEW y \in Around(x) PROVE y \in {x} \cup rest
    <3>1. {x} \cup rest \in SUBSET Pointer /\ x \in {x} \cup rest
      BY <2>1
    <3>2. Closed(S, {x} \cup rest)
      <4> HIDE DEF rest
      <4> QED BY <2>3 DEF Closed
    <3> HIDE DEF rest
    <3> QED BY <3>1, <3>2
  <2>5. Around(x) = {x} \cup rest
    <3> HIDE DEF rest, Around
    <3> QED BY <2>2, <2>4
  <2> QED BY <2>5
<1>2. h = Body(h)
  <2> HIDE DEF Around
  <2> QED BY <1>1
<1>3. up = Body(up)
  <2> HIDE DEF Body, h
  <2> QED BY <1>2
<1>4. \A x \in Element : Line(S, x) = up[x]
  BY DEF Line
<1> HIDE DEF up
<1> QED BY <1>3, <1>4

LEMMA LineLeast ==
    ASSUME NEW S, Ordered(S), NEW e \in Element, NEW C, e \in C, Closed(S, C)
    PROVE  Line(S, e) \subseteq C
<1> DEFINE n == Len(Elements)
           P == {m \in 0 .. n :
                   \A i \in 1 .. m : Elements[i] \in C => Line(S, Elements[i]) \subseteq C}
<1>1. n \in Nat /\ DOMAIN Elements = 1 .. n /\ \A i \in 1 .. n : Elements[i] \in Element
  BY ElementsAssumption
<1>2. 0 \in P
  BY <1>1
<1>3. ASSUME NEW m \in 1 .. n, m - 1 \in P PROVE m \in P
  <2> DEFINE x == Elements[m]
             p == S.parent[x]
  <2>1. ASSUME x \in C PROVE Line(S, x) \subseteq C
    <3>1. x \in Element /\ p \in Pointer /\ p \in C
      BY <1>1, <2>1 DEF Ordered, Closed
    <3>2. Line(S, x) = {x} \cup IF p \in Element THEN Line(S, p) ELSE {p}
      BY <3>1, LineEquation DEF Ordered
    <3>3. CASE p \in Element
      <4>1. PICK i \in 1 .. n : i < m /\ Elements[i] = p
        BY <1>1, <3>3 DEF Ordered
      <4>2. i \in 1 .. m - 1
        BY <1>1, <4>1
      <4>3. Line(S, p) \subseteq C
        BY <1>3, <3>1, <4>1, <4>2
      <4> QED BY <2>1, <3>2, <3>3, <4>3
    <3>4. CASE p \notin Element
      BY <2>1, <3>1, <3>2, <3>4
    <3> QED BY <3>3, <3>4
  <2>2. \A i \in 1 .. m : i = m \/ i \in 1 .. m - 1
    BY <1>1
  <2> HIDE DEF x
  <2>3. \A i \in 1 .. m : Elements[i] \in C => Line(S, Elements[i]) \subseteq C
    BY <1>3, <2>1, <2>2 DEF x
  <2> QED BY <1>1, <2>3
<1>4. n \in P
  <2>1. 0 .. n \subseteq P
    <3> HIDE DEF P, n
    <3> QED BY <1>1, <1>2, <1>3, Climbing
  <2> QED BY <1>1, <2>1
<1>5. PICK i \in 1 .. n : Elements[i] = e
  BY <1>1 DEF Element, Range
<1> QED BY <1>4, <1>5

LEMMA LineHas ==
    ASSUME NEW S, S.parent \in [Element -> Pointer], NEW e \in Element
    PROVE  e \in Line(S, e) /\ S.parent[e] \in Line(S, e)
<1>1. Line(S, e) = {e} \cup IF S.parent[e] \in Element THEN Line(S, S.parent[e])
                            ELSE {S.parent[e]}
  BY LineEquation
<1>2. ASSUME S.parent[e] \in Element PROVE S.parent[e] \in Line(S, S.parent[e])
  <2> DEFINE p == S.parent[e]
  <2> HIDE DEF p
  <2>1. p \in Element
    BY <1>2 DEF p
  <2>2. Line(S, p) = {p} \cup IF S.parent[p] \in Element THEN Line(S, S.parent[p])
                              ELSE {S.parent[p]}
    BY <2>1, LineEquation
  <2>3. p \in Line(S, p)
    BY <2>2
  <2> QED BY <2>3 DEF p
<1> QED BY <1>1, <1>2

LEMMA LineInside ==
    ASSUME NEW S, Ordered(S), NEW e \in Element
    PROVE  /\ \A x \in Line(S, e) \cap Element : Line(S, x) \subseteq Line(S, e)
           /\ Closed(S, Line(S, e))
<1> DEFINE D == {x \in Line(S, e) : x \in Element => Line(S, x) \subseteq Line(S, e)}
<1>1. \A x \in Element : x \in Line(S, x) /\ S.parent[x] \in Line(S, x)
  BY LineHas DEF Ordered
<1>2. \A x \in Element : S.parent[x] \in Element => Line(S, S.parent[x]) \subseteq Line(S, x)
  BY LineEquation DEF Ordered
<1>3. e \in D
  BY <1>1
<1>4. Closed(S, D)
  <2>1. ASSUME NEW x \in D \cap Element PROVE S.parent[x] \in D
    <3>1. Line(S, x) \subseteq Line(S, e)
      OBVIOUS
    <3> QED BY <1>1, <1>2, <3>1
  <2> HIDE DEF D
  <2> QED BY <2>1 DEF Closed
<1>5. Line(S, e) \subseteq D
  <2> HIDE DEF D
  <2> QED BY <1>3, <1>4, LineLeast
<1>6. \A x \in Line(S, e) \cap Element : Line(S, x) \subseteq Line(S, e)
  BY <1>5
<1>7. Closed(S, Line(S, e))
  BY <1>1, <1>6 DEF Closed
<1> QED BY <1>6, <1>7

\* The lines depend on nothing but the parents.
LEMMA SameLines ==
    ASSUME NEW S, NEW T, T.parent = S.parent
    PROVE  /\ \A e : Line(T, e) = Line(S, e)
           /\ \A e : Connected(T, e) <=> Connected(S, e)
           /\ Ordered(S) <=> Ordered(T)
<1>1. \A e : Line(T, e) = Line(S, e)
  BY DEF Line
<1> QED BY <1>1 DEF Connected, Ordered

\* Who has e above it does not depend on where e is.
LEMMA SameBelow ==
    ASSUME NEW S, NEW T, NEW e \in Element, Ordered(S), Ordered(T),
           \A x \in Element : x # e => T.parent[x] = S.parent[x]
    PROVE  Below(T, e) = Below(S, e)
<1>1. ASSUME NEW U, NEW V, Ordered(U), Ordered(V), NEW x \in Element,
             \A y \in Element : y # e => V.parent[y] = U.parent[y], e \notin Line(U, x)
      PROVE  e \notin Line(V, x)
  <2>1. Closed(U, Line(U, x)) /\ x \in Line(U, x)
    BY <1>1, LineInside, LineHas DEF Ordered
  <2>2. Closed(V, Line(U, x))
    BY <1>1, <2>1 DEF Closed
  <2>3. Line(V, x) \subseteq Line(U, x)
    BY <1>1, <2>1, <2>2, LineLeast
  <2> QED BY <1>1, <2>3
<1>2. \A x \in Element : e \notin Line(S, x) <=> e \notin Line(T, x)
  BY <1>1
<1>3. {x \in Element : e \notin Line(S, x)} = {x \in Element : e \notin Line(T, x)}
  BY <1>2
<1> QED BY <1>3 DEF Below

\* When e is taken out, what was connected and no longer is has e above it.
LEMMA LinesBroken ==
    ASSUME NEW S, NEW T, NEW e \in Element, Ordered(S),
           T.parent = [S.parent EXCEPT ![e] = NULL]
    PROVE  /\ Ordered(T)
           /\ \A x \in Element : e \in Line(T, x) \/ (Connected(S, x) => Connected(T, x))
           /\ \A x \in Element : Connected(T, x) => Connected(S, x)
<1>1. Ordered(T)
  <2>1. NULL \notin Element
    BY NamesAssumption
  <2>2. \A j \in DOMAIN Elements : Elements[j] \in Element
    BY ElementsAssumption
  <2> QED BY <2>1, <2>2 DEF Ordered, Pointer
<1>2. \A x \in Element : x # e => T.parent[x] = S.parent[x]
  BY DEF Ordered
<1>3. ASSUME NEW x \in Element, e \notin Line(T, x), Connected(S, x) PROVE Connected(T, x)
  <2>1. Closed(T, Line(T, x)) /\ x \in Line(T, x)
    BY <1>1, LineInside, LineHas DEF Ordered
  <2>2. Closed(S, Line(T, x))
    BY <1>2, <1>3, <2>1 DEF Closed
  <2>3. Line(S, x) \subseteq Line(T, x)
    BY <2>1, <2>2, LineLeast
  <2> QED BY <1>3, <2>3 DEF Connected
<1>4. ASSUME NEW x \in Element, Connected(T, x) PROVE Connected(S, x)
  <2>1. Closed(S, Line(S, x)) /\ x \in Line(S, x)
    BY LineInside, LineHas DEF Ordered
  <2>2. Closed(T, Line(S, x) \cup {NULL}) /\ x \in Line(S, x) \cup {NULL}
    <3>1. T.parent[e] = NULL
      BY DEF Ordered
    <3>2. NULL \notin Element
      BY NamesAssumption
    <3> QED BY <1>2, <2>1, <3>1, <3>2 DEF Closed
  <2>3. Line(T, x) \subseteq Line(S, x) \cup {NULL}
    BY <1>1, <2>2, LineLeast
  <2> QED BY <1>4, <2>3, NamesAssumption DEF Connected
<1> QED BY <1>1, <1>3, <1>4

\* e, which was nowhere, is put below p, which is connected.
LEMMA LinesJoined ==
    ASSUME NEW S, NEW T, NEW e \in Element, NEW p \in Element \cup {Doc}, Ordered(S),
           S.parent[e] = NULL, T.parent = [S.parent EXCEPT ![e] = p],
           p # Doc => /\ Connected(S, p)
                      /\ \E i, j \in DOMAIN Elements :
                            i < j /\ Elements[i] = p /\ Elements[j] = e
    PROVE  /\ Ordered(T)
           /\ \A x \in Element : e \in Line(T, x) => Connected(T, x)
           /\ \A x \in Element : Connected(S, x) => Connected(T, x)
<1>1. \A x \in Element : T.parent[x] = IF x = e THEN p ELSE S.parent[x]
  BY DEF Ordered
<1>2. Ordered(T)
  <2>1. T.parent \in [Element -> Pointer]
    BY DEF Ordered, Pointer
  <2>2. ASSUME NEW j \in DOMAIN Elements, T.parent[Elements[j]] \in Element
        PROVE  \E i \in DOMAIN Elements : i < j /\ Elements[i] = T.parent[Elements[j]]
    <3>1. Elements[j] \in Element
      BY ElementsAssumption
    <3>2. CASE Elements[j] = e
      <4>1. p \in Element /\ p # Doc
        BY <1>1, <2>2, <3>1, <3>2, NamesAssumption
      <4>2. PICK i, k \in DOMAIN Elements : i < k /\ Elements[i] = p /\ Elements[k] = e
        BY <4>1
      <4>3. k = j
        BY <3>2, <4>2, ElementsAssumption DEF IsInjective
      <4> QED BY <1>1, <3>1, <3>2, <4>2, <4>3
    <3>3. CASE Elements[j] # e
      BY <1>1, <2>2, <3>1, <3>3 DEF Ordered
    <3> QED BY <3>2, <3>3
  <2> QED BY <2>1, <2>2 DEF Ordered
<1>3. S.parent = [T.parent EXCEPT ![e] = NULL]
  BY DEF Ordered
<1>4. \A x \in Element : Connected(S, x) => Connected(T, x)
  BY <1>2, <1>3, LinesBroken
<1>5. Connected(T, e)
  <2>1. CASE p = Doc
    BY <1>1, <1>2, <2>1, LineHas DEF Ordered, Connected
  <2>2. CASE p # Doc
    <3>1. p \in Element /\ Connected(T, p)
      BY <1>4, <2>2
    <3>2. T.parent[e] = p
      BY <1>1
    <3>3. Line(T, p) \subseteq Line(T, e)
      BY <1>2, <3>1, <3>2, LineEquation DEF Ordered
    <3> QED BY <3>1, <3>3 DEF Connected
  <2> QED BY <2>1, <2>2
<1>6. \A x \in Element : e \in Line(T, x) => Connected(T, x)
  BY <1>2, <1>5, LineInside DEF Connected
<1> QED BY <1>2, <1>4, <1>6

-----------------------------------------------------------------------------
(* The steps.                                                              *)

Typed == [parent : [Element -> Pointer], style : [Element -> Lists(Entry)],
          dirty : [Element -> BOOLEAN], sheets : Seq(Sheet), parsed : 0 .. Len(TagSheets)]

\* T is S with changes to what is connected, and nothing else to its tree.
Beside(S, T) ==
    /\ T.parent = S.parent
    /\ \A x \in Element : ~Connected(S, x) =>
          T.style[x] = S.style[x] /\ T.dirty[x] = S.dirty[x]

LEMMA DropIs ==
    ASSUME NEW S \in Typed, NEW e \in Element, NEW gone
    PROVE  /\ Drop(S, e, gone) \in Typed
           /\ \A x \in Element : x # e => Drop(S, e, gone).style[x] = S.style[x]
           /\ \A T : S.style[e] \in Lists(T) => Drop(S, e, gone).style[e] \in Lists(T)
           /\ \A f \in {"parent", "dirty", "sheets", "parsed"} : Drop(S, e, gone)[f] = S[f]
<1> DEFINE new == [p \in Properties |-> Without(S.style[e][p], gone)]
<1>1. ASSUME NEW T, S.style[e] \in Lists(T) PROVE new \in Lists(T)
  <2>1. \A p \in Properties : Without(S.style[e][p], gone) \in Seq(T)
    BY <1>1, WithoutIs DEF Lists
  <2> QED BY <2>1 DEF Lists
<1>2. S.style[e] \in Lists(Entry) /\ S.style \in [Element -> Lists(Entry)]
  BY DEF Typed
<1>3. new \in Lists(Entry)
  BY <1>1, <1>2
<1> HIDE DEF new
<1>4. Drop(S, e, gone) = [S EXCEPT !.style = [S.style EXCEPT ![e] = new]]
  BY DEF Drop, new
<1>5. [S.style EXCEPT ![e] = new] \in [Element -> Lists(Entry)]
  BY <1>2, <1>3
<1>6. Drop(S, e, gone) \in Typed
  BY <1>4, <1>5 DEF Typed
<1>7. Drop(S, e, gone).style = [S.style EXCEPT ![e] = new]
  BY <1>4 DEF Typed
<1>8. Drop(S, e, gone).style[e] = new
  BY <1>2, <1>7
<1>9. \A f \in {"parent", "dirty", "sheets", "parsed"} : Drop(S, e, gone)[f] = S[f]
  BY <1>4 DEF Typed
<1> QED BY <1>1, <1>2, <1>6, <1>7, <1>8, <1>9

LEMMA ApplyIs ==
    ASSUME NEW S \in Typed, NEW s \in Sheet
    PROVE  /\ Apply(S, s) \in Typed /\ Beside(S, Apply(S, s))
           /\ \A f \in {"parent", "dirty", "sheets", "parsed"} : Apply(S, s)[f] = S[f]
<1> DEFINE new == [e \in Element |-> IF Connected(S, e) THEN AttachSheet(S, S.style[e], s, e)
                                    ELSE S.style[e]]
<1>1. new \in [Element -> Lists(Entry)]
  BY AttachSheetIs DEF Typed
<1>2. \A x \in Element : ~Connected(S, x) => new[x] = S.style[x]
  OBVIOUS
<1> HIDE DEF new
<1>3. Apply(S, s) = [S EXCEPT !.style = new]
  BY DEF Apply, new
<1> QED BY <1>1, <1>2, <1>3 DEF Typed, Beside

LEMMA UnapplyIs ==
    ASSUME NEW S \in Typed, NEW s
    PROVE  /\ Unapply(S, s) \in Typed /\ Beside(S, Unapply(S, s))
           /\ \A f \in {"parent", "dirty", "sheets", "parsed"} : Unapply(S, s)[f] = S[f]
<1> DEFINE from(e) == {x \in Entries(S, e) :
                         x.from[1] = s /\ Matches(S, Rules[s][x.from[2]], e)}
           new == [e \in Element |-> IF Connected(S, e) THEN Drop(S, e, from(e)).style[e]
                                    ELSE S.style[e]]
<1>1. new \in [Element -> Lists(Entry)]
  <2>1. ASSUME NEW e \in Element
        PROVE  Drop(S, e, from(e)).style[e] \in Lists(Entry) /\ S.style[e] \in Lists(Entry)
    <3> HIDE DEF from
    <3> QED BY DropIs DEF Typed
  <2> HIDE DEF from
  <2> QED BY <2>1
<1>2. \A x \in Element : ~Connected(S, x) => new[x] = S.style[x]
  OBVIOUS
<1> HIDE DEF new
<1>3. Unapply(S, s) = [S EXCEPT !.style = new]
  BY DEF Unapply, new
<1> QED BY <1>1, <1>2, <1>3 DEF Typed, Beside

LEMMA StylesheetAttachIs ==
    ASSUME NEW S \in Typed, NEW s \in Sheet
    PROVE  /\ StylesheetAttach(S, s) \in Typed /\ Beside(S, StylesheetAttach(S, s))
           /\ StylesheetAttach(S, s).dirty = S.dirty
           /\ StylesheetAttach(S, s).parsed = S.parsed
<1> DEFINE T == [S EXCEPT !.sheets = Append(S.sheets, s)]
<1>1. Append(S.sheets, s) \in Seq(Sheet)
  BY DEF Typed
<1>2. T \in Typed /\ T.parent = S.parent /\ T.style = S.style /\ T.dirty = S.dirty
      /\ T.parsed = S.parsed
  BY <1>1 DEF Typed
<1> HIDE DEF T
<1>3. Apply(T, s) \in Typed /\ Beside(T, Apply(T, s))
      /\ \A f \in {"parent", "dirty", "sheets", "parsed"} : Apply(T, s)[f] = T[f]
  BY <1>2, ApplyIs
<1>4. StylesheetAttach(S, s) = Apply(T, s)
  BY DEF StylesheetAttach, T
<1>5. \A x \in Element : Connected(T, x) <=> Connected(S, x)
  BY <1>2, SameLines
<1> QED BY <1>2, <1>3, <1>4, <1>5 DEF Beside

LEMMA StylesheetRemoveIs ==
    ASSUME NEW S \in Typed, NEW s
    PROVE  /\ StylesheetRemove(S, s) \in Typed /\ Beside(S, StylesheetRemove(S, s))
           /\ StylesheetRemove(S, s).dirty = S.dirty
           /\ StylesheetRemove(S, s).parsed = S.parsed
<1> DEFINE T == Unapply(S, s)
<1>1. T \in Typed /\ Beside(S, T) /\ T.dirty = S.dirty /\ T.parsed = S.parsed
  BY UnapplyIs
<1> HIDE DEF T
<1>2. Strike(T.sheets, s) \in Seq(Sheet)
  BY <1>1, StrikeIs DEF Typed
<1>3. StylesheetRemove(S, s) = [T EXCEPT !.sheets = Strike(T.sheets, s)]
  BY DEF StylesheetRemove, T
<1> QED BY <1>1, <1>2, <1>3 DEF Beside, Typed

LEMMA TagInsertedIs ==
    ASSUME NEW S \in Typed, S.parsed < Len(TagSheets)
    PROVE  /\ TagInserted(S) \in Typed /\ Beside(S, TagInserted(S))
           /\ TagInserted(S).dirty = S.dirty /\ TagInserted(S).parsed = S.parsed + 1
<1> DEFINE T == [S EXCEPT !.parsed = S.parsed + 1]
           s == TagSheets[S.parsed + 1]
<1>1. S.parsed + 1 \in 1 .. Len(TagSheets) /\ s \in Sheet
  BY SheetsAssumption DEF Typed
<1>2. T \in Typed /\ T.parent = S.parent /\ T.style = S.style /\ T.dirty = S.dirty
      /\ T.parsed = S.parsed + 1
  BY <1>1 DEF Typed
<1> HIDE DEF T, s
<1>3. StylesheetAttach(T, s) \in Typed /\ Beside(T, StylesheetAttach(T, s))
      /\ StylesheetAttach(T, s).dirty = T.dirty /\ StylesheetAttach(T, s).parsed = T.parsed
  BY <1>1, <1>2, StylesheetAttachIs
<1>4. TagInserted(S) = StylesheetAttach(T, s)
  BY DEF TagInserted, T, s
<1>5. \A x \in Element : Connected(T, x) <=> Connected(S, x)
  BY <1>2, SameLines
<1> QED BY <1>2, <1>3, <1>4, <1>5 DEF Beside

LEMMA TagRemovedIs ==
    ASSUME NEW S \in Typed
    PROVE  TagRemoved(S) \in Typed /\ Beside(S, TagRemoved(S)) /\ TagRemoved(S).dirty = S.dirty
<1>1. CASE S.parsed = 0
  BY <1>1 DEF TagRemoved, Beside
<1>2. CASE S.parsed # 0
  BY <1>2, StylesheetRemoveIs DEF TagRemoved
<1> QED BY <1>1, <1>2

\* How many stylesheets the insertion of e adds.
Parses(e) == IF e = Tag THEN 1 ELSE 0

LEMMA InsertedStepsIs ==
    ASSUME NEW S \in Typed, NEW e \in Element, Connected(S, e),
           S.parsed + Parses(e) <= Len(TagSheets)
    PROVE  /\ InsertedSteps(S, e) \in Typed /\ Beside(S, InsertedSteps(S, e))
           /\ InsertedSteps(S, e).parsed = S.parsed + Parses(e)
<1> DEFINE T == IF e = Tag THEN TagInserted(S) ELSE S
           gone == {x \in Entries(T, e) : ~IsInline(x)}
           U == IF T.dirty[e] THEN Drop(T, e, gone) ELSE T
           new == AttachSheets(T, U.style[e], e)
<1>1. T \in Typed /\ Beside(S, T) /\ T.dirty = S.dirty /\ T.parsed = S.parsed + Parses(e)
  <2>1. CASE e = Tag
    <3>1. S.parsed < Len(TagSheets)
      BY <2>1, SheetsAssumption DEF Parses, Typed
    <3> QED BY <2>1, <3>1, TagInsertedIs DEF Parses
  <2>2. CASE e # Tag
    BY <2>2 DEF Parses, Beside, Typed
  <2> QED BY <2>1, <2>2
<1> HIDE DEF T
<1>2. /\ U \in Typed /\ U.parent = T.parent /\ U.parsed = T.parsed /\ U.dirty = T.dirty
      /\ \A x \in Element : x # e => U.style[x] = T.style[x]
  <2>1. CASE T.dirty[e]
    <3>1. Drop(T, e, gone) \in Typed
          /\ (\A x \in Element : x # e => Drop(T, e, gone).style[x] = T.style[x])
          /\ \A f \in {"parent", "dirty", "sheets", "parsed"} : Drop(T, e, gone)[f] = T[f]
      <4> HIDE DEF gone
      <4> QED BY <1>1, DropIs
    <3> HIDE DEF gone
    <3> QED BY <2>1, <3>1
  <2>2. CASE ~T.dirty[e]
    BY <1>1, <2>2
  <2> QED BY <2>1, <2>2
<1> HIDE DEF U
<1>3. new \in Lists(Entry)
  <2>1. T.sheets \in Seq(Sheet) /\ U.style[e] \in Lists(Entry)
    BY <1>1, <1>2 DEF Typed
  <2> QED BY <2>1, AttachSheetsIs
<1>4. InsertedSteps(S, e) = [U EXCEPT !.dirty = [U.dirty EXCEPT ![e] = FALSE],
                                      !.style = [U.style EXCEPT ![e] = new]]
  <2> HIDE DEF gone
  <2> QED BY DEF InsertedSteps, T, U, gone
<1> HIDE DEF new
<1>5. [U.style EXCEPT ![e] = new] \in [Element -> Lists(Entry)]
      /\ [U.dirty EXCEPT ![e] = FALSE] \in [Element -> BOOLEAN]
  BY <1>2, <1>3 DEF Typed
<1>6. InsertedSteps(S, e) \in Typed
  BY <1>2, <1>4, <1>5 DEF Typed
<1>7. /\ InsertedSteps(S, e).parent = U.parent /\ InsertedSteps(S, e).parsed = U.parsed
      /\ \A x \in Element : x # e => /\ InsertedSteps(S, e).style[x] = U.style[x]
                                     /\ InsertedSteps(S, e).dirty[x] = U.dirty[x]
  BY <1>2, <1>4 DEF Typed
<1> QED BY <1>1, <1>2, <1>6, <1>7 DEF Beside

LEMMA BesideTransitive ==
    ASSUME NEW S, NEW T, NEW U, Beside(S, T), Beside(T, U)
    PROVE  Beside(S, U)
<1>1. \A x \in Element : Connected(T, x) <=> Connected(S, x)
  BY SameLines DEF Beside
<1> QED BY <1>1 DEF Beside

LEMMA BelowIs ==
    ASSUME NEW S, NEW e \in Element
    PROVE  /\ Below(S, e) \in Seq(Element) /\ IsInjective(Below(S, e))
           /\ \A k \in DOMAIN Below(S, e) :
                 Below(S, e)[k] \in Element /\ e \in Line(S, Below(S, e)[k])
           /\ \A x \in Element : e \in Line(S, x) =>
                 \E k \in DOMAIN Below(S, e) : Below(S, e)[k] = x
<1> DEFINE gone == {x \in Element : e \notin Line(S, x)}
           told == Without(Elements, gone)
<1>1. /\ Elements \in Seq(Element) /\ IsInjective(Elements)
      /\ \A x \in Element : \E k \in DOMAIN Elements : Elements[k] = x
  BY ElementsAssumption DEF Element, Range
<1>2. \A x \in Element : x \in gone <=> e \notin Line(S, x)
  OBVIOUS
<1> HIDE DEF gone
<1>3. /\ told \in Seq(Element) /\ IsInjective(told)
      /\ \A k \in DOMAIN told : told[k] \notin gone
      /\ \A j \in DOMAIN Elements : Elements[j] \notin gone =>
            \E k \in DOMAIN told : told[k] = Elements[j]
  BY <1>1, WithoutIs
<1>4. Below(S, e) = told
  BY DEF Below, gone
<1> HIDE DEF told
<1>5. \A k \in DOMAIN told : told[k] \in Element
  BY <1>3
<1> QED BY <1>1, <1>2, <1>3, <1>4, <1>5

LEMMA NotifyIs ==
    ASSUME NEW S \in Typed, NEW e \in Element,
           \A x \in Element : e \in Line(S, x) => Connected(S, x),
           Contains(Below(S, e), Tag) => S.parsed + 1 <= Len(TagSheets)
    PROVE  Notify(S, e) \in Typed /\ Beside(S, Notify(S, e))
<1> DEFINE told == Below(S, e)
           n == Len(told)
           Parsed(i) == \E j \in 1 .. i : told[j] = Tag
           Good(T, i) == /\ Beside(S, T)
                         /\ T.parsed = S.parsed + IF Parsed(i) THEN 1 ELSE 0
           A == [i \in 0 .. n |-> {T \in Typed : Good(T, i)}]
<1>1. /\ told \in Seq(Element) /\ IsInjective(told)
      /\ \A k \in DOMAIN told : e \in Line(S, told[k])
  BY BelowIs
<1> HIDE DEF told
<1>2. n \in Nat /\ DOMAIN told = 1 .. n /\ \A i \in 1 .. n : told[i] \in Element
  BY <1>1
<1>3. S \in A[0]
  <2>1. ~Parsed(0) /\ Beside(S, S) /\ S.parsed \in Int
    BY DEF Beside, Typed
  <2>2. S.parsed = S.parsed + IF Parsed(0) THEN 1 ELSE 0
    <3> HIDE DEF Parsed
    <3> QED BY <2>1
  <2>3. Good(S, 0)
    BY <2>1, <2>2
  <2> HIDE DEF Good
  <2> QED BY <1>2, <2>3
<1>4. ASSUME NEW i \in 1 .. n, NEW T \in A[i - 1] PROVE InsertedSteps(T, told[i]) \in A[i]
  <2> DEFINE x == told[i]
  <2>1. T \in Typed /\ Good(T, i - 1) /\ i - 1 \in 0 .. n /\ i \in 0 .. n
    <3> HIDE DEF Good
    <3> QED BY <1>2
  <2>2. x \in Element /\ Connected(T, x)
    <3>1. x \in Element /\ e \in Line(S, x)
      BY <1>1, <1>2
    <3>2. Connected(S, x) <=> Connected(T, x)
      BY <2>1, SameLines DEF Beside
    <3> QED BY <3>1, <3>2
  <2>3. Parsed(i) <=> (Parsed(i - 1) \/ x = Tag)
    BY <1>2
  <2>4. x = Tag => ~Parsed(i - 1)
    BY <1>1, <1>2 DEF IsInjective
  <2>5. Parsed(i) => S.parsed + 1 <= Len(TagSheets)
    BY <1>2 DEF Contains, told
  <2>6. /\ T.parsed + Parses(x) = S.parsed + IF Parsed(i) THEN 1 ELSE 0
        /\ T.parsed + Parses(x) <= Len(TagSheets)
    <3>1. S.parsed \in Nat /\ S.parsed <= Len(TagSheets) /\ Len(TagSheets) \in Nat
      BY SheetsAssumption DEF Typed
    <3>2. T.parsed = S.parsed + IF Parsed(i - 1) THEN 1 ELSE 0
      BY <2>1
    <3> HIDE DEF Parsed, x
    <3>3. CASE x = Tag
      BY <2>3, <2>4, <2>5, <3>1, <3>2, <3>3 DEF Parses
    <3>4. CASE x # Tag
      BY <2>3, <2>5, <3>1, <3>2, <3>4 DEF Parses
    <3> QED BY <3>3, <3>4
  <2>7. /\ InsertedSteps(T, x) \in Typed /\ Beside(T, InsertedSteps(T, x))
        /\ InsertedSteps(T, x).parsed = T.parsed + Parses(x)
    <3> HIDE DEF x, A, Parsed
    <3> QED BY <2>1, <2>2, <2>6, InsertedStepsIs
  <2>8. Good(InsertedSteps(T, x), i)
    <3> HIDE DEF x, A, Parsed
    <3> QED BY <2>1, <2>6, <2>7, BesideTransitive
  <2> HIDE DEF Good
  <2> QED BY <2>1, <2>7, <2>8
<1>5. Notify(S, e) \in A[n]
  <2> HIDE DEF A
  <2> QED BY <1>1, <1>3, <1>4, NotifyLoop DEF told
<1>6. n \in 0 .. n
  BY <1>2
<1> QED BY <1>5, <1>6

-----------------------------------------------------------------------------
(* The invariant.                                                          *)

InlineEntry == {x \in Entry : IsInline(x)}

\* What a stylesheet left on an element outside the document is marked.
Hidden(S) ==
    \A e \in Element : ~Connected(S, e) => S.dirty[e] \/ S.style[e] \in Lists(InlineEntry)

Good(S) == S \in Typed /\ Ordered(S) /\ Hidden(S)

IInv ==
    /\ Good(State)
    /\ list \in [Element -> Texts \cup {NULL}]
    /\ attr \in [Element -> {"none", "set", "freed"}]

LEMMA StateIs ==
    /\ State.parent = parent /\ State.style = style /\ State.dirty = dirty
    /\ State.sheets = sheets /\ State.parsed = parsed
    /\ DOMAIN State = {"parent", "style", "dirty", "sheets", "parsed"}
BY DEF State

\* A change beside the elements outside the document hides what was hidden.
LEMMA BesideGood ==
    ASSUME NEW S, NEW T \in Typed, Good(S), Beside(S, T)
    PROVE  Good(T)
<1>1. /\ \A x \in Element : Connected(T, x) <=> Connected(S, x)
      /\ Ordered(S) <=> Ordered(T)
  BY SameLines DEF Beside
<1> QED BY <1>1 DEF Good, Hidden, Beside

LEMMA UnlinkedGood ==
    ASSUME NEW S, Good(S), NEW e \in Element
    PROVE  Good(Unlinked(S, e))
<1> DEFINE R == [S EXCEPT !.parent = [S.parent EXCEPT ![e] = NULL]]
           T == IF e = Tag THEN TagRemoved(R) ELSE R
           new == [x \in Element |-> \/ T.dirty[x]
                                     \/ IF x = e THEN Styled(T, e) ELSE e \in Line(R, x)]
           U == [T EXCEPT !.dirty = new]
<1>1. R \in Typed /\ R.parent = [S.parent EXCEPT ![e] = NULL]
      /\ R.style = S.style /\ R.dirty = S.dirty
  <2>1. [S.parent EXCEPT ![e] = NULL] \in [Element -> Pointer]
    BY DEF Good, Typed, Pointer
  <2> QED BY <2>1 DEF Good, Typed
<1> HIDE DEF R
<1>2. /\ Ordered(R)
      /\ \A x \in Element : e \in Line(R, x) \/ (Connected(S, x) => Connected(R, x))
  BY <1>1, LinesBroken DEF Good
<1>3. T \in Typed /\ Beside(R, T) /\ T.dirty = R.dirty
  BY <1>1, TagRemovedIs DEF Beside
<1> HIDE DEF T
<1>4. Unlinked(S, e) = U
  BY DEF Unlinked, RemovedSteps, R, T
<1>5. new \in [Element -> BOOLEAN]
  BY <1>3 DEF Typed, Styled
<1>6. \A x \in Element : new[x] <=> \/ T.dirty[x]
                                    \/ IF x = e THEN Styled(T, e) ELSE e \in Line(R, x)
  OBVIOUS
<1> HIDE DEF new
<1>7. U \in Typed /\ U.parent = R.parent /\ U.style = T.style /\ U.dirty = new
  BY <1>3, <1>5 DEF Typed, Beside
<1> HIDE DEF U
<1>8. (\A x \in Element : Connected(U, x) <=> Connected(R, x)) /\ Ordered(U)
  BY <1>2, <1>7, SameLines
<1>9. ASSUME NEW x \in Element, ~Connected(U, x)
      PROVE  U.dirty[x] \/ U.style[x] \in Lists(InlineEntry)
  <2>1. ~Connected(R, x) /\ T.style[x] = S.style[x] /\ T.dirty[x] = S.dirty[x]
    BY <1>1, <1>3, <1>8, <1>9 DEF Beside
  <2>2. CASE ~Connected(S, x)
    <3>1. S.dirty[x] \/ S.style[x] \in Lists(InlineEntry)
      BY <2>2 DEF Good, Hidden
    <3> QED BY <1>6, <1>7, <2>1, <3>1
  <2>3. CASE Connected(S, x) /\ x # e
    <3>1. e \in Line(R, x)
      BY <1>2, <2>1, <2>3
    <3> QED BY <1>6, <1>7, <2>3, <3>1
  <2>4. CASE x = e
    <3>1. CASE Styled(T, e)
      BY <1>6, <1>7, <2>4, <3>1
    <3>2. CASE ~Styled(T, e)
      <4>1. T.style[e] \in Lists(Entry) /\ \A p \in Properties : T.style[e][p] = <<>>
        BY <1>3, <3>2 DEF Styled, Typed
      <4>2. T.style[e] \in Lists(InlineEntry)
        BY <4>1 DEF Lists
      <4> QED BY <1>7, <2>4, <4>2
    <3> QED BY <3>1, <3>2
  <2> QED BY <2>2, <2>3, <2>4
<1> QED BY <1>4, <1>7, <1>8, <1>9 DEF Good, Hidden

LEMMA LinkedGood ==
    ASSUME NEW S, Good(S), NEW e \in Element, NEW p \in Element \cup {Doc},
           S.parent[e] = NULL,
           p # Doc => /\ Connected(S, p)
                      /\ \E i, j \in DOMAIN Elements :
                            i < j /\ Elements[i] = p /\ Elements[j] = e,
           Contains(Below(S, e), Tag) => S.parsed + 1 <= Len(TagSheets)
    PROVE  Good(Linked(S, p, e))
<1> DEFINE R == [S EXCEPT !.parent = [S.parent EXCEPT ![e] = p]]
<1>1. R \in Typed /\ R.parent = [S.parent EXCEPT ![e] = p]
      /\ R.style = S.style /\ R.dirty = S.dirty /\ R.parsed = S.parsed
  <2>1. [S.parent EXCEPT ![e] = p] \in [Element -> Pointer]
    BY DEF Good, Typed, Pointer
  <2> QED BY <2>1 DEF Good, Typed
<1>2. Linked(S, p, e) = Notify(R, e)
  BY DEF Linked
<1> HIDE DEF R
<1>3. /\ Ordered(R)
      /\ \A x \in Element : e \in Line(R, x) => Connected(R, x)
      /\ \A x \in Element : Connected(S, x) => Connected(R, x)
  BY <1>1, LinesJoined DEF Good
<1>4. Good(R)
  BY <1>1, <1>3 DEF Good, Hidden
<1>5. Below(R, e) = Below(S, e)
  <2>1. \A x \in Element : x # e => R.parent[x] = S.parent[x]
    BY <1>1 DEF Good, Ordered
  <2> QED BY <1>3, <2>1, SameBelow DEF Good
<1>6. Notify(R, e) \in Typed /\ Beside(R, Notify(R, e))
  BY <1>1, <1>3, <1>5, NotifyIs
<1> QED BY <1>2, <1>4, <1>6, BesideGood

LEMMA InlineWeight ==
    \A d \in Declaration : [from |-> Inline, sp |-> Weight(InlineBit, d)] \in InlineEntry
<1> TAKE d \in Declaration
<1> DEFINE w == Weight(InlineBit, d)
<1>1. InlineBit \in 0 .. InlineBit
  BY DEF InlineBit
<1>2. w \in 0 .. 2 * ImportantBit - 1 /\ w % ImportantBit >= InlineBit
  BY <1>1, WeightIs
<1>3. ASSUME NEW v, v \in 0 .. 2 * ImportantBit - 1, v % ImportantBit >= InlineBit
      PROVE  [from |-> Inline, sp |-> v] \in InlineEntry
  <2>1. [from |-> Inline, sp |-> v] \in Entry
    BY <1>3 DEF Entry
  <2> QED BY <1>3, <2>1 DEF InlineEntry, IsInline
<1> HIDE DEF w
<1>4. [from |-> Inline, sp |-> w] \in InlineEntry
  BY <1>2, <1>3
<1> QED BY <1>4 DEF w

LEMMA WithoutInlineGood ==
    ASSUME IInv, NEW e \in Element
    PROVE  /\ Good(WithoutInline(e)) /\ WithoutInline(e).parent = parent
           /\ WithoutInline(e).dirty = dirty
<1> DEFINE gone == {x \in Entries(State, e) : IsInline(x)}
           T == Drop(State, e, gone)
<1>1. State \in Typed /\ Good(State)
  BY DEF IInv, Good
<1>2. /\ T \in Typed /\ T.parent = State.parent /\ T.dirty = State.dirty
      /\ \A x \in Element : x # e => T.style[x] = State.style[x]
      /\ State.style[e] \in Lists(InlineEntry) => T.style[e] \in Lists(InlineEntry)
  <2> HIDE DEF gone
  <2> QED BY <1>1, DropIs
<1>3. WithoutInline(e) = IF list[e] = NULL THEN State ELSE T
  BY DEF WithoutInline
<1> HIDE DEF T
<1>4. (\A x \in Element : Connected(T, x) <=> Connected(State, x))
      /\ (Ordered(State) <=> Ordered(T))
  BY <1>2, SameLines
<1>5. Good(T)
  BY <1>1, <1>2, <1>4 DEF Good, Hidden
<1> QED BY <1>1, <1>2, <1>3, <1>5, StateIs

\* What an action makes of the tree is the new state.
LEMMA BecomesIs ==
    ASSUME NEW S \in Typed, Becomes(S)
    PROVE  State' = S
<1>1. State' = [parent |-> S.parent, style |-> S.style, dirty |-> S.dirty,
                sheets |-> S.sheets, parsed |-> S.parsed]
  BY DEF State, Becomes
<1>2. S = [parent |-> S.parent, style |-> S.style, dirty |-> S.dirty,
           sheets |-> S.sheets, parsed |-> S.parsed]
  BY DEF Typed
<1> QED BY <1>1, <1>2

LEMMA BecomesGood ==
    ASSUME NEW S, Good(S), Becomes(S)
    PROVE  Good(State)'
<1>1. State' = S
  BY BecomesIs DEF Good
<1>2. Good(State')
  BY <1>1
<1> QED BY <1>2

LEMMA InsertChildGood ==
    ASSUME IInv, NEW e \in Element, NEW p \in Element \cup {Doc},
           p # Doc => Connected(State, p), InsertChild(p, e)
    PROVE  IInv'
<1>1. p = Doc \/ \E i, j \in DOMAIN Elements : i < j /\ Elements[i] = p /\ Elements[j] = e
  BY DEF InsertChild, Room
<1>2. Contains(Below(State, e), Tag) => State.parsed + 1 <= Len(TagSheets)
  BY StateIs DEF InsertChild, Room
<1>3. State.parent[e] = NULL
  BY StateIs DEF InsertChild
<1>4. Good(Linked(State, p, e))
  BY <1>1, <1>2, <1>3, LinkedGood DEF IInv
<1> QED BY <1>4, BecomesGood DEF InsertChild, IInv

LEMMA RemoveElementGood ==
    ASSUME IInv, NEW e \in Element, RemoveElement(e)
    PROVE  IInv'
BY UnlinkedGood, BecomesGood DEF RemoveElement, IInv

LEMMA AttachGood ==
    ASSUME IInv, NEW s \in ApiSheets, Attach(s)
    PROVE  IInv'
<1>1. s \in Sheet /\ State \in Typed
  BY DEF Sheet, IInv, Good
<1>2. Good(StylesheetAttach(State, s))
  BY <1>1, StylesheetAttachIs, BesideGood DEF IInv
<1> QED BY <1>2, BecomesGood DEF Attach, IInv

LEMMA DetachGood ==
    ASSUME IInv, NEW s \in ApiSheets, Detach(s)
    PROVE  IInv'
<1>1. State \in Typed
  BY DEF IInv, Good
<1>2. Good(StylesheetRemove(State, s))
  BY <1>1, StylesheetRemoveIs, BesideGood DEF IInv
<1> QED BY <1>2, BecomesGood DEF Detach, IInv

\* A failing call leaves the tree as it is.
LEMMA NothingChanged ==
    ASSUME IInv, UNCHANGED <<parent, style, list, dirty, sheets, parsed>>,
           attr' \in [Element -> {"none", "set", "freed"}]
    PROVE  IInv'
<1>1. State' = State
  BY DEF State
<1>2. Good(State')
  BY <1>1 DEF IInv
<1> QED BY <1>2 DEF IInv

LEMMA AttrSetGood ==
    ASSUME IInv, NEW e \in Element, NEW t \in Texts, AttrSet(e, t)
    PROVE  IInv'
<1>1. CASE RemoveFails(e)
  BY <1>1, NothingChanged DEF AttrSet, IInv
<1>2. CASE ~RemoveFails(e)
  <2> DEFINE S == WithoutInline(e)
             new == ListAppend(S.style[e], Inline, InlineBit, t)
             T == [S EXCEPT !.style = [S.style EXCEPT ![e] = new]]
  <2>1. Good(S)
    BY WithoutInlineGood
  <2> HIDE DEF S
  <2>2. t \in Seq(Declaration) /\ S \in Typed /\ S.style[e] \in Lists(Entry)
    BY <2>1, TextsAssumption DEF Good, Typed
  <2>3. new \in Lists(Entry)
    <3>1. \A d \in Declaration : [from |-> Inline, sp |-> Weight(InlineBit, d)] \in Entry
      BY InlineWeight DEF InlineEntry
    <3> QED BY <2>2, <3>1, EntryWeight, ListAppendIs
  <2>4. S.style[e] \in Lists(InlineEntry) => new \in Lists(InlineEntry)
    <3>1. \A y \in InlineEntry : y.sp \in Int
      BY EntryWeight DEF InlineEntry
    <3> QED BY <2>2, <3>1, InlineWeight, ListAppendIs
  <2>5. Becomes(T) /\ list' = [list EXCEPT ![e] = t] /\ attr' = [attr EXCEPT ![e] = "set"]
    BY <1>2 DEF AttrSet, S
  <2> HIDE DEF new
  <2>6. [S.style EXCEPT ![e] = new] \in [Element -> Lists(Entry)]
    BY <2>2, <2>3 DEF Typed
  <2>7. T \in Typed /\ T.parent = S.parent /\ T.dirty = S.dirty
        /\ T.style = [S.style EXCEPT ![e] = new]
    BY <2>2, <2>6 DEF Typed
  <2> HIDE DEF T
  <2>8. (\A x \in Element : Connected(T, x) <=> Connected(S, x)) /\ (Ordered(S) <=> Ordered(T))
    BY <2>7, SameLines
  <2>9. Good(T)
    <3>1. Ordered(T)
      BY <2>1, <2>8 DEF Good
    <3>2. ASSUME NEW x \in Element, ~Connected(T, x)
          PROVE  T.dirty[x] \/ T.style[x] \in Lists(InlineEntry)
      <4>1. S.dirty[x] \/ S.style[x] \in Lists(InlineEntry)
        BY <2>1, <2>8, <3>2 DEF Good, Hidden
      <4>2. T.style[x] = IF x = e THEN new ELSE S.style[x]
        BY <2>2, <2>7 DEF Typed
      <4> QED BY <2>4, <2>7, <4>1, <4>2
    <3> QED BY <2>7, <3>1, <3>2 DEF Good, Hidden
  <2> QED BY <2>5, <2>9, BecomesGood DEF IInv
<1> QED BY <1>1, <1>2

LEMMA AttrRemoveGood ==
    ASSUME IInv, NEW e \in Element, AttrRemove(e) \/ AttrEmpty(e)
    PROVE  IInv'
<1>1. CASE RemoveFails(e)
  <2>1. attr' \in [Element -> {"none", "set", "freed"}]
    BY <1>1 DEF AttrRemove, AttrEmpty, IInv
  <2> QED
    BY <1>1, <2>1, NothingChanged DEF AttrRemove, AttrEmpty, IInv
<1>2. CASE ~RemoveFails(e)
  BY <1>2, WithoutInlineGood, BecomesGood DEF AttrRemove, AttrEmpty, IInv
<1> QED BY <1>1, <1>2

LEMMA Started ==
    ASSUME Init
    PROVE  IInv
<1>1. ASSUME NEW p \in {NULL, Doc}
      PROVE  /\ Fresh(p) \in Typed /\ Ordered(Fresh(p)) /\ Fresh(p).parsed = 0
             /\ \A x \in Element :
                    Fresh(p).parent[x] = p /\ Fresh(p).style[x] \in Lists(InlineEntry)
  <2>1. <<>> \in Seq(Entry) /\ <<>> \in Seq(InlineEntry) /\ <<>> \in Seq(Sheet)
    OBVIOUS
  <2>2. 0 \in 0 .. Len(TagSheets)
    BY SheetsAssumption
  <2>3. [e \in Element |-> [q \in Properties |-> <<>>]] \in [Element -> Lists(Entry)]
    BY <2>1 DEF Lists
  <2>4. Fresh(p) \in Typed
    BY <2>1, <2>2, <2>3 DEF Fresh, Typed, Pointer
  <2>5. \A x \in Element : Fresh(p).parent[x] = p /\ Fresh(p).style[x] \in Lists(InlineEntry)
    BY <2>1 DEF Fresh, Lists
  <2>6. p \notin Element /\ \A j \in DOMAIN Elements : Elements[j] \in Element
    BY NamesAssumption, ElementsAssumption
  <2>7. Ordered(Fresh(p))
    BY <2>4, <2>5, <2>6 DEF Ordered, Typed
  <2> QED BY <2>4, <2>5, <2>7 DEF Fresh
<1>2. Good(Fresh(NULL))
  BY <1>1 DEF Good, Hidden
<1>3. Good(TagInserted(Fresh(Doc)))
  <2>1. Good(Fresh(Doc))
    BY <1>1 DEF Good, Hidden
  <2>2. Fresh(Doc).parsed < Len(TagSheets)
    BY <1>1, SheetsAssumption
  <2> QED BY <2>1, <2>2, TagInsertedIs, BesideGood DEF Good
<1>4. PICK S \in {Fresh(NULL), TagInserted(Fresh(Doc))} :
         /\ parent = S.parent /\ style = S.style /\ dirty = S.dirty
         /\ sheets = S.sheets /\ parsed = S.parsed
  BY DEF Init
<1>5. State = S
  <2>1. S \in Typed
    BY <1>2, <1>3 DEF Good
  <2> QED BY <1>4, <2>1 DEF State, Typed
<1> QED BY <1>2, <1>3, <1>5 DEF Init, IInv

LEMMA Kept ==
    IInv /\ [Next]_vars => IInv'
<1> SUFFICES ASSUME IInv, [Next]_vars PROVE IInv'
  OBVIOUS
<1>1. ASSUME NEW e \in Element, RemoveElement(e) PROVE IInv'
  BY <1>1, RemoveElementGood
<1>2. ASSUME NEW e \in Element, AttrRemove(e) \/ AttrEmpty(e) PROVE IInv'
  BY <1>2, AttrRemoveGood
<1>3. ASSUME NEW e \in Element, NEW t \in Texts, AttrSet(e, t) PROVE IInv'
  BY <1>3, AttrSetGood
<1>4. ASSUME NEW s \in ApiSheets, Attach(s) PROVE IInv'
  BY <1>4, AttachGood
<1>5. ASSUME NEW s \in ApiSheets, Detach(s) PROVE IInv'
  BY <1>5, DetachGood
<1>6. ASSUME NEW e \in Element, NEW p \in Element \cup {Doc},
             p # Doc => Connected(State, p), InsertChild(p, e)
      PROVE  IInv'
  BY <1>6, InsertChildGood
<1>7. CASE UNCHANGED vars
  BY <1>7, NothingChanged DEF vars, IInv
<1> QED BY <1>1, <1>2, <1>3, <1>4, <1>5, <1>6, <1>7 DEF Next

THEOREM StyleInvariance == Spec => []IInv
<1>1. Init => IInv
  BY Started
<1> QED BY <1>1, Kept, PTL DEF Spec

LEMMA TypesHold ==
    IInv => TypeOK
BY StateIs DEF IInv, Good, Typed, TypeOK, Lists, Pointer

\* Types of the variables.
THEOREM StyleTypes == Spec => []TypeOK
BY StyleInvariance, TypesHold, PTL

LEMMA HiddenShowsNothing ==
    IInv => DetachedInlineOnly
<1> SUFFICES ASSUME IInv, NEW e \in Element, NEW p \in Properties,
                    ~Connected(State, e), Shown(e, p) # NULL
             PROVE  IsInline(Shown(e, p))
  BY DEF DetachedInlineOnly
<1> DEFINE q == style[e][p]
<1>1. q # <<>> /\ Shown(e, p) = Head(q) /\ ~(dirty[e] /\ ~IsInline(Head(q)))
  BY DEF Shown
<1>2. dirty[e] \/ style[e] \in Lists(InlineEntry)
  BY StateIs DEF IInv, Good, Hidden
<1>3. CASE dirty[e]
  BY <1>1, <1>3
<1>4. CASE style[e] \in Lists(InlineEntry)
  <2>1. q \in Seq(InlineEntry)
    BY <1>4 DEF Lists
  <2>2. Head(q) \in InlineEntry
    BY <1>1, <2>1
  <2> QED BY <1>1, <2>2 DEF InlineEntry
<1> QED BY <1>2, <1>3, <1>4

\* However an element got out of the document, whatever became of the
\* stylesheets since and whatever was done to its style attribute there, it
\* shows no declaration of a stylesheet (the mark that
\* lxb_style_html_element_removed_steps leaves covers all that is still listed).
THEOREM StyleHides == Spec => []DetachedInlineOnly
BY StyleInvariance, HiddenShowsNothing, PTL

=============================================================================
