---------------------------- MODULE ArenaProofs ----------------------------
(***************************************************************************)
(* Proof that blocks of the arena never overlap, for all sizes of headers, *)
(* chunks and requests and any number of handles, as long as callers make  *)
(* a block that is not the last one smaller only by halving it; and, on    *)
(* top of that, that the arena loses no byte and that ref_count covers the *)
(* blocks of callers.                                                      *)
(***************************************************************************)
EXTENDS Arena, TLAPS, SequenceTheorems, FiniteSetTheorems

\* The cuts for which the place that Split computes is right.
Halving == \A u, v \in Nat : <<u, v>> \in Cuts => u = 2 * v

ChunkType == [size : Nat, length : Nat]

\* What holds of the chunks alone.
ChunksOK(c) ==
    /\ c \in Seq(ChunkType) /\ Len(c) \in 1 .. MaxChunks
    /\ \A i \in 1 .. Len(c) : c[i].length <= c[i].size

\* What holds of the chunks and the cache.
CacheOK(c, f) ==
    /\ f \subseteq BlockType
    /\ \A b \in f : Inside(c, b)
    /\ \A a, b \in f : a # b => Apart(a, b)

\* A block of a caller beside the cache.
HeldOK(c, f, b) ==
    /\ b \in BlockType /\ Inside(c, b)
    /\ \A a \in f : Apart(b, a)

Assumptions == Size \subseteq Nat /\ Meta \in Nat /\ Meta > 0 /\ MinSize \in Nat
               /\ MinSize > Meta /\ NULL \notin BlockType /\ MaxChunks \in Nat

LEMMA AssumptionsHold == Assumptions
BY SizeAssumption, MetaAssumption, NullAssumption, BoundAssumption DEF Assumptions

-----------------------------------------------------------------------------
(* Chunks.                                                                 *)

LEMMA ChunkFields ==
    ASSUME NEW c, ChunksOK(c)
    PROVE  /\ Len(c) \in Nat /\ Len(c) \in 1 .. Len(c)
           /\ \A i \in 1 .. Len(c) :
                /\ c[i] \in ChunkType
                /\ c[i].size \in Nat /\ c[i].length \in Nat
                /\ c[i].length <= c[i].size
<1>1. Len(c) \in Nat /\ Len(c) \in 1 .. Len(c)
  BY AssumptionsHold DEF ChunksOK, Assumptions
<1>2. \A i \in 1 .. Len(c) : c[i] \in ChunkType
  BY DEF ChunksOK
<1>3. \A x \in ChunkType : x.size \in Nat /\ x.length \in Nat
  BY DEF ChunkType
<1> QED BY <1>1, <1>2, <1>3 DEF ChunksOK

\* One chunk is replaced.
LEMMA ChunkReplaced ==
    ASSUME NEW c, ChunksOK(c), NEW k \in 1 .. Len(c),
           NEW x \in ChunkType, x.length <= x.size
    PROVE  /\ ChunksOK([c EXCEPT ![k] = x])
           /\ Len([c EXCEPT ![k] = x]) = Len(c)
           /\ \A i \in 1 .. Len(c) : [c EXCEPT ![k] = x][i] = IF i = k THEN x ELSE c[i]
<1> DEFINE d == [c EXCEPT ![k] = x]
<1>1. c \in Seq(ChunkType)
  BY DEF ChunksOK
<1>2. /\ d \in Seq(ChunkType) /\ Len(d) = Len(c)
      /\ \A i \in 1 .. Len(c) : d[i] = IF i = k THEN x ELSE c[i]
  BY <1>1, ExceptSeq
<1> QED BY <1>2 DEF ChunksOK

WithLength(c, k, v) == [c EXCEPT ![k].length = v]

\* The length of one chunk changes.
LEMMA LengthReplaced ==
    ASSUME NEW c, ChunksOK(c), NEW k \in 1 .. Len(c), NEW v \in Nat, v <= c[k].size
    PROVE  /\ ChunksOK(WithLength(c, k, v)) /\ Len(WithLength(c, k, v)) = Len(c)
           /\ \A i \in 1 .. Len(c) :
                WithLength(c, k, v)[i].length = IF i = k THEN v ELSE c[i].length
<1> DEFINE x == [c[k] EXCEPT !.length = v]
<1>1. x \in ChunkType /\ x.length = v /\ x.size = c[k].size
  BY ChunkFields DEF ChunkType
<1>2. WithLength(c, k, v) = [c EXCEPT ![k] = x]
  BY DEF WithLength
<1> HIDE DEF x
<1>3. /\ ChunksOK([c EXCEPT ![k] = x]) /\ Len([c EXCEPT ![k] = x]) = Len(c)
      /\ \A i \in 1 .. Len(c) : [c EXCEPT ![k] = x][i] = IF i = k THEN x ELSE c[i]
  BY <1>1, ChunkReplaced
<1>4. \A i \in 1 .. Len(c) : WithLength(c, k, v)[i] = IF i = k THEN x ELSE c[i]
  BY <1>2, <1>3
<1> QED BY <1>1, <1>2, <1>3, <1>4

LEMMA LastLengthReplaced ==
    ASSUME NEW c, ChunksOK(c), NEW v \in Nat, v <= c[Len(c)].size
    PROVE  /\ ChunksOK(WithLength(c, Len(c), v))
           /\ Len(WithLength(c, Len(c), v)) = Len(c)
           /\ \A i \in 1 .. Len(c) :
                WithLength(c, Len(c), v)[i].length = IF i = Len(c) THEN v ELSE c[i].length
<1>1. Len(c) \in 1 .. Len(c)
  BY ChunkFields
<1> QED BY <1>1, LengthReplaced

-----------------------------------------------------------------------------
(* Places.                                                                 *)

\* What starts with its header where a chunk ends is apart from all in it.
LEMMA ApartBehind ==
    ASSUME NEW c, NEW k \in 1 .. Len(c), c[k].length \in Nat,
           NEW t \in BlockType, t.chunk = k, t.at = c[k].length + Meta,
           NEW b \in BlockType, Inside(c, b)
    PROVE  Apart(b, t) /\ Apart(t, b)
<1>1. Meta \in Nat /\ b.at \in Nat /\ b.size \in Nat /\ t.at \in Nat /\ t.size \in Nat
  BY AssumptionsHold DEF Assumptions, BlockType
<1>2. t.at - Meta = c[k].length
  BY <1>1
<1>3. b.chunk = k => b.at + b.size <= c[k].length
  BY DEF Inside
<1> QED BY <1>1, <1>2, <1>3 DEF Apart

\* A chunk that becomes longer still holds its blocks.
LEMMA InsideLonger ==
    ASSUME NEW c, NEW d, Len(c) \in Nat, Len(d) \in Nat, Len(c) <= Len(d),
           \A i \in 1 .. Len(c) :
              c[i].length \in Nat /\ d[i].length \in Nat /\ c[i].length <= d[i].length,
           NEW b \in BlockType, Inside(c, b)
    PROVE  Inside(d, b)
<1>1. b.at \in Nat /\ b.size \in Nat /\ b.chunk \in 1 .. Len(c) /\ b.chunk \in 1 .. Len(d)
  <2>1. b.at \in Nat /\ b.size \in Nat
    BY DEF BlockType
  <2>2. b.chunk \in 1 .. Len(c)
    BY DEF Inside
  <2> QED BY <2>1, <2>2
<1>2. b.at + b.size <= c[b.chunk].length /\ c[b.chunk].length <= d[b.chunk].length
  BY <1>1 DEF Inside
<1>3. c[b.chunk].length \in Nat /\ d[b.chunk].length \in Nat
  BY <1>1
<1>4. b.at >= Meta
  BY DEF Inside
<1>5. b.at + b.size <= d[b.chunk].length
  <2> DEFINE l == c[b.chunk].length
             m == d[b.chunk].length
             e == b.at + b.size
  <2>1. l \in Nat /\ m \in Nat /\ e \in Nat /\ e <= l /\ l <= m
    BY <1>1, <1>2, <1>3
  <2> HIDE DEF l, m, e
  <2>2. e <= m
    BY <2>1
  <2> QED BY <2>2 DEF e, m
<1> QED BY <1>1, <1>4, <1>5 DEF Inside

-----------------------------------------------------------------------------
(* The allocator.                                                          *)

\* What is asked of the outcome of an allocation.
OutcomeOK(c, f, o) ==
    /\ ChunksOK(o.chunks)
    /\ CacheOK(o.chunks, o.free)
    /\ o.block # NULL => HeldOK(o.chunks, o.free, o.block)
    /\ \A b \in BlockType : HeldOK(c, f, b) =>
         /\ HeldOK(o.chunks, o.free, b)
         /\ o.block # NULL => Apart(b, o.block) /\ Apart(o.block, b)

\* Taking a block out of the cache disturbs nobody.
LEMMA FromCacheOK ==
    ASSUME NEW c, NEW f, ChunksOK(c), CacheOK(c, f), NEW b \in f
    PROVE  OutcomeOK(c, f, Outcome(c, f \ {b}, b))
BY AssumptionsHold DEF OutcomeOK, Outcome, ChunksOK, CacheOK, HeldOK, Apart, BlockType,
    Assumptions

\* The tail of a chunk starts where its blocks end.
LEMMA TailOK ==
    ASSUME NEW c, NEW f, ChunksOK(c), CacheOK(c, f)
    PROVE  /\ ChunksOK(Filled(c)) /\ Len(Filled(c)) = Len(c)
           /\ CacheOK(Filled(c), TailSaved(c, f))
           /\ \A b \in BlockType : HeldOK(c, f, b) =>
                HeldOK(Filled(c), TailSaved(c, f), b)
<1> DEFINE k == Len(c)
           t == Block(k, c[k].length + Meta, c[k].size - c[k].length - Meta)
<1> USE AssumptionsHold DEF Assumptions
<1>1. /\ k \in Nat /\ k \in 1 .. k
      /\ c[k].size \in Nat /\ c[k].length \in Nat /\ c[k].length <= c[k].size
      /\ \A i \in 1 .. k : c[i].length \in Nat
  BY ChunkFields
<1>2. CASE c[k].size - c[k].length > Meta
  <2>1. /\ Filled(c) = [c EXCEPT ![k].length = c[k].size]
        /\ TailSaved(c, f) = f \cup {t}
    BY <1>2 DEF Filled, TailSaved
  <2>2. /\ ChunksOK(Filled(c)) /\ Len(Filled(c)) = k
        /\ \A i \in 1 .. k : Filled(c)[i].length = IF i = k THEN c[k].size ELSE c[i].length
    <3> DEFINE v == c[k].size
    <3>1. v \in Nat /\ v <= c[k].size
      BY <1>1
    <3>2. Filled(c) = WithLength(c, k, v)
      BY <2>1 DEF WithLength
    <3> HIDE DEF v
    <3>3. /\ ChunksOK(WithLength(c, k, v)) /\ Len(WithLength(c, k, v)) = k
          /\ \A i \in 1 .. k :
                WithLength(c, k, v)[i].length = IF i = k THEN v ELSE c[i].length
      BY <3>1, LastLengthReplaced
    <3> QED BY <3>2, <3>3 DEF v
  <2>5. t \in BlockType /\ Inside(Filled(c), t)
    BY <1>1, <1>2, <2>2 DEF Block, BlockType, Inside
  <2>6. \A b \in BlockType : Inside(c, b) =>
            Inside(Filled(c), b) /\ Apart(b, t) /\ Apart(t, b)
    <3>1. t.chunk = k /\ t.at = c[k].length + Meta
      BY DEF Block
    <3>2. \A i \in 1 .. k : Filled(c)[i].length \in Nat /\ c[i].length <= Filled(c)[i].length
      BY <1>1, <2>2
    <3>3. Len(c) \in Nat /\ Len(Filled(c)) \in Nat /\ Len(c) <= Len(Filled(c))
      BY <1>1, <2>2
    <3>4. \A i \in 1 .. Len(c) : /\ c[i].length \in Nat /\ Filled(c)[i].length \in Nat
                                /\ c[i].length <= Filled(c)[i].length
      BY <1>1, <3>2
    <3>5. Len(c) \in 1 .. Len(c) /\ c[Len(c)].length \in Nat
      BY <1>1
    <3>6. t \in BlockType
      BY <2>5
    <3> HIDE DEF t
    <3>7. ASSUME NEW b \in BlockType, Inside(c, b)
          PROVE  Inside(Filled(c), b) /\ Apart(b, t) /\ Apart(t, b)
      <4>1. Inside(Filled(c), b)
        BY <3>3, <3>4, <3>7, InsideLonger
      <4>2. Apart(b, t) /\ Apart(t, b)
        BY <3>1, <3>5, <3>6, <3>7, ApartBehind
      <4> QED BY <4>1, <4>2
    <3> QED BY <3>7
  <2>7. CacheOK(Filled(c), f \cup {t})
    BY <2>5, <2>6 DEF CacheOK
  <2>8. \A b \in BlockType : HeldOK(c, f, b) => HeldOK(Filled(c), f \cup {t}, b)
    BY <2>5, <2>6 DEF HeldOK
  <2> QED BY <2>1, <2>2, <2>7, <2>8
<1>3. CASE ~(c[k].size - c[k].length > Meta)
  BY <1>3 DEF Filled, TailSaved
<1> QED BY <1>2, <1>3

\* A chunk that is new, or empty and made anew, is apart from all others.
LEMMA NewChunkOK ==
    ASSUME NEW n \in Nat
    PROVE  NewChunk(n) \in ChunkType /\ NewChunk(n).length = n
           /\ NewChunk(n).length <= NewChunk(n).size
BY AssumptionsHold DEF NewChunk, ChunkType, Assumptions

\* A block from the end of a chunk, or from a chunk of its own, overlaps none.
LEMMA FromChunksOK ==
    ASSUME NEW c, NEW f, NEW n \in Nat, ChunksOK(c), CacheOK(c, f),
           NEW o \in FromChunks(c, f, n)
    PROVE  OutcomeOK(c, f, o)
<1> DEFINE k == Len(c)
           need == n + Meta
<1> USE AssumptionsHold DEF Assumptions
<1>1. /\ k \in Nat /\ k \in 1 .. k /\ need \in Nat
      /\ c[k].size \in Nat /\ c[k].length \in Nat /\ c[k].length <= c[k].size
      /\ \A i \in 1 .. k : c[i].length \in Nat
  BY ChunkFields
<1>2. CASE c[k].length + need <= c[k].size
  <2> DEFINE d == [c EXCEPT ![k].length = @ + need]
             t == Block(k, c[k].length + Meta, n)
  <2>1. o = Outcome(d, f, t)
    BY <1>2 DEF FromChunks
  <2>2. /\ ChunksOK(d) /\ Len(d) = k
        /\ \A i \in 1 .. k : d[i].length = IF i = k THEN c[k].length + need ELSE c[i].length
    <3> DEFINE v == c[k].length + need
    <3>1. d = WithLength(c, k, v)
      BY DEF WithLength
    <3>2. v \in Nat /\ v <= c[k].size
      BY <1>1, <1>2
    <3> HIDE DEF v
    <3>3. /\ ChunksOK(WithLength(c, k, v)) /\ Len(WithLength(c, k, v)) = k
          /\ \A i \in 1 .. k :
                WithLength(c, k, v)[i].length = IF i = k THEN v ELSE c[i].length
      BY <3>2, LastLengthReplaced
    <3> QED BY <3>1, <3>3 DEF v
  <2>5. t \in BlockType /\ Inside(d, t)
    BY <1>1, <2>2 DEF Block, BlockType, Inside
  <2>6. \A b \in BlockType : Inside(c, b) => Inside(d, b) /\ Apart(b, t) /\ Apart(t, b)
    <3>1. t.chunk = k /\ t.at = c[k].length + Meta
      BY DEF Block
    <3>2. \A i \in 1 .. k : d[i].length \in Nat /\ c[i].length <= d[i].length
      BY <1>1, <2>2
    <3>3. Len(c) \in Nat /\ Len(d) \in Nat /\ Len(c) <= Len(d)
      BY <1>1, <2>2
    <3>4. \A i \in 1 .. Len(c) : /\ c[i].length \in Nat /\ d[i].length \in Nat
                                /\ c[i].length <= d[i].length
      BY <1>1, <3>2
    <3>5. Len(c) \in 1 .. Len(c) /\ c[Len(c)].length \in Nat
      BY <1>1
    <3>6. t \in BlockType
      BY <2>5
    <3> HIDE DEF d, t
    <3>7. ASSUME NEW b \in BlockType, Inside(c, b)
          PROVE  Inside(d, b) /\ Apart(b, t) /\ Apart(t, b)
      <4>1. Inside(d, b)
        BY <3>3, <3>4, <3>7, InsideLonger
      <4>2. Apart(b, t) /\ Apart(t, b)
        BY <3>1, <3>5, <3>6, <3>7, ApartBehind
      <4> QED BY <4>1, <4>2
    <3> QED BY <3>7
  <2>7. CacheOK(d, f) /\ HeldOK(d, f, t)
    BY <2>5, <2>6 DEF CacheOK, HeldOK
  <2>8. \A b \in BlockType : HeldOK(c, f, b) => HeldOK(d, f, b) /\ Apart(b, t) /\ Apart(t, b)
    BY <2>6 DEF HeldOK
  <2> HIDE DEF d, t
  <2> QED BY <2>1, <2>2, <2>7, <2>8 DEF OutcomeOK, Outcome
<1>3. CASE ~(c[k].length + need <= c[k].size) /\ c[k].length = 0
  <2> DEFINE d == [c EXCEPT ![k] = NewChunk(need)]
             t == Block(k, Meta, n)
  <2>1. o = Outcome(d, f, t)
    BY <1>3 DEF FromChunks
  <2>2. /\ ChunksOK(d) /\ Len(d) = k
        /\ \A i \in 1 .. k : d[i] = IF i = k THEN NewChunk(need) ELSE c[i]
    BY <1>1, NewChunkOK, ChunkReplaced
  <2>4. t \in BlockType /\ Inside(d, t)
    BY <1>1, <2>2, NewChunkOK DEF Block, BlockType, Inside
  <2>5. \A b \in BlockType : Inside(c, b) => b.chunk # k
    BY <1>1, <1>3 DEF Inside, BlockType
  <2>6. \A b \in BlockType : Inside(c, b) => Inside(d, b) /\ Apart(b, t) /\ Apart(t, b)
    BY <1>1, <2>2, <2>5 DEF Block, BlockType, Inside, Apart
  <2>7. CacheOK(d, f) /\ HeldOK(d, f, t)
    BY <2>4, <2>6 DEF CacheOK, HeldOK
  <2>8. \A b \in BlockType : HeldOK(c, f, b) => HeldOK(d, f, b) /\ Apart(b, t) /\ Apart(t, b)
    BY <2>6 DEF HeldOK
  <2> HIDE DEF d, t
  <2> QED BY <2>1, <2>2, <2>7, <2>8 DEF OutcomeOK, Outcome
<1>4. CASE ~(c[k].length + need <= c[k].size) /\ c[k].length # 0
  <2> DEFINE g == TailSaved(c, f)
             e == Filled(c)
             d == Append(e, NewChunk(need))
             t == Block(k + 1, Meta, n)
  <2>1. o = Outcome(e, g, NULL) \/ (k < MaxChunks /\ o = Outcome(d, g, t))
    BY <1>1, <1>4 DEF FromChunks, ChunksOK
  <2>2. /\ ChunksOK(e) /\ Len(e) = k /\ CacheOK(e, g)
        /\ \A b \in BlockType : HeldOK(c, f, b) => HeldOK(e, g, b)
    BY TailOK
  <2>3. CASE o = Outcome(e, g, NULL)
    <3> HIDE DEF e, g
    <3> QED BY <2>2, <2>3 DEF OutcomeOK, Outcome
  <2>4. CASE k < MaxChunks /\ o = Outcome(d, g, t)
    <3> HIDE DEF e, g
    <3>1. /\ d \in Seq(ChunkType) /\ Len(d) = k + 1
          /\ d[k + 1] = NewChunk(need) /\ \A i \in 1 .. k : d[i] = e[i]
      BY <1>1, <2>2, NewChunkOK, AppendProperties DEF ChunksOK
    <3>2. ChunksOK(d)
      BY <1>1, <2>2, <2>4, <3>1, NewChunkOK DEF ChunksOK
    <3>3. t \in BlockType /\ Inside(d, t)
      BY <1>1, <3>1, NewChunkOK DEF Block, BlockType, Inside
    <3>4. \A b \in BlockType : Inside(e, b) => Inside(d, b) /\ Apart(b, t) /\ Apart(t, b)
      BY <1>1, <2>2, <3>1 DEF Block, BlockType, Inside, Apart
    <3>5. CacheOK(d, g) /\ HeldOK(d, g, t)
      BY <2>2, <3>3, <3>4 DEF CacheOK, HeldOK
    <3>6. \A b \in BlockType : HeldOK(e, g, b) => HeldOK(d, g, b) /\ Apart(b, t) /\ Apart(t, b)
      BY <3>4 DEF HeldOK
    <3> HIDE DEF d, t
    <3> QED BY <2>2, <2>4, <3>2, <3>5, <3>6 DEF OutcomeOK, Outcome
  <2> QED BY <2>1, <2>3, <2>4
<1> QED BY <1>2, <1>3, <1>4

LEMMA AllocatedOK ==
    ASSUME NEW c, NEW f, NEW n \in Nat, ChunksOK(c), CacheOK(c, f),
           NEW o \in Allocated(c, f, n)
    PROVE  OutcomeOK(c, f, o)
<1>1. CASE Cache!Closest(f, n) # {}
  <2>1. PICK b \in Cache!Closest(f, n) : o = Outcome(c, f \ {b}, b)
    BY <1>1 DEF Allocated
  <2>2. b \in f
    BY DEF Cache!Closest
  <2> QED BY <2>1, <2>2, FromCacheOK
<1>2. CASE Cache!Closest(f, n) = {}
  <2>1. o \in FromChunks(c, f, n)
    BY <1>2 DEF Allocated
  <2> QED BY <2>1, FromChunksOK
<1> QED BY <1>1, <1>2

-----------------------------------------------------------------------------
(* The invariant, of any chunks, cache and blocks of callers.              *)

Good(c, f, u) ==
    /\ ChunksOK(c)
    /\ CacheOK(c, f)
    /\ u \in [Handle -> BlockType \cup {NULL}]
    /\ \A h \in Handle : u[h] # NULL =>
         /\ HeldOK(c, f, u[h])
         /\ \A g \in Handle \ {h} : u[g] # NULL => Apart(u[h], u[g])

\* A caller's block goes to the cache.
LEMMA GoodFreed ==
    ASSUME NEW c, NEW f, NEW u, Good(c, f, u), NEW h \in Handle, u[h] # NULL
    PROVE  Good(c, f \cup {u[h]}, [u EXCEPT ![h] = NULL])
<1>1. u[h] \in BlockType /\ Inside(c, u[h]) /\ \A a \in f : Apart(u[h], a)
  BY DEF Good, HeldOK
<1>2. \A a, b : Apart(a, b) => Apart(b, a)
  BY DEF Apart
<1>3. CacheOK(c, f \cup {u[h]})
  BY <1>1, <1>2 DEF Good, CacheOK
<1>4. \A g \in Handle \ {h} : u[g] # NULL => HeldOK(c, f \cup {u[h]}, u[g])
  BY DEF Good, HeldOK
<1>5. /\ [u EXCEPT ![h] = NULL] \in [Handle -> BlockType \cup {NULL}]
      /\ \A g \in Handle : [u EXCEPT ![h] = NULL][g] = IF g = h THEN NULL ELSE u[g]
  BY DEF Good
<1> QED BY <1>3, <1>4, <1>5 DEF Good

\* An allocation leaves the blocks of all callers in their place.
LEMMA GoodKept ==
    ASSUME NEW c, NEW f, NEW u, Good(c, f, u), NEW o, OutcomeOK(c, f, o)
    PROVE  Good(o.chunks, o.free, u)
BY DEF Good, OutcomeOK, HeldOK

\* An allocation gives handle h, which held none, a block.
LEMMA GoodPlaced ==
    ASSUME NEW c, NEW f, NEW u, Good(c, f, u), NEW o, OutcomeOK(c, f, o),
           NEW h \in Handle, u[h] = NULL
    PROVE  Good(o.chunks, o.free, [u EXCEPT ![h] = o.block])
<1> DEFINE v == [u EXCEPT ![h] = o.block]
<1>1. Good(o.chunks, o.free, u)
  BY GoodKept
<1>2. \A g \in Handle : u[g] # NULL /\ o.block # NULL =>
          Apart(u[g], o.block) /\ Apart(o.block, u[g])
  BY DEF Good, OutcomeOK, HeldOK
<1>3. o.block # NULL => o.block \in BlockType /\ HeldOK(o.chunks, o.free, o.block)
  BY DEF OutcomeOK, HeldOK
<1>4. /\ v \in [Handle -> BlockType \cup {NULL}]
      /\ \A g \in Handle : v[g] = IF g = h THEN o.block ELSE u[g]
  BY <1>3 DEF Good
<1> HIDE DEF v
<1>5. \A i \in Handle : v[i] # NULL =>
         /\ HeldOK(o.chunks, o.free, v[i])
         /\ \A g \in Handle \ {i} : v[g] # NULL => Apart(v[i], v[g])
  BY <1>1, <1>2, <1>3, <1>4 DEF Good
<1> QED BY <1>1, <1>4, <1>5 DEF Good, v

\* The tail of the current chunk, held by h, becomes x (or nothing), and the
\* chunk becomes y: all others end before the header of the tail.
LEMMA GoodTail ==
    ASSUME NEW c, NEW f, NEW u, Good(c, f, u), NEW h \in Handle, u[h] # NULL,
           u[h].chunk = Len(c), u[h].at + u[h].size = c[Len(c)].length,
           NEW y \in ChunkType, y.length <= y.size, y.length >= u[h].at - Meta,
           NEW x \in BlockType \cup {NULL},
           x # NULL => x.chunk = Len(c) /\ x.at = u[h].at /\ x.at + x.size <= y.length
    PROVE  Good([c EXCEPT ![Len(c)] = y], f, [u EXCEPT ![h] = x])
<1> USE AssumptionsHold DEF Assumptions
<1> DEFINE k == Len(c)
           d == [c EXCEPT ![k] = y]
           v == [u EXCEPT ![h] = x]
           t == u[h]
<1>1. ChunksOK(c)
  BY DEF Good
<1>2. /\ ChunksOK(d) /\ Len(d) = k /\ k \in Nat /\ k \in 1 .. k
      /\ \A i \in 1 .. k : d[i] = IF i = k THEN y ELSE c[i]
      /\ \A i \in 1 .. k : c[i].length \in Nat
  BY <1>1, ChunkFields, ChunkReplaced
<1>3. y.length \in Nat
  BY DEF ChunkType
<1>4. t \in BlockType /\ Inside(c, t)
  BY DEF Good, HeldOK
<1>5. \A b \in BlockType : Inside(c, b) /\ (Apart(b, t) \/ Apart(t, b)) =>
         /\ Inside(d, b)
         /\ x # NULL => Apart(b, x) /\ Apart(x, b)
  <2> SUFFICES ASSUME NEW b \in BlockType, Inside(c, b), Apart(b, t) \/ Apart(t, b)
               PROVE  /\ Inside(d, b)
                      /\ x # NULL => Apart(b, x) /\ Apart(x, b)
    OBVIOUS
  <2>1. b.chunk \in 1 .. k /\ b.at \in Nat /\ b.size \in Nat /\ b.chunk \in Nat
        /\ t.at \in Nat /\ t.size \in Nat /\ b.at >= Meta /\ t.at >= Meta
        /\ b.at + b.size <= c[b.chunk].length
    BY <1>4 DEF Inside, BlockType
  <2>2. b.chunk # k \/ b.at + b.size <= t.at - Meta
    BY <1>2, <2>1 DEF Apart
  <2>3. Inside(d, b)
    <3>1. CASE b.chunk = k
      <4>1. d[b.chunk].length = y.length
        BY <1>2, <3>1
      <4> HIDE DEF d, t
      <4> QED BY <1>2, <1>3, <2>1, <2>2, <3>1, <4>1 DEF Inside, t
    <3>2. CASE b.chunk # k
      <4>1. d[b.chunk] = c[b.chunk]
        BY <1>2, <2>1, <3>2
      <4> HIDE DEF d
      <4> QED BY <1>2, <2>1, <4>1 DEF Inside
    <3> QED BY <3>1, <3>2
  <2>4. ASSUME x # NULL PROVE Apart(b, x) /\ Apart(x, b)
    <3>1. x.chunk = k /\ x.at = t.at /\ x.size \in Nat
      BY <2>4 DEF BlockType
    <3> QED BY <2>1, <2>2, <3>1 DEF Apart
  <2> QED BY <2>3, <2>4
<1>6. x # NULL => x \in BlockType /\ Inside(d, x)
  <2> SUFFICES ASSUME x # NULL PROVE x \in BlockType /\ Inside(d, x)
    OBVIOUS
  <2>1. d[k] = y
    BY <1>2
  <2> QED BY <1>2, <1>4, <2>1 DEF Inside
<1>7. CacheOK(d, f)
  BY <1>5 DEF Good, CacheOK, HeldOK
<1>8. \A g \in Handle \ {h} : u[g] # NULL =>
         HeldOK(d, f, u[g]) /\ (x # NULL => Apart(u[g], x) /\ Apart(x, u[g]))
  BY <1>5 DEF Good, HeldOK
<1>9. x # NULL => HeldOK(d, f, x)
  BY <1>5, <1>6 DEF Good, CacheOK, HeldOK
<1>10. /\ v \in [Handle -> BlockType \cup {NULL}]
       /\ \A g \in Handle : v[g] = IF g = h THEN x ELSE u[g]
  BY DEF Good
<1>11. \A i \in Handle : v[i] # NULL =>
         /\ HeldOK(d, f, v[i])
         /\ \A g \in Handle \ {i} : v[g] # NULL => Apart(v[i], v[g])
  <2> HIDE DEF d, v
  <2> QED BY <1>8, <1>9, <1>10 DEF Good
<1> HIDE DEF d, v
<1>12. Good(d, f, v)
  BY <1>2, <1>7, <1>10, <1>11 DEF Good
<1> QED BY <1>12 DEF d, v

\* Handle h gets the block of an allocation, and its old one goes to the cache.
LEMMA GoodMoved ==
    ASSUME NEW c, NEW f, NEW u, Good(c, f, u), NEW o, OutcomeOK(c, f, o),
           NEW h \in Handle, u[h] # NULL, o.block # NULL
    PROVE  Good(o.chunks, o.free \cup {u[h]}, [u EXCEPT ![h] = o.block])
<1> DEFINE v == [u EXCEPT ![h] = NULL]
           g == o.free \cup {u[h]}
           w == [u EXCEPT ![h] = o.block]
<1>1. Good(o.chunks, g, v)
  BY GoodKept, GoodFreed
<1>2. \A i \in Handle : u[i] # NULL => Apart(u[i], o.block) /\ Apart(o.block, u[i])
  BY DEF Good, OutcomeOK, HeldOK
<1>3. HeldOK(o.chunks, g, o.block)
  BY <1>2 DEF OutcomeOK, HeldOK
<1>4. o.block \in BlockType
  BY <1>3 DEF HeldOK
<1>5. /\ w \in [Handle -> BlockType \cup {NULL}]
      /\ \A i \in Handle : w[i] = IF i = h THEN o.block ELSE u[i]
      /\ \A i \in Handle : v[i] = IF i = h THEN NULL ELSE u[i]
  BY <1>4 DEF Good
<1> HIDE DEF v, g, w
<1>6. \A i \in Handle : w[i] # NULL =>
         /\ HeldOK(o.chunks, g, w[i])
         /\ \A j \in Handle \ {i} : w[j] # NULL => Apart(w[i], w[j])
  BY <1>1, <1>2, <1>3, <1>5 DEF Good
<1>7. Good(o.chunks, g, w)
  BY <1>1, <1>5, <1>6 DEF Good
<1> QED BY <1>7 DEF g, w

\* A block is cut into two halves; the second one, less its header, is cached.
LEMMA GoodHalved ==
    ASSUME NEW c, NEW f, NEW u, Good(c, f, u), NEW h \in Handle, u[h] # NULL,
           NEW n \in Nat, u[h].size = 2 * n, n > Meta
    PROVE  Good(c, f \cup {Block(u[h].chunk, u[h].at + n + Meta, n - Meta)},
                [u EXCEPT ![h].size = n])
<1> USE AssumptionsHold DEF Assumptions
<1> DEFINE b == u[h]
           x == [b EXCEPT !.size = n]
           y == Block(b.chunk, b.at + n + Meta, n - Meta)
           v == [u EXCEPT ![h].size = n]
<1>1. /\ b \in BlockType /\ Inside(c, b) /\ \A a \in f : Apart(b, a)
      /\ b.chunk \in Nat /\ b.at \in Nat
      /\ \A i \in 1 .. Len(c) : c[i].length \in Nat
  <2>1. ChunksOK(c) /\ b \in BlockType /\ HeldOK(c, f, b)
    BY DEF Good, HeldOK
  <2> QED BY <2>1, ChunkFields DEF HeldOK, BlockType
<1>2. x \in BlockType /\ x.chunk = b.chunk /\ x.at = b.at /\ x.size = n
  BY <1>1 DEF BlockType
<1>3. y \in BlockType /\ y.chunk = b.chunk /\ y.at = b.at + n + Meta /\ y.size = n - Meta
  BY <1>1 DEF BlockType, Block
<1>4. /\ v \in [Handle -> BlockType \cup {NULL}]
      /\ \A i \in Handle : v[i] = IF i = h THEN x ELSE u[i]
  BY <1>2 DEF Good
<1> HIDE DEF x, y, v
<1>5. Inside(c, x) /\ Inside(c, y) /\ Apart(x, y) /\ Apart(y, x)
  <2>1. /\ b.chunk \in 1 .. Len(c) /\ b.at >= Meta
        /\ b.at + 2 * n <= c[b.chunk].length /\ c[b.chunk].length \in Nat
    BY <1>1 DEF Inside
  <2>2. /\ x.at = b.at /\ x.at + x.size = b.at + n
        /\ y.at - Meta = b.at + n /\ y.at + y.size = b.at + 2 * n
    BY <1>1, <1>2, <1>3
  <2>3. Inside(c, x) /\ Inside(c, y)
    <3>1. b.chunk = x.chunk /\ b.chunk = y.chunk /\ b.at \in Nat
      BY <1>1, <1>2, <1>3
    <3> HIDE DEF b
    <3>2. /\ x.at >= Meta /\ y.at >= Meta
          /\ x.at + x.size <= c[b.chunk].length /\ y.at + y.size <= c[b.chunk].length
      BY <1>3, <2>1, <2>2, <3>1
    <3> QED BY <2>1, <3>1, <3>2 DEF Inside
  <2>4. Apart(x, y) /\ Apart(y, x)
    BY <1>1, <2>2 DEF Apart
  <2> QED BY <2>3, <2>4
<1>6. \A a \in BlockType : Apart(b, a) \/ Apart(a, b) =>
         Apart(a, x) /\ Apart(x, a) /\ Apart(a, y) /\ Apart(y, a)
  <2> SUFFICES ASSUME NEW a \in BlockType, Apart(b, a) \/ Apart(a, b)
               PROVE  Apart(a, x) /\ Apart(x, a) /\ Apart(a, y) /\ Apart(y, a)
    OBVIOUS
  <2>1. a.at \in Nat /\ a.size \in Nat /\ b.size = 2 * n
    BY DEF BlockType
  <2>2. \/ a.chunk # b.chunk
        \/ b.at + 2 * n <= a.at - Meta
        \/ a.at + a.size <= b.at - Meta
    BY <2>1 DEF Apart
  <2>3. /\ x.at = b.at /\ x.at + x.size = b.at + n
        /\ y.at - Meta = b.at + n /\ y.at + y.size = b.at + 2 * n
    BY <1>1, <1>2, <1>3
  <2>4. b.at \in Nat /\ x.chunk = b.chunk /\ y.chunk = b.chunk
    BY <1>1, <1>2, <1>3
  <2> HIDE DEF b
  <2>5. Apart(a, x) /\ Apart(x, a)
    BY <2>1, <2>2, <2>3, <2>4 DEF Apart
  <2>6. Apart(a, y) /\ Apart(y, a)
    BY <2>1, <2>2, <2>3, <2>4 DEF Apart
  <2> QED BY <2>5, <2>6
<1>7. CacheOK(c, f \cup {y})
  <2>1. \A a \in f : a \in BlockType /\ Inside(c, a) /\ Apart(a, y) /\ Apart(y, a)
    BY <1>1, <1>6 DEF Good, CacheOK
  <2> QED BY <1>3, <1>5, <2>1 DEF Good, CacheOK
<1>8. HeldOK(c, f \cup {y}, x)
  <2>1. \A a \in f : Apart(x, a)
    BY <1>1, <1>6 DEF Good, CacheOK
  <2> QED BY <1>2, <1>5, <2>1 DEF HeldOK
<1>9. \A i \in Handle \ {h} : u[i] # NULL =>
         HeldOK(c, f \cup {y}, u[i]) /\ Apart(u[i], x) /\ Apart(x, u[i])
  BY <1>6 DEF Good, HeldOK
<1>10. \A i \in Handle : v[i] # NULL =>
         /\ HeldOK(c, f \cup {y}, v[i])
         /\ \A j \in Handle \ {i} : v[j] # NULL => Apart(v[i], v[j])
  BY <1>4, <1>8, <1>9 DEF Good
<1>11. Good(c, f \cup {y}, v)
  BY <1>4, <1>7, <1>10 DEF Good
<1> QED BY <1>11 DEF y, v

-----------------------------------------------------------------------------
(* The specification.                                                      *)

Inv == Good(chunks, free, used) /\ refs \in Int

LEMMA InvProperties == Inv => TypeOK /\ BlocksApart
<1> SUFFICES ASSUME Inv PROVE TypeOK /\ BlocksApart
  OBVIOUS
<1>1. TypeOK
  BY DEF Inv, Good, ChunksOK, CacheOK, TypeOK, ChunkType, K
<1>2. BlocksApart
  BY DEF Inv, Good, ChunksOK, CacheOK, HeldOK, BlocksApart, K
<1> QED BY <1>1, <1>2

LEMMA InvInit == Init => Inv
<1> SUFFICES ASSUME Init PROVE Inv
  OBVIOUS
<1> USE AssumptionsHold DEF Assumptions
<1> DEFINE x == [size |-> MinSize, length |-> 0]
<1>1. x \in ChunkType /\ x.length <= x.size
  BY DEF ChunkType
<1>2. chunks = <<x>>
  BY DEF Init
<1>3. ChunksOK(chunks)
  <2> HIDE DEF x
  <2>1. chunks \in Seq(ChunkType) /\ Len(chunks) = 1 /\ chunks[1] = x
    BY <1>1, <1>2
  <2> QED BY <1>1, <2>1, BoundAssumption DEF ChunksOK
<1>4. CacheOK(chunks, free) /\ used = [h \in Handle |-> NULL] /\ refs = 0
  BY DEF Init, CacheOK
<1> QED BY <1>3, <1>4 DEF Inv, Good

LEMMA InvAlloc ==
    ASSUME Inv, NEW h \in Handle, NEW n \in Size, Alloc(h, n)
    PROVE  Inv'
<1>1. PICK o \in Allocated(chunks, free, n) :
        /\ chunks' = o.chunks
        /\ free' = o.free
        /\ used' = [used EXCEPT ![h] = o.block]
        /\ refs' = IF o.block = NULL THEN refs ELSE refs + 1
  BY DEF Alloc
<1>2. OutcomeOK(chunks, free, o)
  BY SizeAssumption, AllocatedOK DEF Inv, Good
<1>3. used[h] = NULL
  BY DEF Alloc
<1>4. Good(chunks', free', used')
  BY <1>1, <1>2, <1>3, GoodPlaced DEF Inv
<1>5. refs' \in Int
  BY <1>1 DEF Inv
<1> QED BY <1>4, <1>5 DEF Inv

LEMMA InvFree ==
    ASSUME Inv, NEW h \in Handle, Free(h)
    PROVE  Inv'
<1>1. Good(chunks, free \cup {used[h]}, [used EXCEPT ![h] = NULL])
  BY GoodFreed DEF Inv, Free
<1>2. refs' \in Int
  BY DEF Inv, Free
<1> QED BY <1>1, <1>2 DEF Inv, Free

\* The tail of the current chunk is one of the blocks that callers hold.
LEMMA InvResize ==
    ASSUME Inv, NEW h \in Handle, NEW n \in Size, used[h] # NULL, Resize(h, n)
    PROVE  Inv'
<1> USE AssumptionsHold DEF Assumptions
<1> DEFINE t == used[h]
           m == t.at + n - IF n = 0 THEN Meta ELSE 0
           y == [chunks[K] EXCEPT !.length = m]
           x == IF n = 0 THEN NULL ELSE [t EXCEPT !.size = n]
<1>1. /\ t \in BlockType /\ Inside(chunks, t) /\ t.at \in Nat /\ n \in Nat
      /\ t.chunk = K /\ t.at + t.size = chunks[K].length
  BY DEF Inv, Good, HeldOK, Resize, IsTail, BlockType
<1>2. /\ ChunksOK(chunks) /\ chunks[K] \in ChunkType /\ chunks[K].size \in Nat
      /\ chunks[K].size > t.at + n
  <2>1. ChunksOK(chunks)
    BY DEF Inv, Good
  <2>2. chunks[K] \in ChunkType /\ chunks[K].size \in Nat
    BY <2>1, ChunkFields DEF K
  <2>3. chunks[K].size > t.at + n
    BY DEF Resize, HasRoom
  <2> QED BY <2>1, <2>2, <2>3
<1>3. m \in Nat /\ m <= chunks[K].size /\ m >= t.at - Meta
  <2>1. t.at >= Meta
    BY <1>1 DEF Inside
  <2>2. m = IF n = 0 THEN t.at - Meta ELSE t.at + n
    BY <1>1
  <2> HIDE DEF m, t
  <2>3. CASE n = 0
    BY <1>1, <1>2, <2>1, <2>2, <2>3
  <2>4. CASE n # 0
    BY <1>1, <1>2, <2>1, <2>2, <2>4
  <2> QED BY <2>3, <2>4
<1>4. y \in ChunkType /\ y.length = m /\ y.length <= y.size
  BY <1>2, <1>3 DEF ChunkType
<1>5. /\ x \in BlockType \cup {NULL}
      /\ x # NULL => x.chunk = K /\ x.at = t.at /\ x.at + x.size <= y.length
  BY <1>1, <1>4 DEF BlockType
<1>6. /\ chunks' = [chunks EXCEPT ![K] = y]
      /\ used' = [used EXCEPT ![h] = x]
      /\ free' = free /\ refs' = refs
  BY DEF Resize
<1> HIDE DEF x, y, m
<1>7. Good(chunks', free', used')
  BY <1>1, <1>3, <1>4, <1>5, <1>6, GoodTail DEF Inv, K
<1> QED BY <1>6, <1>7 DEF Inv

LEMMA InvRegrow ==
    ASSUME Inv, NEW h \in Handle, NEW n \in Size, used[h] # NULL, Regrow(h, n)
    PROVE  Inv'
<1> USE AssumptionsHold DEF Assumptions
<1> DEFINE t == used[h]
           y == [size |-> n + Meta + MinSize, length |-> n + Meta]
           x == [t EXCEPT !.size = n]
<1>1. /\ t \in BlockType /\ n \in Nat
      /\ t.chunk = K /\ t.at + t.size = chunks[K].length /\ t.at = Meta
  BY DEF Inv, Good, HeldOK, Regrow, IsTail
<1>2. y \in ChunkType /\ y.length = n + Meta /\ y.length <= y.size
  BY <1>1 DEF ChunkType
<1>3. x \in BlockType /\ x.chunk = K /\ x.at = t.at /\ x.size = n
  BY <1>1 DEF BlockType
<1>4. /\ chunks' = [chunks EXCEPT ![K] = y]
      /\ used' = [used EXCEPT ![h] = x]
      /\ free' = free /\ refs' = refs
  BY DEF Regrow
<1> HIDE DEF x, y
<1>5. /\ y.length >= t.at - Meta
      /\ x.at + x.size <= y.length
  BY <1>1, <1>2, <1>3
<1>6. Good(chunks', free', used')
  BY <1>1, <1>2, <1>3, <1>4, <1>5, GoodTail DEF Inv, K
<1> QED BY <1>4, <1>6 DEF Inv

LEMMA InvGiveUp ==
    ASSUME Inv, NEW h \in Handle, NEW n \in Size, used[h] # NULL, GiveUp(h, n)
    PROVE  Inv'
<1>1. Good(chunks, free \cup {used[h]}, [used EXCEPT ![h] = NULL])
  BY GoodFreed DEF Inv
<1>2. refs' \in Int
  BY DEF Inv, GiveUp
<1> QED BY <1>1, <1>2 DEF Inv, GiveUp

LEMMA InvSplit ==
    ASSUME Inv, Halving, NEW h \in Handle, NEW n \in Size, used[h] # NULL, Split(h, n)
    PROVE  Inv'
<1>1. used[h] \in BlockType /\ used[h].size \in Nat /\ n \in Nat
  BY SizeAssumption DEF Inv, Good, HeldOK, BlockType
<1>2. used[h].size = 2 * n
  BY <1>1 DEF Split, Halving
<1>3. used[h].size - n = n
  BY <1>1, <1>2
<1>4. /\ n > Meta /\ chunks' = chunks /\ refs' = refs
      /\ used' = [used EXCEPT ![h].size = n]
      /\ free' = free \cup {Block(used[h].chunk, used[h].at + n + Meta, n - Meta)}
  BY <1>3 DEF Split
<1>5. Good(chunks', free', used')
  BY <1>1, <1>2, <1>4, GoodHalved DEF Inv
<1> QED BY <1>4, <1>5 DEF Inv

\* The tail takes the rest of its chunk before it is left behind.
LEMMA GoodWidened ==
    ASSUME Inv, NEW h \in Handle, NEW n \in Nat, used[h] # NULL
    PROVE  /\ Good(WidenedChunks(used[h], n), free,
                   [used EXCEPT ![h] = Widened(used[h], n)])
           /\ Widened(used[h], n) \in BlockType
<1> USE AssumptionsHold DEF Assumptions
<1> DEFINE t == used[h]
<1>1. CASE Widens(t, n)
  <2> DEFINE y == [chunks[K] EXCEPT !.length = chunks[K].size]
             x == [t EXCEPT !.size = @ + chunks[K].size - chunks[K].length]
  <2>1. /\ t \in BlockType /\ t.chunk = K /\ t.at + t.size = chunks[K].length
        /\ t.at \in Nat /\ t.size \in Nat
    BY <1>1 DEF Inv, Good, HeldOK, Widens, IsTail, BlockType
  <2>2. /\ chunks[K] \in ChunkType /\ chunks[K].size \in Nat
        /\ chunks[K].length \in Nat /\ chunks[K].length <= chunks[K].size
    BY ChunkFields DEF Inv, Good, K
  <2>3. y \in ChunkType /\ y.length = chunks[K].size /\ y.length <= y.size
    BY <2>2 DEF ChunkType
  <2>4. /\ x \in BlockType /\ x.chunk = K /\ x.at = t.at
        /\ x.size = t.size + chunks[K].size - chunks[K].length
    BY <2>1, <2>2 DEF BlockType
  <2>5. /\ WidenedChunks(t, n) = [chunks EXCEPT ![K] = y]
        /\ Widened(t, n) = x
    BY <1>1 DEF WidenedChunks, Widened
  <2> HIDE DEF x, y
  <2>6. y.length >= t.at - Meta /\ x.at + x.size <= y.length
    BY <2>1, <2>2, <2>3, <2>4
  <2>7. Good([chunks EXCEPT ![K] = y], free, [used EXCEPT ![h] = x])
    BY <2>1, <2>3, <2>4, <2>6, GoodTail DEF Inv, K
  <2> QED BY <2>4, <2>5, <2>7
<1>2. CASE ~Widens(t, n)
  <2>1. used = [used EXCEPT ![h] = t] /\ t \in BlockType
    BY DEF Inv, Good, HeldOK
  <2> QED BY <1>2, <2>1 DEF WidenedChunks, Widened, Inv
<1> QED BY <1>1, <1>2

LEMMA InvMove ==
    ASSUME Inv, NEW h \in Handle, NEW n \in Size, used[h] # NULL, Move(h, n)
    PROVE  Inv'
<1> DEFINE c == WidenedChunks(used[h], n)
           b == Widened(used[h], n)
           u == [used EXCEPT ![h] = b]
<1>1. n \in Nat
  BY SizeAssumption
<1>2. Good(c, free, u) /\ b \in BlockType
  BY <1>1, GoodWidened
<1>3. u[h] = b /\ b # NULL
  BY <1>2, AssumptionsHold DEF Inv, Good, Assumptions
<1>4. PICK o \in Allocated(c, free, n) :
        /\ chunks' = o.chunks
        /\ used' = [used EXCEPT ![h] = IF o.block = NULL THEN b ELSE o.block]
        /\ free' = IF o.block = NULL THEN o.free ELSE o.free \cup {b}
  BY DEF Move
<1>5. refs' = refs
  BY DEF Move
<1> HIDE DEF c, b
<1>6. OutcomeOK(c, free, o)
  BY <1>1, <1>2, AllocatedOK DEF Good
<1>7. Good(chunks', free', used')
  <2>1. CASE o.block = NULL
    BY <1>2, <1>4, <1>6, <2>1, GoodKept
  <2>2. CASE o.block # NULL
    <3>1. used' = [u EXCEPT ![h] = o.block]
      BY <1>4, <2>2
    <3>2. free' = o.free \cup {u[h]}
      BY <1>3, <1>4, <2>2
    <3>3. u[h] # NULL
      BY <1>3
    <3> HIDE DEF u
    <3>4. Good(o.chunks, o.free \cup {u[h]}, [u EXCEPT ![h] = o.block])
      BY <1>2, <1>6, <2>2, <3>3, GoodMoved
    <3> QED BY <1>4, <3>1, <3>2, <3>4
  <2> QED BY <2>1, <2>2
<1> QED BY <1>5, <1>7 DEF Inv

LEMMA InvClean ==
    ASSUME Inv, Clean
    PROVE  Inv'
<1> USE AssumptionsHold DEF Assumptions
<1> DEFINE x == [chunks[1] EXCEPT !.length = 0]
<1>1. chunks[1] \in ChunkType
  BY ChunkFields DEF Inv, Good
<1>2. x \in ChunkType /\ x.length <= x.size
  BY <1>1 DEF ChunkType
<1>3. chunks' = <<x>>
  BY DEF Clean
<1>4. ChunksOK(chunks')
  <2> HIDE DEF x
  <2>1. chunks' \in Seq(ChunkType) /\ Len(chunks') = 1 /\ chunks'[1] = x
    BY <1>2, <1>3
  <2> QED BY <1>2, <2>1, BoundAssumption DEF ChunksOK
<1>5. CacheOK(chunks', free') /\ used' = [h \in Handle |-> NULL] /\ refs' = 0
  BY DEF Clean, CacheOK
<1> QED BY <1>4, <1>5 DEF Inv, Good

LEMMA InvNext ==
    ASSUME Halving
    PROVE  Inv /\ [Next]_vars => Inv'
<1> SUFFICES ASSUME Inv, [Next]_vars PROVE Inv'
  OBVIOUS
<1>1. ASSUME NEW h \in Handle, Free(h) PROVE Inv'
  BY <1>1, InvFree
<1>2. ASSUME NEW h \in Handle, NEW n \in Size, Alloc(h, n) PROVE Inv'
  BY <1>2, InvAlloc
<1>3. ASSUME NEW h \in Handle, NEW n \in Size, Realloc(h, n) PROVE Inv'
  BY <1>3, InvResize, InvRegrow, InvGiveUp, InvSplit, InvMove DEF Realloc
<1>4. CASE Clean
  BY <1>4, InvClean
<1>5. CASE UNCHANGED vars
  BY <1>5 DEF Inv, vars
<1> QED BY <1>1, <1>2, <1>3, <1>4, <1>5 DEF Next

\* The chunks, the cached blocks and the blocks of callers keep their types:
\* no size that lexbor_mraw_alloc or lexbor_mraw_realloc computes is negative.
THEOREM ArenaTypes == Halving => (Spec => []TypeOK)
<1> SUFFICES ASSUME Halving PROVE Spec => []TypeOK
  OBVIOUS
<1>1. Inv /\ [Next]_vars => Inv'
  BY InvNext
<1> QED BY InvInit, <1>1, InvProperties, PTL DEF Spec

\* No two blocks of the arena of mraw.c share a byte and none leaves its chunk,
\* whatever is allocated, moved, resized and refused, if callers that shrink a
\* block in the middle of a chunk halve it.
THEOREM ArenaBlocksApart == Halving => (Spec => []BlocksApart)
<1> SUFFICES ASSUME Halving PROVE Spec => []BlocksApart
  OBVIOUS
<1>1. Inv /\ [Next]_vars => Inv'
  BY InvNext
<1> QED BY InvInit, <1>1, InvProperties, PTL DEF Spec

-----------------------------------------------------------------------------
(* What is in use: what an action takes from a block has to be in another  *)
(* one afterwards.                                                         *)

\* Byte x of chunk i belongs to block b, with its header.
Has(b, i, x) == b.chunk = i /\ x \in b.at - Meta .. b.at + b.size - 1

\* It belongs to a cached block or to one that a caller holds.
Lies(f, u, i, x) ==
    \/ \E b \in f : Has(b, i, x)
    \/ \E h \in Handle : u[h] # NULL /\ Has(u[h], i, x)

Covered(c, f, u) ==
    \A i \in 1 .. Len(c) : \A x \in Nat : x < c[i].length => Lies(f, u, i, x)

-----------------------------------------------------------------------------
(* The allocator.                                                          *)

\* What an allocation takes into use is in a cached block or in the new one,
\* and a block that leaves the cache is the new one.
Accounts(c, f, o) ==
    /\ \A i \in 1 .. Len(o.chunks) : \A x \in Nat : x < o.chunks[i].length =>
         \/ i \in 1 .. Len(c) /\ x < c[i].length
         \/ \E b \in o.free : Has(b, i, x)
         \/ o.block # NULL /\ Has(o.block, i, x)
    /\ \A b \in f : b \in o.free \/ (o.block # NULL /\ b = o.block)

LEMMA TailAccounts ==
    ASSUME NEW c, NEW f, ChunksOK(c)
    PROVE  /\ Len(Filled(c)) = Len(c)
           /\ \A i \in 1 .. Len(c) : \A x \in Nat : x < Filled(c)[i].length =>
                x < c[i].length \/ \E b \in TailSaved(c, f) : Has(b, i, x)
           /\ f \subseteq TailSaved(c, f)
<1> USE AssumptionsHold DEF Assumptions
<1> DEFINE k == Len(c)
           v == c[k].size
           t == Block(k, c[k].length + Meta, c[k].size - c[k].length - Meta)
<1>1. /\ k \in Nat /\ k \in 1 .. k
      /\ v \in Nat /\ c[k].length \in Nat /\ c[k].length <= v
  BY ChunkFields
<1>2. CASE c[k].size - c[k].length > Meta
  <2>1. Filled(c) = WithLength(c, k, v) /\ TailSaved(c, f) = f \cup {t}
    BY <1>2 DEF Filled, TailSaved, WithLength
  <2>2. /\ Len(Filled(c)) = k
        /\ \A i \in 1 .. k : Filled(c)[i].length = IF i = k THEN v ELSE c[i].length
    <3> v <= c[k].size
      BY <1>1
    <3> HIDE DEF v
    <3> QED BY <1>1, <2>1, LastLengthReplaced
  <2>3. \A x \in Nat : x < v => x < c[k].length \/ Has(t, k, x)
    BY <1>1, <1>2 DEF Has, Block
  <2>4. ASSUME NEW i \in 1 .. k, NEW x \in Nat, x < Filled(c)[i].length
        PROVE  x < c[i].length \/ \E b \in f \cup {t} : Has(b, i, x)
    <3> HIDE DEF t
    <3>1. CASE i = k
      BY <2>2, <2>3, <2>4, <3>1
    <3>2. CASE i # k
      BY <2>2, <2>4, <3>2
    <3> QED BY <3>1, <3>2
  <2> HIDE DEF t, v
  <2> QED BY <2>1, <2>2, <2>4
<1>3. CASE ~(c[k].size - c[k].length > Meta)
  BY <1>3 DEF Filled, TailSaved
<1> QED BY <1>2, <1>3

LEMMA TailLength ==
    ASSUME NEW c, ChunksOK(c)
    PROVE  Filled(c) \in Seq(ChunkType)
<1>1. CacheOK(c, {})
  BY DEF CacheOK
<1> QED BY <1>1, TailOK DEF ChunksOK

LEMMA FromChunksAccounts ==
    ASSUME NEW c, NEW f, NEW n \in Nat, ChunksOK(c), NEW o \in FromChunks(c, f, n)
    PROVE  Accounts(c, f, o)
<1> USE AssumptionsHold DEF Assumptions
<1> DEFINE k == Len(c)
           need == n + Meta
<1>1. /\ k \in Nat /\ k \in 1 .. k /\ need \in Nat
      /\ c[k].size \in Nat /\ c[k].length \in Nat /\ c[k].length <= c[k].size
      /\ \A i \in 1 .. k : c[i].length \in Nat
  BY ChunkFields
<1>2. CASE c[k].length + need <= c[k].size
  <2> DEFINE v == c[k].length + need
             d == WithLength(c, k, v)
             t == Block(k, c[k].length + Meta, n)
  <2>1. o = Outcome(d, f, t)
    BY <1>2 DEF FromChunks, WithLength
  <2>2. v \in Nat /\ v <= c[k].size
    BY <1>1, <1>2
  <2>3. t # NULL /\ \A x \in Nat : x < v => x < c[k].length \/ Has(t, k, x)
    <3>1. t \in BlockType
      BY <1>1 DEF Block, BlockType
    <3> QED BY <1>1, <3>1 DEF Has, Block
  <2> HIDE DEF v, t
  <2>4. /\ Len(d) = k
        /\ \A i \in 1 .. k : d[i].length = IF i = k THEN v ELSE c[i].length
    BY <2>2, LastLengthReplaced
  <2> HIDE DEF d
  <2>5. \A i \in 1 .. k : \A x \in Nat : x < d[i].length =>
           x < c[i].length \/ Has(t, i, x)
    BY <2>3, <2>4
  <2> QED BY <2>1, <2>3, <2>4, <2>5 DEF Accounts, Outcome
<1>3. CASE ~(c[k].length + need <= c[k].size) /\ c[k].length = 0
  <2> DEFINE d == [c EXCEPT ![k] = NewChunk(need)]
             t == Block(k, Meta, n)
  <2>1. o = Outcome(d, f, t)
    BY <1>3 DEF FromChunks
  <2>2. /\ Len(d) = k
        /\ \A i \in 1 .. k : d[i] = IF i = k THEN NewChunk(need) ELSE c[i]
    BY <1>1, NewChunkOK, ChunkReplaced
  <2>3. t # NULL /\ \A x \in Nat : x < need => Has(t, k, x)
    <3>1. t \in BlockType
      BY <1>1 DEF Block, BlockType
    <3> QED BY <1>1, <3>1 DEF Has, Block
  <2>4. NewChunk(need).length = need
    BY <1>1, NewChunkOK
  <2> HIDE DEF d, t, need
  <2>5. \A i \in 1 .. k : \A x \in Nat : x < d[i].length =>
           x < c[i].length \/ Has(t, i, x)
    BY <2>2, <2>3, <2>4
  <2> QED BY <2>1, <2>2, <2>3, <2>5 DEF Accounts, Outcome
<1>4. CASE ~(c[k].length + need <= c[k].size) /\ c[k].length # 0
  <2> DEFINE g == TailSaved(c, f)
             e == Filled(c)
             d == Append(e, NewChunk(need))
             t == Block(k + 1, Meta, n)
  <2>1. o = Outcome(e, g, NULL) \/ o = Outcome(d, g, t)
    BY <1>1, <1>4 DEF FromChunks
  <2>2. /\ Len(e) = k /\ f \subseteq g
        /\ \A i \in 1 .. k : \A x \in Nat : x < e[i].length =>
              x < c[i].length \/ \E b \in g : Has(b, i, x)
    BY TailAccounts
  <2>3. CASE o = Outcome(e, g, NULL)
    <3> HIDE DEF e, g
    <3> QED BY <2>2, <2>3 DEF Accounts, Outcome
  <2>4. CASE o = Outcome(d, g, t)
    <3>1. t # NULL /\ \A x \in Nat : x < need => Has(t, k + 1, x)
      <4>1. t \in BlockType
        BY <1>1 DEF Block, BlockType
      <4> QED BY <1>1, <4>1 DEF Has, Block
    <3>2. /\ Len(d) = k + 1 /\ d[k + 1] = NewChunk(need)
          /\ \A i \in 1 .. k : d[i] = e[i]
      <4>1. e \in Seq(ChunkType) /\ NewChunk(need) \in ChunkType
        BY <1>1, <2>2, TailLength, NewChunkOK
      <4> HIDE DEF e, need
      <4> QED BY <2>2, <4>1, AppendProperties
    <3>3. NewChunk(need).length = need
      BY <1>1, NewChunkOK
    <3> HIDE DEF d, e, g, t, need
    <3>4. ASSUME NEW i \in 1 .. k + 1, NEW x \in Nat, x < d[i].length
          PROVE  \/ i \in 1 .. k /\ x < c[i].length
                 \/ \E b \in g : Has(b, i, x)
                 \/ Has(t, i, x)
      <4>1. CASE i = k + 1
        BY <3>1, <3>2, <3>3, <3>4, <4>1
      <4>2. CASE i # k + 1
        <5>1. i \in 1 .. k
          BY <1>1, <4>2
        <5>2. x < e[i].length
          BY <3>2, <3>4, <5>1
        <5> QED BY <2>2, <5>1, <5>2
      <4> QED BY <4>1, <4>2
    <3> QED BY <2>2, <2>4, <3>1, <3>2, <3>4 DEF Accounts, Outcome
  <2> QED BY <2>1, <2>3, <2>4
<1> QED BY <1>2, <1>3, <1>4

LEMMA AllocatedAccounts ==
    ASSUME NEW c, NEW f, NEW n \in Nat, ChunksOK(c), f \subseteq BlockType,
           NEW o \in Allocated(c, f, n)
    PROVE  Accounts(c, f, o)
<1>1. CASE Cache!Closest(f, n) # {}
  <2>1. PICK b \in Cache!Closest(f, n) : o = Outcome(c, f \ {b}, b)
    BY <1>1 DEF Allocated
  <2>2. b \in f /\ b # NULL
    BY AssumptionsHold DEF Cache!Closest, Assumptions
  <2> QED BY <2>1, <2>2 DEF Accounts, Outcome
<1>2. CASE Cache!Closest(f, n) = {}
  <2>1. o \in FromChunks(c, f, n)
    BY <1>2 DEF Allocated
  <2> QED BY <2>1, FromChunksAccounts
<1> QED BY <1>1, <1>2

-----------------------------------------------------------------------------
(* Blocks that change hands.                                               *)

\* A caller's block goes to the cache.
LEMMA CoveredFreed ==
    ASSUME NEW c, NEW f, NEW u \in [Handle -> BlockType \cup {NULL}], Covered(c, f, u),
           NEW h \in Handle, u[h] # NULL
    PROVE  Covered(c, f \cup {u[h]}, [u EXCEPT ![h] = NULL])
<1> DEFINE v == [u EXCEPT ![h] = NULL]
<1>1. \A g \in Handle \ {h} : v[g] = u[g]
  OBVIOUS
<1> HIDE DEF v
<1>2. \A i \in 1 .. Len(c) : \A x \in Nat : Lies(f, u, i, x) => Lies(f \cup {u[h]}, v, i, x)
  BY <1>1 DEF Lies
<1> QED BY <1>2 DEF Covered, v

\* An allocation for handle h: what was its block, if it had one, is cached.
LEMMA CoveredPlaced ==
    ASSUME NEW c, NEW f, NEW u \in [Handle -> BlockType \cup {NULL}], Covered(c, f, u),
           NEW o, Accounts(c, f, o), NEW h \in Handle, o.block # NULL,
           NEW g, o.free \subseteq g, u[h] # NULL => u[h] \in g
    PROVE  Covered(o.chunks, g, [u EXCEPT ![h] = o.block])
<1> DEFINE v == [u EXCEPT ![h] = o.block]
<1>1. v[h] = o.block /\ \A j \in Handle \ {h} : v[j] = u[j]
  OBVIOUS
<1> HIDE DEF v
<1>2. ASSUME NEW i, NEW x, Has(o.block, i, x)
      PROVE  Lies(g, v, i, x)
  BY <1>1, <1>2 DEF Lies
<1>3. ASSUME NEW i, NEW x, Lies(f, u, i, x)
      PROVE  Lies(g, v, i, x)
  <2>1. ASSUME NEW b \in f, Has(b, i, x) PROVE Lies(g, v, i, x)
    <3>1. b \in g \/ b = o.block
      BY DEF Accounts
    <3> QED BY <1>2, <2>1, <3>1 DEF Lies
  <2>2. ASSUME NEW j \in Handle, u[j] # NULL, Has(u[j], i, x) PROVE Lies(g, v, i, x)
    <3>1. CASE j = h
      BY <2>2, <3>1 DEF Lies
    <3>2. CASE j # h
      BY <1>1, <2>2, <3>2 DEF Lies
    <3> QED BY <3>1, <3>2
  <2> QED BY <1>3, <2>1, <2>2 DEF Lies
<1>4. ASSUME NEW i \in 1 .. Len(o.chunks), NEW x \in Nat, x < o.chunks[i].length
      PROVE  Lies(g, v, i, x)
  <2>1. CASE i \in 1 .. Len(c) /\ x < c[i].length
    BY <1>3, <2>1 DEF Covered
  <2>2. CASE \E b \in o.free : Has(b, i, x)
    BY <2>2 DEF Lies
  <2>3. CASE Has(o.block, i, x)
    BY <1>2, <2>3
  <2> QED BY <1>4, <2>1, <2>2, <2>3 DEF Accounts
<1> QED BY <1>4 DEF Covered, v

\* An allocation that fails.
LEMMA CoveredRefused ==
    ASSUME NEW c, NEW f, NEW u, Covered(c, f, u),
           NEW o, Accounts(c, f, o), o.block = NULL
    PROVE  Covered(o.chunks, o.free, u)
<1>1. \A i, x : Lies(f, u, i, x) => Lies(o.free, u, i, x)
  BY DEF Lies, Accounts
<1>2. ASSUME NEW i \in 1 .. Len(o.chunks), NEW x \in Nat, x < o.chunks[i].length
      PROVE  Lies(o.free, u, i, x)
  <2>1. CASE i \in 1 .. Len(c) /\ x < c[i].length
    BY <1>1, <2>1 DEF Covered
  <2>2. CASE \E b \in o.free : Has(b, i, x)
    BY <2>2 DEF Lies
  <2> QED BY <1>2, <2>1, <2>2 DEF Accounts
<1> QED BY <1>2 DEF Covered

\* Handle h has a block x (or nothing) instead of its own and the cache gains
\* some: every byte that the block had and that is still in use has to be in them.
LEMMA CoveredRecut ==
    ASSUME NEW c, NEW d, NEW f, NEW g, NEW u \in [Handle -> BlockType \cup {NULL}],
           Covered(c, f, u), NEW h \in Handle, u[h] # NULL, f \subseteq g,
           NEW x, Len(d) = Len(c),
           \A i \in 1 .. Len(c) : \A y \in Nat : y < d[i].length =>
              \/ y < c[i].length /\ ~Has(u[h], i, y)
              \/ x # NULL /\ Has(x, i, y)
              \/ \E b \in g : Has(b, i, y)
    PROVE  Covered(d, g, [u EXCEPT ![h] = x])
<1> DEFINE v == [u EXCEPT ![h] = x]
<1>1. v[h] = x /\ \A j \in Handle \ {h} : v[j] = u[j]
  OBVIOUS
<1> HIDE DEF v
<1>2. ASSUME NEW i \in 1 .. Len(c), NEW y \in Nat, y < d[i].length
      PROVE  Lies(g, v, i, y)
  <2>1. CASE y < c[i].length /\ ~Has(u[h], i, y)
    <3>1. Lies(f, u, i, y)
      BY <2>1 DEF Covered
    <3>2. CASE \E b \in f : Has(b, i, y)
      BY <3>2 DEF Lies
    <3>3. ASSUME NEW j \in Handle, u[j] # NULL, Has(u[j], i, y) PROVE Lies(g, v, i, y)
      <4>1. j # h
        BY <2>1, <3>3
      <4> QED BY <1>1, <3>3, <4>1 DEF Lies
    <3> QED BY <3>1, <3>2, <3>3 DEF Lies
  <2>2. CASE x # NULL /\ Has(x, i, y)
    BY <1>1, <2>2 DEF Lies
  <2>3. CASE \E b \in g : Has(b, i, y)
    BY <2>3 DEF Lies
  <2> QED BY <1>2, <2>1, <2>2, <2>3
<1> QED BY <1>2 DEF Covered, v

-----------------------------------------------------------------------------
(* The actions.                                                            *)

CoveredNow == Covered(chunks, free, used)

LEMMA TypesNow ==
    ASSUME Inv
    PROVE  /\ ChunksOK(chunks) /\ free \subseteq BlockType
           /\ used \in [Handle -> BlockType \cup {NULL}]
           /\ K \in 1 .. K /\ K \in Nat
           /\ chunks[K].size \in Nat /\ chunks[K].length \in Nat
           /\ \A i \in 1 .. K : chunks[i].length \in Nat
BY ChunkFields DEF Inv, Good, CacheOK, K

LEMMA CoveredAlloc ==
    ASSUME Inv, CoveredNow, NEW h \in Handle, NEW n \in Size, Alloc(h, n)
    PROVE  CoveredNow'
<1>1. PICK o \in Allocated(chunks, free, n) :
        /\ chunks' = o.chunks
        /\ free' = o.free
        /\ used' = [used EXCEPT ![h] = o.block]
  BY DEF Alloc
<1>2. Accounts(chunks, free, o)
  BY SizeAssumption, TypesNow, AllocatedAccounts
<1>3. used[h] = NULL
  BY DEF Alloc
<1>4. CASE o.block = NULL
  <2>1. used' = used
    BY <1>1, <1>3, <1>4, TypesNow
  <2> QED BY <1>1, <1>2, <1>4, <2>1, CoveredRefused DEF CoveredNow
<1>5. CASE o.block # NULL
  <2>1. Covered(o.chunks, o.free, [used EXCEPT ![h] = o.block])
    BY <1>2, <1>3, <1>5, TypesNow, CoveredPlaced DEF CoveredNow
  <2> QED BY <1>1, <2>1 DEF CoveredNow
<1> QED BY <1>4, <1>5

LEMMA CoveredResize ==
    ASSUME Inv, CoveredNow, NEW h \in Handle, NEW n \in Size, used[h] # NULL, Resize(h, n)
    PROVE  CoveredNow'
<1> USE AssumptionsHold DEF Assumptions
<1> DEFINE t == used[h]
           m == t.at + n - IF n = 0 THEN Meta ELSE 0
           x == IF n = 0 THEN NULL ELSE [t EXCEPT !.size = n]
           d == WithLength(chunks, K, m)
<1>1. /\ t \in BlockType /\ Inside(chunks, t) /\ t.at \in Nat /\ n \in Nat /\ t.size \in Nat
      /\ t.chunk = K /\ t.at + t.size = chunks[K].length /\ t.at >= Meta
  BY DEF Inv, Good, HeldOK, Resize, IsTail, BlockType, Inside
<1>2. chunks[K].size > t.at + n
  BY DEF Resize, HasRoom
<1>3. /\ m \in Nat /\ m <= chunks[K].size
      /\ n = 0 => m = t.at - Meta
      /\ n # 0 => m = t.at + n
  <2> HIDE DEF t
  <2>1. CASE n = 0
    BY <1>1, <1>2, <2>1, TypesNow
  <2>2. CASE n # 0
    BY <1>1, <1>2, <2>2, TypesNow
  <2> QED BY <2>1, <2>2
<1>4. /\ n # 0 => x \in BlockType /\ x # NULL /\ x.chunk = K /\ x.at = t.at /\ x.size = n
  BY <1>1 DEF BlockType
<1>5. chunks' = d /\ used' = [used EXCEPT ![h] = x] /\ free' = free
  BY DEF Resize, WithLength
<1> HIDE DEF m, x
<1>6. /\ Len(d) = K
      /\ \A i \in 1 .. K : d[i].length = IF i = K THEN m ELSE chunks[i].length
  BY <1>3, TypesNow, LengthReplaced DEF K
<1> HIDE DEF d
<1>7. ASSUME NEW i \in 1 .. K, NEW y \in Nat, y < d[i].length
      PROVE  (y < chunks[i].length /\ ~Has(t, i, y)) \/ (x # NULL /\ Has(x, i, y))
  <2>1. CASE i # K
    BY <1>1, <1>6, <1>7, <2>1 DEF Has
  <2>2. CASE i = K /\ y < t.at - Meta
    BY <1>1, <2>2, TypesNow DEF Has
  <2>3. CASE i = K /\ ~(y < t.at - Meta)
    <3>1. y < m
      BY <1>6, <1>7, <2>3
    <3>2. n # 0
      BY <1>3, <2>3, <3>1
    <3> HIDE DEF t
    <3>3. y \in t.at - Meta .. t.at + n - 1
      BY <1>1, <1>3, <2>3, <3>1, <3>2
    <3> QED BY <1>4, <2>3, <3>2, <3>3 DEF Has
  <2> QED BY <2>1, <2>2, <2>3
<1>8. Covered(d, free, [used EXCEPT ![h] = x])
  BY <1>6, <1>7, TypesNow, CoveredRecut DEF CoveredNow, K
<1> QED BY <1>5, <1>8 DEF CoveredNow

LEMMA CoveredRegrow ==
    ASSUME Inv, CoveredNow, NEW h \in Handle, NEW n \in Size, used[h] # NULL, Regrow(h, n)
    PROVE  CoveredNow'
<1> USE AssumptionsHold DEF Assumptions
<1> DEFINE t == used[h]
           z == [size |-> n + Meta + MinSize, length |-> n + Meta]
           x == [t EXCEPT !.size = n]
           d == [chunks EXCEPT ![K] = z]
<1>1. t \in BlockType /\ n \in Nat /\ t.chunk = K /\ t.at = Meta
  BY DEF Inv, Good, HeldOK, Regrow, IsTail
<1>2. z \in ChunkType /\ z.length = n + Meta /\ z.length <= z.size
  BY <1>1 DEF ChunkType
<1>3. x \in BlockType /\ x # NULL /\ x.chunk = K /\ x.at = Meta /\ x.size = n
  BY <1>1 DEF BlockType
<1>4. chunks' = d /\ used' = [used EXCEPT ![h] = x] /\ free' = free
  BY DEF Regrow
<1> HIDE DEF x, z
<1>5. Len(d) = K /\ \A i \in 1 .. K : d[i] = IF i = K THEN z ELSE chunks[i]
  BY <1>2, TypesNow, ChunkReplaced DEF K
<1> HIDE DEF d
<1>6. ASSUME NEW i \in 1 .. K, NEW y \in Nat, y < d[i].length
      PROVE  (y < chunks[i].length /\ ~Has(t, i, y)) \/ (x # NULL /\ Has(x, i, y))
  <2>1. CASE i # K
    BY <1>1, <1>5, <1>6, <2>1 DEF Has
  <2>2. CASE i = K
    <3>1. y < n + Meta
      BY <1>2, <1>5, <1>6, <2>2
    <3> QED BY <1>1, <1>3, <2>2, <3>1 DEF Has
  <2> QED BY <2>1, <2>2
<1>7. Covered(d, free, [used EXCEPT ![h] = x])
  BY <1>5, <1>6, TypesNow, CoveredRecut DEF CoveredNow, K
<1> QED BY <1>4, <1>7 DEF CoveredNow

LEMMA CoveredSplit ==
    ASSUME Inv, Halving, CoveredNow, NEW h \in Handle, NEW n \in Size, used[h] # NULL,
           Split(h, n)
    PROVE  CoveredNow'
<1> USE AssumptionsHold DEF Assumptions
<1> DEFINE t == used[h]
           x == [t EXCEPT !.size = n]
           z == Block(t.chunk, t.at + n + Meta, n - Meta)
<1>1. /\ t \in BlockType /\ t.size \in Nat /\ t.at \in Nat /\ n \in Nat
      /\ t.at >= Meta
  BY SizeAssumption DEF Inv, Good, HeldOK, BlockType, Inside
<1>2. t.size = 2 * n
  BY <1>1 DEF Split, Halving
<1>3. t.size - n = n
  BY <1>1, <1>2
<1>4. /\ n > Meta /\ chunks' = chunks
      /\ used' = [used EXCEPT ![h] = x] /\ free' = free \cup {z}
  BY <1>3 DEF Split
<1>5. x \in BlockType /\ x # NULL /\ x.chunk = t.chunk /\ x.at = t.at /\ x.size = n
  BY <1>1 DEF BlockType
<1>6. z.chunk = t.chunk /\ z.at = t.at + n + Meta /\ z.size = n - Meta
  BY DEF Block
<1> HIDE DEF x, z, t
<1>7. ASSUME NEW i \in 1 .. K, NEW y \in Nat, y < chunks[i].length
      PROVE  (y < chunks[i].length /\ ~Has(t, i, y)) \/ Has(x, i, y) \/ Has(z, i, y)
  <2>1. SUFFICES ASSUME Has(t, i, y) PROVE Has(x, i, y) \/ Has(z, i, y)
    BY <1>7
  <2>2. t.chunk = i /\ t.at - Meta <= y /\ y < t.at + 2 * n
    BY <1>1, <1>2, <2>1 DEF Has
  <2>3. CASE y < t.at + n
    BY <1>1, <1>5, <2>2, <2>3 DEF Has
  <2>4. CASE y >= t.at + n
    BY <1>1, <1>4, <1>6, <2>2, <2>4 DEF Has
  <2> QED BY <1>1, <2>2, <2>3, <2>4
<1>8. Covered(chunks, free \cup {z}, [used EXCEPT ![h] = x])
  BY <1>5, <1>7, TypesNow, CoveredRecut DEF CoveredNow, K, t
<1> QED BY <1>4, <1>8 DEF CoveredNow

\* The tail that takes the rest of its chunk takes what the chunk then counts.
LEMMA CoveredWidened ==
    ASSUME Inv, CoveredNow, NEW h \in Handle, NEW n \in Nat, used[h] # NULL
    PROVE  Covered(WidenedChunks(used[h], n), free,
                   [used EXCEPT ![h] = Widened(used[h], n)])
<1> USE AssumptionsHold DEF Assumptions
<1> DEFINE t == used[h]
<1>1. CASE Widens(t, n)
  <2> DEFINE v == chunks[K].size
             d == WithLength(chunks, K, v)
             x == [t EXCEPT !.size = @ + chunks[K].size - chunks[K].length]
  <2>1. /\ t \in BlockType /\ t.chunk = K /\ t.at + t.size = chunks[K].length
        /\ t.at \in Nat /\ t.size \in Nat
    BY <1>1 DEF Inv, Good, HeldOK, Widens, IsTail, BlockType
  <2>2. v \in Nat /\ chunks[K].length \in Nat /\ chunks[K].length <= v
    BY ChunkFields DEF Inv, Good, K
  <2>3. /\ x \in BlockType /\ x # NULL /\ x.chunk = K /\ x.at = t.at
        /\ x.size = t.size + v - chunks[K].length
    BY <2>1, <2>2 DEF BlockType
  <2>4. WidenedChunks(t, n) = d /\ Widened(t, n) = x
    BY <1>1 DEF WidenedChunks, Widened, WithLength
  <2>5. v <= chunks[K].size
    BY <2>2
  <2> HIDE DEF x, v, t
  <2>6. /\ Len(d) = K
        /\ \A i \in 1 .. K : d[i].length = IF i = K THEN v ELSE chunks[i].length
    BY <2>2, <2>5, TypesNow, LengthReplaced DEF K
  <2> HIDE DEF d
  <2>7. ASSUME NEW i \in 1 .. K, NEW y \in Nat, y < d[i].length
        PROVE  (y < chunks[i].length /\ ~Has(t, i, y)) \/ (x # NULL /\ Has(x, i, y))
    <3>1. CASE i # K
      BY <2>1, <2>6, <2>7, <3>1 DEF Has
    <3>2. CASE i = K /\ y < t.at - Meta
      BY <2>1, <2>2, <3>2 DEF Has
    <3>3. CASE i = K /\ ~(y < t.at - Meta)
      <4>1. y < v
        BY <2>6, <2>7, <3>3
      <4>2. x.at + x.size = v
        BY <2>1, <2>2, <2>3
      <4> QED BY <2>1, <2>2, <2>3, <3>3, <4>1, <4>2 DEF Has
    <3> QED BY <3>1, <3>2, <3>3
  <2>8. Covered(d, free, [used EXCEPT ![h] = x])
    BY <2>6, <2>7, TypesNow, CoveredRecut DEF CoveredNow, K, t
  <2> QED BY <2>4, <2>8 DEF t
<1>2. CASE ~Widens(t, n)
  <2>1. used = [used EXCEPT ![h] = t]
    BY TypesNow
  <2> QED BY <1>2, <2>1 DEF WidenedChunks, Widened, CoveredNow
<1> QED BY <1>1, <1>2

LEMMA CoveredMove ==
    ASSUME Inv, CoveredNow, NEW h \in Handle, NEW n \in Size, used[h] # NULL, Move(h, n)
    PROVE  CoveredNow'
<1> DEFINE c == WidenedChunks(used[h], n)
           b == Widened(used[h], n)
           u == [used EXCEPT ![h] = b]
<1>1. n \in Nat
  BY SizeAssumption
<1>2. Good(c, free, u) /\ b \in BlockType /\ Covered(c, free, u)
  BY <1>1, GoodWidened, CoveredWidened
<1>3. u[h] = b
  BY <1>2, TypesNow
<1>4. PICK o \in Allocated(c, free, n) :
        /\ chunks' = o.chunks
        /\ used' = [used EXCEPT ![h] = IF o.block = NULL THEN b ELSE o.block]
        /\ free' = IF o.block = NULL THEN o.free ELSE o.free \cup {b}
  BY DEF Move
<1> HIDE DEF c, b
<1>5. Accounts(c, free, o)
  BY <1>1, <1>2, AllocatedAccounts DEF Good, CacheOK
<1>6. CASE o.block = NULL
  BY <1>2, <1>4, <1>5, <1>6, CoveredRefused DEF CoveredNow
<1>7. CASE o.block # NULL
  <2>1. used' = [u EXCEPT ![h] = o.block] /\ free' = o.free \cup {b}
    BY <1>4, <1>7
  <2>2. u \in [Handle -> BlockType \cup {NULL}] /\ u[h] = b
    BY <1>2, <1>3 DEF Good
  <2> HIDE DEF u
  <2>3. Covered(o.chunks, o.free \cup {b}, [u EXCEPT ![h] = o.block])
    BY <1>2, <1>5, <1>7, <2>2, CoveredPlaced
  <2> QED BY <1>4, <2>1, <2>3 DEF CoveredNow
<1> QED BY <1>6, <1>7

LEMMA CoveredNext ==
    ASSUME Halving
    PROVE  Inv /\ CoveredNow /\ [Next]_vars => CoveredNow'
<1> SUFFICES ASSUME Inv, CoveredNow, [Next]_vars PROVE CoveredNow'
  OBVIOUS
<1>1. ASSUME NEW h \in Handle, used[h] # NULL,
             chunks' = chunks, free' = free \cup {used[h]},
             used' = [used EXCEPT ![h] = NULL]
      PROVE  CoveredNow'
  BY <1>1, TypesNow, CoveredFreed DEF CoveredNow
<1>2. ASSUME NEW h \in Handle, Free(h) PROVE CoveredNow'
  BY <1>1, <1>2 DEF Free
<1>3. ASSUME NEW h \in Handle, NEW n \in Size, used[h] # NULL, GiveUp(h, n) PROVE CoveredNow'
  BY <1>1, <1>3 DEF GiveUp
<1>4. ASSUME NEW h \in Handle, NEW n \in Size, Alloc(h, n) PROVE CoveredNow'
  BY <1>4, CoveredAlloc
<1>5. ASSUME NEW h \in Handle, NEW n \in Size, Realloc(h, n) PROVE CoveredNow'
  BY <1>3, <1>5, CoveredResize, CoveredRegrow, CoveredSplit, CoveredMove DEF Realloc
<1>6. CASE Clean
  <2> DEFINE x == [chunks[1] EXCEPT !.length = 0]
  <2>1. chunks[1] \in ChunkType
    BY ChunkFields DEF Inv, Good
  <2>2. x.length = 0 /\ chunks' = <<x>>
    BY <1>6, <2>1 DEF Clean, ChunkType
  <2> HIDE DEF x
  <2>3. Len(chunks') = 1 /\ chunks'[1].length = 0
    BY <2>2
  <2> QED BY <2>3 DEF CoveredNow, Covered
<1>7. CASE UNCHANGED vars
  BY <1>7 DEF CoveredNow, vars
<1> QED BY <1>2, <1>4, <1>5, <1>6, <1>7 DEF Next

LEMMA CoveredLost == Inv /\ CoveredNow => NothingLost
<1> SUFFICES ASSUME Inv, CoveredNow, NEW i \in 1 .. K, NEW x \in 0 .. chunks[i].length - 1
             PROVE  \E b \in free \cup {used[h] : h \in UsedBy} :
                       b.chunk = i /\ x \in b.at - Meta .. b.at + b.size - 1
  BY DEF NothingLost
<1>1. x \in Nat /\ x < chunks[i].length
  BY TypesNow
<1>2. Lies(free, used, i, x)
  BY <1>1 DEF CoveredNow, Covered, K
<1> QED BY <1>2 DEF Lies, Has, UsedBy

\* No byte of the arena of mraw.c is lost, whatever is allocated, resized, moved
\* and refused: what a chunk counts as in use belongs to a block that a caller
\* holds or the cache can hand out, if callers that shrink a block in the middle
\* of a chunk halve it.
THEOREM ArenaLosesNothing == Halving => (Spec => []NothingLost)
<1> SUFFICES ASSUME Halving PROVE Spec => []NothingLost
  OBVIOUS
<1>1. Init => CoveredNow
  BY DEF Init, CoveredNow, Covered
<1>2. Inv /\ [Next]_vars => Inv'
  BY InvNext
<1>3. Inv /\ CoveredNow /\ [Next]_vars => CoveredNow'
  BY CoveredNext
<1> QED BY InvInit, <1>1, <1>2, <1>3, CoveredLost, PTL DEF Spec

-----------------------------------------------------------------------------
(* The reference count.                                                    *)

\* A handle more, a handle less.
LEMMA UsersCounted ==
    ASSUME IsFiniteSet(Handle), NEW S \in SUBSET Handle, NEW T \in SUBSET Handle,
           NEW h \in Handle
    PROVE  /\ Cardinality(S) \in Nat /\ Cardinality(T) \in Nat
           /\ T \subseteq S => Cardinality(T) <= Cardinality(S)
           /\ T \subseteq S \cup {h} => Cardinality(T) <= Cardinality(S) + 1
           /\ T = S \ {h} /\ h \in S => Cardinality(T) = Cardinality(S) - 1
<1>1. IsFiniteSet(S) /\ IsFiniteSet(T)
  BY FS_Subset
<1>2. Cardinality(S) \in Nat /\ Cardinality(T) \in Nat
  BY <1>1, FS_CardinalityType
<1>3. T \subseteq S => Cardinality(T) <= Cardinality(S)
  BY <1>1, FS_Subset
<1>4. T \subseteq S \cup {h} => Cardinality(T) <= Cardinality(S) + 1
  <2>1. /\ IsFiniteSet(S \cup {h}) /\ Cardinality(S \cup {h}) \in Nat
        /\ Cardinality(S \cup {h}) <= Cardinality(S) + 1
    <3>1. /\ IsFiniteSet(S \cup {h})
          /\ \/ Cardinality(S \cup {h}) = Cardinality(S)
             \/ Cardinality(S \cup {h}) = Cardinality(S) + 1
      BY <1>1, FS_AddElement
    <3> QED BY <1>2, <3>1
  <2>2. T \subseteq S \cup {h} => Cardinality(T) <= Cardinality(S \cup {h})
    BY <2>1, FS_Subset
  <2> QED BY <1>2, <2>1, <2>2
<1>5. T = S \ {h} /\ h \in S => Cardinality(T) = Cardinality(S) - 1
  BY <1>1, FS_RemoveElement
<1> QED BY <1>2, <1>3, <1>4, <1>5

LEMMA CountNext ==
    ASSUME IsFiniteSet(Handle)
    PROVE  Inv /\ CountCovers /\ [Next]_vars => CountCovers'
<1> SUFFICES ASSUME Inv, CountCovers, [Next]_vars PROVE CountCovers'
  OBVIOUS
<1> USE DEF CountCovers
<1>1. /\ used \in [Handle -> BlockType \cup {NULL}] /\ refs \in Int
      /\ UsedBy \in SUBSET Handle /\ UsedBy' \in SUBSET Handle
  BY DEF Inv, Good, UsedBy
<1>2. ASSUME UsedBy' \subseteq UsedBy, refs' = refs PROVE CountCovers'
  <2>1. CASE Handle = {}
    <3>1. UsedBy' = UsedBy
      BY <1>1, <2>1
    <3> QED BY <1>2, <3>1
  <2>2. ASSUME NEW h \in Handle PROVE CountCovers'
    <3>1. /\ Cardinality(UsedBy) \in Nat /\ Cardinality(UsedBy') \in Nat
          /\ Cardinality(UsedBy') <= Cardinality(UsedBy)
      BY <1>1, <1>2, UsersCounted
    <3> QED BY <1>1, <1>2, <3>1
  <2> QED BY <2>1, <2>2
<1>3. ASSUME NEW h \in Handle, used[h] # NULL, refs' = refs - 1,
             used' = [used EXCEPT ![h] = NULL]
      PROVE  CountCovers'
  <2>1. UsedBy' = UsedBy \ {h} /\ h \in UsedBy
    BY <1>1, <1>3 DEF UsedBy
  <2>2. /\ Cardinality(UsedBy) \in Nat /\ Cardinality(UsedBy') \in Nat
        /\ Cardinality(UsedBy') = Cardinality(UsedBy) - 1
    BY <1>1, <2>1, UsersCounted
  <2> QED BY <1>1, <1>3, <2>2
<1>4. ASSUME NEW h \in Handle, NEW x, used[h] # NULL, refs' = refs,
             used' = [used EXCEPT ![h] = x]
      PROVE  CountCovers'
  <2>1. UsedBy' \subseteq UsedBy
    BY <1>1, <1>4 DEF UsedBy
  <2> QED BY <1>2, <1>4, <2>1
<1>5. ASSUME NEW h \in Handle, NEW n \in Size, Alloc(h, n) PROVE CountCovers'
  <2>1. PICK o \in Allocated(chunks, free, n) :
          /\ used' = [used EXCEPT ![h] = o.block]
          /\ refs' = IF o.block = NULL THEN refs ELSE refs + 1
    BY <1>5 DEF Alloc
  <2>2. CASE o.block = NULL
    <3>1. UsedBy' \subseteq UsedBy /\ refs' = refs
      BY <1>1, <2>1, <2>2 DEF UsedBy
    <3> QED BY <1>2, <3>1
  <2>3. CASE o.block # NULL
    <3>1. UsedBy' \subseteq UsedBy \cup {h}
      BY <1>1, <2>1 DEF UsedBy
    <3>2. /\ Cardinality(UsedBy) \in Nat /\ Cardinality(UsedBy') \in Nat
          /\ Cardinality(UsedBy') <= Cardinality(UsedBy) + 1
      BY <1>1, <3>1, UsersCounted
    <3> QED BY <1>1, <2>1, <2>3, <3>2
  <2> QED BY <2>2, <2>3
<1>6. ASSUME NEW h \in Handle, Free(h) PROVE CountCovers'
  BY <1>3, <1>6 DEF Free
<1>7. ASSUME NEW h \in Handle, NEW n \in Size, Realloc(h, n) PROVE CountCovers'
  <2>1. used[h] # NULL
    BY <1>7 DEF Realloc
  <2>2. CASE Resize(h, n)
    BY <1>4, <2>1, <2>2 DEF Resize
  <2>3. CASE Regrow(h, n)
    BY <1>4, <2>1, <2>3 DEF Regrow
  <2>4. CASE GiveUp(h, n)
    BY <1>3, <2>1, <2>4 DEF GiveUp
  <2>5. CASE Split(h, n)
    BY <1>4, <2>1, <2>5 DEF Split
  <2>6. CASE Move(h, n)
    BY <1>4, <2>1, <2>6 DEF Move
  <2> QED BY <1>7, <2>2, <2>3, <2>4, <2>5, <2>6 DEF Realloc
<1>8. CASE Clean
  <2>1. UsedBy' = {} /\ refs' = 0
    BY <1>8 DEF Clean, UsedBy
  <2> QED BY <2>1, FS_EmptySet
<1>9. CASE UNCHANGED vars
  BY <1>9 DEF vars, UsedBy
<1> QED BY <1>5, <1>6, <1>7, <1>8, <1>9 DEF Next

\* ref_count of mraw.c never falls below the number of blocks that callers hold,
\* for any finite number of them.
THEOREM ArenaCountCovers == Halving /\ IsFiniteSet(Handle) => (Spec => []CountCovers)
<1> SUFFICES ASSUME Halving, IsFiniteSet(Handle) PROVE Spec => []CountCovers
  OBVIOUS
<1>1. Init => CountCovers
  <2> SUFFICES ASSUME Init PROVE CountCovers
    OBVIOUS
  <2>1. UsedBy = {} /\ refs = 0
    BY DEF Init, UsedBy
  <2> QED BY <2>1, FS_EmptySet DEF CountCovers
<1>2. Inv /\ [Next]_vars => Inv'
  BY InvNext
<1>3. Inv /\ CountCovers /\ [Next]_vars => CountCovers'
  BY CountNext
<1> QED BY InvInit, <1>1, <1>2, <1>3, PTL DEF Spec

=============================================================================
