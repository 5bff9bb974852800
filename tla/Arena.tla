------------------------------- MODULE Arena -------------------------------
(***************************************************************************)
(* The memory arena of lexbor/core/mraw.c over the chunks of mem.c.  Every *)
(* block has its size in a header before its data; blocks that are freed   *)
(* go to a cache (SizeCache) and are never split or joined again.  Lengths *)
(* are in units of the alignment, as all of them are in the code.          *)
(***************************************************************************)
EXTENDS Integers, Sequences, FiniteSets

CONSTANTS
    Handle,     \* the pointers that callers hold
    Size,       \* the sizes they ask for
    Meta,       \* the size of a header
    MinSize,    \* chunk_min_size
    MaxChunks,  \* the malloc of a further chunk fails
    MaxRefs,    \* bounds ref_count, which may grow without end
    Cuts,       \* <<from, to>>: how callers make a block smaller that is not the last
    NULL

ASSUME SizeAssumption == Size \subseteq Nat
ASSUME MetaAssumption == Meta \in Nat \ {0} /\ MinSize \in Nat /\ MinSize > Meta
ASSUME CutsAssumption == Cuts \subseteq Nat \X Nat
ASSUME BoundAssumption == MaxChunks \in Nat \ {0} /\ MaxRefs \in Nat

VARIABLES
    chunks, \* the size and the length in use of each; the last is the current
    used,   \* the block of each handle: chunk, offset of its data, size in its header
    free,   \* the blocks in the cache
    refs    \* ref_count

vars == <<chunks, used, free, refs>>

BlockType == [chunk : Nat, at : Nat, size : Nat]

\* What is taken from the cache is what its specification allows.
Cache == INSTANCE SizeCache WITH Item <- BlockType, held <- free, last <- NULL

ASSUME NullAssumption == NULL \notin BlockType

Block(i, at, n) == [chunk |-> i, at |-> at, size |-> n]

-----------------------------------------------------------------------------
(* lexbor_mraw_alloc.  Each operator is the set of the outcomes that the   *)
(* call may have: chunks, cache and block, which is NULL if memory is out. *)

Outcome(c, f, b) == [chunks |-> c, free |-> f, block |-> b]

\* lexbor_mem_chunk_init, and n of it in use.
NewChunk(n) == [size |-> IF n > MinSize THEN n + MinSize ELSE MinSize, length |-> n]

\* Mutant of TailSaved: a tail too short for a header is saved as well.
TailSavedAlways(c, f) ==
    LET k == Len(c)
    IN  f \cup {Block(k, c[k].length + Meta, c[k].size - c[k].length - Meta)}

\* The cache with what is left of the current chunk.
TailSaved(c, f) ==
    LET k    == Len(c)
        rest == c[k].size - c[k].length
    IN  IF rest > Meta THEN f \cup {Block(k, c[k].length + Meta, rest - Meta)} ELSE f

\* The chunks when the tail of the current one has been saved.
Filled(c) ==
    LET k == Len(c)
    IN  IF c[k].size - c[k].length > Meta
        THEN [c EXCEPT ![k].length = c[k].size] ELSE c

\* lexbor_mraw_mem_alloc of a block with its header.
FromChunks(c, f, n) ==
    LET k    == Len(c)
        cur  == c[k]
        need == n + Meta
    IN  IF cur.length + need <= cur.size
        THEN {Outcome([c EXCEPT ![k].length = @ + need], f,
                      Block(k, cur.length + Meta, n))}
        ELSE IF cur.length = 0
        THEN {Outcome([c EXCEPT ![k] = NewChunk(need)], f, Block(k, Meta, n))}
        ELSE {Outcome(Filled(c), TailSaved(c, f), NULL)} \cup
             IF k = MaxChunks THEN {}
             ELSE {Outcome(Append(Filled(c), NewChunk(need)), TailSaved(c, f),
                           Block(k + 1, Meta, n))}

Allocated(c, f, n) ==
    LET fit == Cache!Closest(f, n)
    IN  IF fit # {} THEN {Outcome(c, f \ {b}, b) : b \in fit}
        ELSE FromChunks(c, f, n)

-----------------------------------------------------------------------------
(* The actions.                                                            *)

Init ==
    /\ chunks = <<[size |-> MinSize, length |-> 0]>>
    /\ used = [h \in Handle |-> NULL]
    /\ free = {}
    /\ refs = 0

Alloc(h, n) ==
    /\ used[h] = NULL /\ refs < MaxRefs
    /\ \E o \in Allocated(chunks, free, n) :
         /\ chunks' = o.chunks
         /\ free' = o.free
         /\ used' = [used EXCEPT ![h] = o.block]
         /\ refs' = IF o.block = NULL THEN refs ELSE refs + 1

Free(h) ==
    /\ used[h] # NULL
    /\ free' = free \cup {used[h]}
    /\ used' = [used EXCEPT ![h] = NULL]
    /\ refs' = refs - 1
    /\ UNCHANGED chunks

K == Len(chunks)

\* The block is the last one in the current chunk.
IsTail(b) == b.chunk = K /\ b.at + b.size = chunks[K].length

\* Whether the current chunk has room for the tail b to become n.
HasRoom(b, n) == chunks[K].size > b.at + n

\* Mutant of Resize: a tail that is given up leaves its header in the chunk.
ResizeKeepsHeader(h, n) ==
    /\ IsTail(used[h]) /\ HasRoom(used[h], n)
    /\ chunks' = [chunks EXCEPT ![K].length = used[h].at + n]
    /\ used' = [used EXCEPT ![h] = IF n = 0 THEN NULL ELSE [@ EXCEPT !.size = n]]
    /\ UNCHANGED <<free, refs>>

\* realloc_tail with room.  A tail that is given up is not taken off refs.
Resize(h, n) ==
    /\ IsTail(used[h]) /\ HasRoom(used[h], n)
    /\ chunks' = [chunks EXCEPT ![K].length = used[h].at + n - IF n = 0 THEN Meta ELSE 0]
    /\ used' = [used EXCEPT ![h] = IF n = 0 THEN NULL ELSE [@ EXCEPT !.size = n]]
    /\ UNCHANGED <<free, refs>>

\* realloc_tail without room, of the only block in the chunk: the chunk grows.
\* (If that fails nothing changes.)
Regrow(h, n) ==
    /\ IsTail(used[h]) /\ ~HasRoom(used[h], n)
    /\ used[h].at = Meta
    /\ chunks' = [chunks EXCEPT ![K] = [size |-> n + Meta + MinSize, length |-> n + Meta]]
    /\ used' = [used EXCEPT ![h].size = n]
    /\ UNCHANGED <<free, refs>>

\* The tail that has no room and is not alone takes the rest of the chunk.
Widens(b, n) == IsTail(b) /\ ~HasRoom(b, n) /\ b.at # Meta

Widened(b, n) ==
    IF Widens(b, n) THEN [b EXCEPT !.size = @ + chunks[K].size - chunks[K].length]
    ELSE b

\* Mutant of WidenedChunks: the chunk does not know of it.
WidenedChunksNot(b, n) == chunks

WidenedChunks(b, n) ==
    IF Widens(b, n) THEN [chunks EXCEPT ![K].length = chunks[K].size] ELSE chunks

\* Mutant of GiveUp: ref_count is taken down twice.
GiveUpTwice(h, n) ==
    /\ ~IsTail(used[h]) /\ n = 0 /\ n < used[h].size
    /\ free' = free \cup {used[h]}
    /\ used' = [used EXCEPT ![h] = NULL]
    /\ refs' = refs - 2
    /\ UNCHANGED chunks

\* To nothing: the block goes to the cache.  (A tail never comes here: it has
\* room for all that is smaller.)
GiveUp(h, n) ==
    /\ ~IsTail(used[h]) /\ n = 0 /\ n < used[h].size
    /\ free' = free \cup {used[h]}
    /\ used' = [used EXCEPT ![h] = NULL]
    /\ refs' = refs - 1
    /\ UNCHANGED chunks

\* Smaller: what is given up becomes a block, if it holds more than a header.
\* The code puts it as far behind the data as what is given up is long.
Split(h, n) ==
    LET b    == used[h]
        diff == b.size - n
    IN  /\ <<b.size, n>> \in Cuts
        /\ ~IsTail(b) /\ n \in 1 .. b.size - 1 /\ diff > Meta
        /\ used' = [used EXCEPT ![h].size = n]
        /\ free' = free \cup {Block(b.chunk, b.at + diff + Meta, diff - Meta)}
        /\ UNCHANGED <<chunks, refs>>

\* Larger, or as large: the data is copied to a new block, and the old one
\* goes to the cache; without memory the caller keeps the old one.
Move(h, n) ==
    LET b == Widened(used[h], n)
    IN  /\ ~IsTail(used[h]) \/ Widens(used[h], n)
        /\ n >= used[h].size
        /\ \E o \in Allocated(WidenedChunks(used[h], n), free, n) :
             /\ chunks' = o.chunks
             /\ used' = [used EXCEPT ![h] = IF o.block = NULL THEN b ELSE o.block]
             /\ free' = IF o.block = NULL THEN o.free ELSE o.free \cup {b}
        /\ UNCHANGED refs

Realloc(h, n) ==
    /\ used[h] # NULL
    /\ \/ Resize(h, n) \/ Regrow(h, n) \/ GiveUp(h, n) \/ Split(h, n) \/ Move(h, n)

\* All blocks are gone; the first chunk stays, with the size it has.
Clean ==
    /\ chunks' = <<[chunks[1] EXCEPT !.length = 0]>>
    /\ used' = [h \in Handle |-> NULL]
    /\ free' = {}
    /\ refs' = 0

Next ==
    \/ \E h \in Handle :
         Free(h) \/ \E n \in Size : Alloc(h, n) \/ Realloc(h, n)
    \/ Clean

Spec == Init /\ [][Next]_vars

-----------------------------------------------------------------------------
(* Properties.                                                             *)

\* Types of the variables.
TypeOK ==
    /\ chunks \in Seq([size : Nat, length : Nat]) /\ K \in 1 .. MaxChunks
    /\ used \in [Handle -> BlockType \cup {NULL}]
    /\ free \subseteq BlockType
    /\ refs \in Int

\* The block with its header lies in the part of its chunk that is in use.
Inside(c, b) ==
    /\ b.chunk \in 1 .. Len(c)
    /\ b.at >= Meta
    /\ b.at + b.size <= c[b.chunk].length

Apart(a, b) ==
    \/ a.chunk # b.chunk
    \/ a.at + a.size <= b.at - Meta
    \/ b.at + b.size <= a.at - Meta

\* Whatever is allocated, resized, moved, freed and refused, no two blocks
\* share a byte, headers included: not two blocks of callers, not a caller's
\* and a cached one, not two cached ones.  None reaches out of its chunk.
BlocksApart ==
    /\ \A i \in 1 .. K : chunks[i].length <= chunks[i].size
    /\ \A b \in free : Inside(chunks, b)
    /\ \A a, b \in free : a # b => Apart(a, b)
    /\ \A h \in Handle : used[h] # NULL =>
         /\ Inside(chunks, used[h])
         /\ \A b \in free : Apart(used[h], b)
         /\ \A g \in Handle \ {h} : used[g] # NULL => Apart(used[h], used[g])

UsedBy == {h \in Handle : used[h] # NULL}

\* No byte of a chunk is lost: what counts as in use belongs to a block that
\* a caller holds or that the cache can hand out.
NothingLost ==
    \A i \in 1 .. K : \A x \in 0 .. chunks[i].length - 1 :
        \E b \in free \cup {used[h] : h \in UsedBy} :
            b.chunk = i /\ x \in b.at - Meta .. b.at + b.size - 1

\* ref_count never falls below the number of blocks that callers hold.  (It may
\* stay above: a tail that is resized to nothing is not taken off.)
CountCovers == refs >= Cardinality(UsedBy)

=============================================================================
