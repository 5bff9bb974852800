----------------------------- MODULE Formatting -----------------------------
(***************************************************************************)
(* The stack of open elements and the list of active formatting elements,  *)
(* as the insertion modes "in body" and "in table" of the HTML parser use  *)
(* them (html/tree.c, html/tree/open_elements.c,                           *)
(* html/tree/active_formatting.c, html/tree/insertion_mode).               *)
(*                                                                         *)
(* An action is the handling of one token, but for the adoption agency     *)
(* algorithm, which is one action for each turn of its outer loop.         *)
(*                                                                         *)
(* Of the document the model keeps, for each element the parser may still  *)
(* reach, the nearest element around it that the parser may still reach.   *)
(***************************************************************************)
EXTENDS Integers, SequencesExt, FiniteSetsExt

CONSTANTS
    Node,        \* the elements, numbers; one that is forgotten is used again
    Vocabulary,  \* records: the tags of a document, how many elements it has
                 \* open and how many of them active
    Marker, NULL

ASSUME NodeAssumption ==
    /\ IsFiniteSet(Node) /\ {1, 2} \subseteq Node
    /\ Marker \notin Node \cup {NULL} /\ NULL \notin Node

\* Enough for a handler that opens every entry anew, one of whose own behind
\* that, with what it has taken off the stack still there.
ASSUME VocabularyAssumption ==
    \A v \in Vocabulary : /\ v.open \in Nat /\ v.open >= 2 /\ v.active \in Nat
                          /\ v.open + 3 * v.active + 5 <= Cardinality(Node)

VARIABLES
    words,  \* what the document is made of, an element of Vocabulary
    tree,   \* open, active: the two lists; tag, above: of every element
    mode,   \* tree->mode
    job     \* the adoption agency algorithm in progress

vars == <<words, tree, mode, job>>

-----------------------------------------------------------------------------
(* The tags: one or two for every way the parser treats one.               *)

FormattingTag == {"b", "i", "s"}
AnyFormatting == FormattingTag \cup {"a", "nobr"}
BlockTag == {"div", "p"}
PlainTag == {"span"}
Special == BlockTag \cup {"html", "body", "object", "table"}

Scope == {"html", "object", "table"}

Tag == AnyFormatting \cup PlainTag \cup Special

ASSUME NullIsNoTag == NULL \notin Tag

MaxEqual == 3   \* equal elements behind the last marker
MaxInner == 3   \* elements kept by one turn of the outer loop
MaxOuter == 8   \* turns of the outer loop

\* The algorithm in progress: the handler that called it, the tag it is for, the
\* element that handler still has a pointer to, and the turn that comes next.
Job == [caller: {"end", "a", "nobr"}, tag: AnyFormatting, node: Node \cup {NULL},
        turn: 1 .. MaxOuter]

ASSUME NullIsNoJob == NULL \notin Job

-----------------------------------------------------------------------------
(* The two lists.                                                          *)

\* Where x is in s for the last time, or 0.
LastAt(s, x) == Max({i \in DOMAIN s : s[i] = x} \cup {0})

RemoveByNode(s, x) == RemoveAt(s, LastAt(s, x))

Current(t) == Last(t.open)

\* The last element of the list of tag g that no marker hides, or 0.
BetweenLastMarker(t, g) ==
    Max({i \in DOMAIN t.active :
            i > LastAt(t.active, Marker) /\ t.tag[t.active[i]] = g} \cup {0})

\* Nothing above place i of the stack hides it.
InScopeAt(t, i) == \A j \in i + 1 .. Len(t.open) : t.tag[t.open[j]] \notin Scope

\* Where the innermost element of tag g is, if it is in scope, or 0.
InScope(t, g) ==
    Max({i \in DOMAIN t.open : t.tag[t.open[i]] = g /\ InScopeAt(t, i)} \cup {0})

\* The stack without place i and all above it.
PopFrom(t, i) == [t EXCEPT !.open = SubSeq(@, 1, i - 1)]

\* Of the elements that an end tag implies the model has only p.
ImpliedEndTags(t, except) ==
    LET p == IF except = "p" THEN {} ELSE {"p"}
        kept == Max({i \in DOMAIN t.open : t.tag[t.open[i]] \notin p})
    IN  [t EXCEPT !.open = SubSeq(@, 1, kept)]

-----------------------------------------------------------------------------
(* Insertion.                                                              *)

Fresh(t) == CHOOSE n \in Node : t.tag[n] = NULL

\* in_table_anything_else raises the flag for as long as in_body runs.
FosterParenting == mode = "in_table"

\* What an element meant for target is put into.
AppropriatePlace(t, target) ==
    IF ~(FosterParenting /\ t.tag[target] = "table") THEN target
    ELSE LET i == Max({j \in DOMAIN t.open : t.tag[t.open[j]] = "table"} \cup {0})
         IN  IF i = 0 THEN t.open[1]
             ELSE IF t.above[t.open[i]] # NULL THEN t.above[t.open[i]]
             ELSE t.open[i - 1]

InsertElement(t, g) ==
    LET n == Fresh(t) IN
    [t EXCEPT !.open = Append(@, n), !.tag[n] = g,
              !.above[n] = AppropriatePlace(t, Current(t))]

\* Mutant of Reconstruct: it only looks at the last entry.
ReconstructLast(t) ==
    LET n == Len(t.active) IN
    IF n = 0 \/ t.active[n] \in {Marker} \cup ToSet(t.open) THEN t
    ELSE LET u == InsertElement(t, t.tag[t.active[n]])
         IN  [u EXCEPT !.active[n] = Current(u)]

\* Every entry behind the last one that is a marker or open gets a new element.
Reconstruct(t) ==
    LET from == Max({i \in DOMAIN t.active :
                        t.active[i] = Marker \/ t.active[i] \in ToSet(t.open)} \cup {0})
        Renew(s, i) ==
            LET u == InsertElement(s, s.tag[s.active[i]])
            IN  [u EXCEPT !.active[i] = Current(u)]
        n == Len(t.active) - from
        renewed[k \in 0 .. n] == IF k = 0 THEN t ELSE Renew(renewed[k - 1], from + k)
    IN  renewed[n]

\* Mutant of PushWithCheck: nobody leaves.
PushUnchecked(t) == [t EXCEPT !.active = Append(@, Current(t))]

\* The current node becomes an entry; the first of three equal ones leaves.
PushWithCheck(t) ==
    LET n == Current(t)
        equal == {i \in DOMAIN t.active : /\ i > LastAt(t.active, Marker)
                                          /\ t.tag[t.active[i]] = t.tag[n]}
        left == IF Cardinality(equal) >= MaxEqual THEN RemoveAt(t.active, Min(equal))
                ELSE t.active
    IN  [t EXCEPT !.active = Append(left, n)]

StartFormatting(t, g) == PushWithCheck(InsertElement(Reconstruct(t), g))

\* Any other end tag: down the stack to the element, but not past a special one.
AnythingElseClosed(t, g) ==
    LET i == Max({j \in DOMAIN t.open :
                    t.tag[t.open[j]] = g \/ t.tag[t.open[j]] \in Special})
    IN  IF t.tag[t.open[i]] = g THEN PopFrom(t, i) ELSE t

ClosePElement(t) ==
    LET u == ImpliedEndTags(t, "p") IN PopFrom(u, InScope(u, "p"))

-----------------------------------------------------------------------------
(* The adoption agency algorithm.                                          *)

\* State 14.3 to 14.10 for the element at place k of the stack, the j-th above
\* the furthest block. s.mark counts the entries in front of the bookmark.
Climb(s, k, j, block) ==
    LET t == s.tree
        n == t.open[k]
        at == LastAt(t.active, n)
        c == Fresh(t)
    IN  IF at = 0 THEN [s EXCEPT !.tree.open = RemoveByNode(@, n)]
        ELSE IF j > MaxInner THEN
            [s EXCEPT !.tree.open = RemoveByNode(@, n), !.tree.active = RemoveByNode(@, n)]
        ELSE [tree |-> [t EXCEPT !.open[k] = c, !.active[at] = c, !.tag[c] = t.tag[n],
                                 !.above[s.last] = c],
              last |-> c,
              mark |-> IF s.last = block THEN at ELSE s.mark]

\* Mutant of Adopt: e is not put into the furthest block.
AdoptLoose(t, last, ancestor, block, e, g) ==
    LET moved == [t.above EXCEPT ![last] = AppropriatePlace(t, ancestor)] IN
    [t EXCEPT !.tag[e] = g,
              !.above = [n \in Node |-> IF moved[n] = block THEN e ELSE moved[n]]]

\* State 15 to 18: last goes where the formatting element was, and e comes
\* between the furthest block and what is in it.
Adopt(t, last, ancestor, block, e, g) ==
    LET moved == [t.above EXCEPT ![last] = AppropriatePlace(t, ancestor)] IN
    [t EXCEPT !.tag[e] = g,
              !.above = [n \in Node |-> IF n = e THEN block
                                        ELSE IF moved[n] = block THEN e ELSE moved[n]]]

\* Mutant of Replaced: the bookmark is taken for the place to clear.
ReplacedAtMark(active, index, mark, e) ==
    LET left == IF mark + 1 <= Len(active) THEN RemoveAt(active, mark + 1) ELSE active
    IN  InsertAt(left, Min({mark, Len(left)}) + 1, e)

\* State 19, by the two positions as they were computed.
Replaced(active, index, mark, e) ==
    LET left == IF index <= Len(active) THEN RemoveAt(active, index) ELSE active
        m == Min({mark, Len(left)})
    IN  InsertAt(left, m + 1, e)

\* State 20.
Restacked(open, f, block, e) ==
    LET left == RemoveByNode(open, f) IN InsertAt(left, LastAt(left, block) + 1, e)

\* State 12 to 20 for the entry at place index, which is at place at of the
\* stack, with the furthest block at place k.
Rearrange(t, index, at, k) ==
    LET f == t.active[index]
        block == t.open[k]
        n == k - at - 1
        climbed[j \in 0 .. n] ==
            IF j = 0 THEN [tree |-> t, last |-> block, mark |-> index - 1]
            ELSE Climb(climbed[j - 1], k - j, j, block)
        inner == climbed[n]
        e == Fresh(inner.tree)
        u == Adopt(inner.tree, inner.last, t.open[at - 1], block, e, t.tag[f])
    IN  [u EXCEPT !.active = Replaced(@, index, inner.mark, e),
                  !.open = Restacked(@, f, block, e)]

\* One turn of the outer loop, and how it ends: with another one, with false,
\* or with true.
Turn(t, g) ==
    LET index == BetweenLastMarker(t, g)
        f == t.active[index]
        at == LastAt(t.open, f)
        blocks == {k \in at .. Len(t.open) : t.tag[t.open[k]] \in Special}
    IN  IF index = 0 THEN [tree |-> t, ends |-> "true"]
        ELSE IF at = 0 THEN
            [tree |-> [t EXCEPT !.active = RemoveByNode(@, f)], ends |-> "false"]
        ELSE IF ~InScopeAt(t, at) THEN [tree |-> t, ends |-> "false"]
        ELSE IF blocks = {} THEN
            [tree |-> [PopFrom(t, at) EXCEPT !.active = RemoveByNode(@, f)],
             ends |-> "false"]
        ELSE [tree |-> Rearrange(t, index, at, Min(blocks)), ends |-> "again"]

\* What the handlers that call the algorithm do once it has returned.
Return(t, j, ends) ==
    LET other == IF ends = "true" THEN AnythingElseClosed(t, j.tag) ELSE t IN
    CASE j.caller = "end"  -> other
      [] j.caller = "nobr" -> StartFormatting(other, j.tag)
      [] j.caller = "a" ->
            StartFormatting([t EXCEPT !.active = RemoveByNode(@, j.node),
                                      !.open = RemoveByNode(@, j.node)], j.tag)

-----------------------------------------------------------------------------
(* The tokens.                                                             *)

Elements(s) == ToSet(s) \ {Marker, NULL}

\* n and what is around it.
Around(above, n) ==
    LET up[m \in Node] == {m} \cup IF above[m] = NULL THEN {} ELSE up[above[m]]
    IN  up[n]

\* The nearest element around n that is in known.
Nearest(above, known, n) ==
    LET over == (Around(above, n) \ {n}) \cap known
    IN  IF over = {} THEN NULL ELSE CHOOSE m \in over : over \subseteq Around(above, m)

\* t without the elements that nothing of the parser points at any more.
Settled(t, kept) ==
    LET known == Elements(t.open) \cup Elements(t.active) \cup ({kept} \ {NULL})
    IN  [t EXCEPT !.tag = [n \in Node |-> IF n \in known THEN @[n] ELSE NULL],
                  !.above = [n \in Node |-> IF n \in known THEN Nearest(t.above, known, n)
                                            ELSE NULL]]

\* A handler that leaves t behind; the model follows documents up to a size.
Handled(t) ==
    /\ Len(t.open) <= words.open
    /\ Len(t.active) <= words.active
    /\ tree' = Settled(t, NULL)
    /\ UNCHANGED words

\* The handler calls the algorithm; State 2 may already be all of it.
CallAdoption(t, j) ==
    IF t.tag[Current(t)] = j.tag /\ Current(t) \notin ToSet(t.active)
    THEN /\ tree' = Settled(Return(PopFrom(t, Len(t.open)), j, "false"), NULL)
         /\ UNCHANGED <<words, mode, job>>
    ELSE /\ tree' = Settled(t, j.node)
         /\ job' = j
         /\ UNCHANGED <<words, mode>>

Caller(c, g, n) == [caller |-> c, tag |-> g, node |-> n, turn |-> 1]

Quiet == job = NULL
Token(g) == Quiet /\ g \in words.tags

\* An end tag may reconstruct all entries and open one element.
RoomToReconstruct == Len(tree.open) + Len(tree.active) < words.open

StartTag(g) ==
    /\ Token(g) /\ g \in FormattingTag
    /\ Handled(StartFormatting(tree, g))
    /\ UNCHANGED <<mode, job>>

StartA ==
    /\ Token("a") /\ RoomToReconstruct /\ Len(tree.active) < words.active
    /\ LET i == BetweenLastMarker(tree, "a") IN
       IF i # 0 THEN CallAdoption(tree, Caller("a", "a", tree.active[i]))
       ELSE Handled(StartFormatting(tree, "a")) /\ UNCHANGED <<mode, job>>

StartNobr ==
    /\ Token("nobr") /\ RoomToReconstruct /\ Len(tree.active) < words.active
    /\ LET t == Reconstruct(tree) IN
       IF InScope(t, "nobr") # 0 THEN CallAdoption(t, Caller("nobr", "nobr", NULL))
       ELSE Handled(PushWithCheck(InsertElement(t, "nobr"))) /\ UNCHANGED <<mode, job>>

StartPlain(g) ==
    /\ Token(g) /\ g \in PlainTag
    /\ Handled(InsertElement(Reconstruct(tree), g))
    /\ UNCHANGED <<mode, job>>

ClosedP(t) == IF InScope(t, "p") # 0 THEN ClosePElement(t) ELSE t

StartBlock(g) ==
    /\ Token(g) /\ g \in BlockTag
    /\ Handled(InsertElement(ClosedP(tree), g))
    /\ UNCHANGED <<mode, job>>

StartObject ==
    /\ Token("object")
    /\ Handled([InsertElement(Reconstruct(tree), "object")
                    EXCEPT !.active = Append(@, Marker)])
    /\ UNCHANGED <<mode, job>>

\* What reset_insertion_mode_appropriately finds on this stack.
ResetMode(t) ==
    IF \E i \in DOMAIN t.open : t.tag[t.open[i]] = "table" THEN "in_table" ELSE "in_body"

\* In a table the open one, of which there is one at most, is closed
\* first and the token handled again.
StartTable ==
    /\ Token("table")
    /\ LET i == InScope(tree, "table")
           t == IF mode = "in_table" THEN PopFrom(tree, i) ELSE tree
       IN  /\ mode = "in_table" => i # 0
           /\ Handled(InsertElement(ClosedP(t), "table"))
    /\ mode' = "in_table"
    /\ UNCHANGED job

Text ==
    /\ Quiet
    /\ Handled(Reconstruct(tree))
    /\ UNCHANGED <<mode, job>>

EndFormatting(g) ==
    /\ Token(g) /\ g \in AnyFormatting
    /\ CallAdoption(tree, Caller("end", g, NULL))

EndPlain(g) ==
    /\ Token(g) /\ g \in PlainTag
    /\ Handled(AnythingElseClosed(tree, g))
    /\ UNCHANGED <<mode, job>>

EndDiv ==
    /\ Token("div") /\ InScope(tree, "div") # 0
    /\ LET t == ImpliedEndTags(tree, "") IN Handled(PopFrom(t, InScope(t, "div")))
    /\ UNCHANGED <<mode, job>>

EndP ==
    /\ Token("p")
    /\ Handled(ClosePElement(IF InScope(tree, "p") # 0 THEN tree
                             ELSE InsertElement(tree, "p")))
    /\ UNCHANGED <<mode, job>>

EndObject ==
    /\ Token("object") /\ InScope(tree, "object") # 0
    /\ LET t == ImpliedEndTags(tree, "")
           u == PopFrom(t, InScope(t, "object"))
           m == LastAt(u.active, Marker)
       IN  Handled([u EXCEPT !.active = SubSeq(@, 1, m - 1)])
    /\ UNCHANGED <<mode, job>>

EndTable ==
    /\ Token("table") /\ mode = "in_table" /\ InScope(tree, "table") # 0
    /\ LET t == PopFrom(tree, InScope(tree, "table")) IN
       Handled(t) /\ mode' = ResetMode(t)
    /\ UNCHANGED job

\* Mutant of TurnLeft: one turn more.
TurnLeftOver(j) == j.turn <= MaxOuter

TurnLeft(j) == j.turn < MaxOuter

AdoptionTurn ==
    /\ job # NULL
    /\ LET o == Turn(tree, job.tag) IN
       IF o.ends = "again" /\ TurnLeft(job)
       THEN /\ tree' = Settled(o.tree, job.node)
            /\ job' = [job EXCEPT !.turn = @ + 1]
       ELSE /\ tree' = Settled(Return(o.tree, job, o.ends), NULL)
            /\ job' = NULL
    /\ UNCHANGED <<words, mode>>

-----------------------------------------------------------------------------

Init ==
    /\ words \in Vocabulary
    /\ tree = [open |-> <<1, 2>>, active |-> <<>>,
               tag |-> [n \in Node |-> CASE n = 1 -> "html" [] n = 2 -> "body"
                                         [] OTHER -> NULL],
               above |-> [n \in Node |-> IF n = 2 THEN 1 ELSE NULL]]
    /\ mode = "in_body"
    /\ job = NULL

Next ==
    \/ \E g \in Tag : \/ StartTag(g) \/ StartPlain(g) \/ StartBlock(g)
                      \/ EndFormatting(g) \/ EndPlain(g)
    \/ StartA \/ StartNobr \/ StartObject \/ StartTable \/ Text
    \/ EndDiv \/ EndP \/ EndObject \/ EndTable
    \/ AdoptionTurn

Spec == Init /\ [][Next]_vars
-----------------------------------------------------------------------------
(* Properties.                                                             *)

\* Every list holds elements the parser knows, none of them twice, and the
\* algorithm takes no more than eight turns.
TypeOK ==
    /\ words \in Vocabulary
    /\ tree \in [open: Seq(Node), active: Seq(Node \cup {Marker}),
                 tag: [Node -> Tag \cup {NULL}], above: [Node -> Node \cup {NULL}]]
    /\ mode \in {"in_body", "in_table"}
    /\ job \in {NULL} \cup Job
    /\ \A n \in Elements(tree.open) \cup Elements(tree.active) : tree.tag[n] # NULL
    /\ IsInjective(tree.open)
    /\ \A i, j \in DOMAIN tree.active :
          tree.active[i] = tree.active[j] /\ tree.active[i] # Marker => i = j

\* The stack is a way down the document: every open element lies inside the one
\* below it on the stack or, behind a table, with the table in the same element.
\* The algorithm moves nodes without any check; this is what keeps it from
\* moving one into itself and from losing a part of the document.
OpenNested ==
    \A i \in 2 .. Len(tree.open) :
        LET below == tree.open[i - 1]
            around == Around(tree.above, tree.open[i])
        IN
        \/ below \in around
        \/ tree.tag[below] = "table" /\ tree.above[below] \in around

\* Whatever else changes the list, no more than three equal elements are behind
\* the last marker (active_formatting_push_with_check_dupl looks when it adds one).
AtMostThreeEqual ==
    \A g \in AnyFormatting :
        Cardinality({i \in DOMAIN tree.active :
                        /\ i > LastAt(tree.active, Marker)
                        /\ tree.tag[tree.active[i]] = g}) <= MaxEqual

\* Text is put where every element of the list is open that no marker hides.
\* active_formatting_reconstruct_elements stops at the first open one it meets
\* and takes all in front of that one to be open as well.
AllReopened ==
    [][Text => \A i \in DOMAIN tree'.active :
            i > LastAt(tree'.active, Marker) => tree'.active[i] \in ToSet(tree'.open)]_vars

\* The algorithm takes another turn.
TurnsAgain == job # NULL /\ job' # NULL

\* A turn takes the formatting element off the list, and else only elements that
\* are on the stack between it and the furthest block: the position in the list
\* that it computed (State 6) still fits when it uses it (State 19), after a loop
\* that takes entries off. It need not when one of those, further than three from
\* the block, stands in front of the formatting element: an entry behind moves up.
OnlyTheElementLeaves ==
    [][TurnsAgain =>
        LET index == BetweenLastMarker(tree, job.tag)
            f == tree.active[index]
            at == LastAt(tree.open, f)
            block == Min({k \in at .. Len(tree.open) : tree.tag[tree.open[k]] \in Special})
            gone == Elements(tree.active) \ Elements(tree'.active)
        IN  (\A k \in at + 1 .. block - 1 - MaxInner :
                LastAt(tree.active, tree.open[k]) \notin 1 .. index - 1)
            => /\ f \in gone
               /\ gone \ {f} \subseteq {tree.open[k] : k \in at + 1 .. block - 1}]_vars
=============================================================================
