------------------------------ MODULE Matcher ------------------------------
(***************************************************************************)
(* The selector matcher (selectors/selectors.c). It matches from right to  *)
(* left, and from left to right inside :has, with an entry for every item  *)
(* it has come to, in which it remembers the element it is at. What takes  *)
(* a list, like :not, has a nested matcher of its own, which returns into  *)
(* the one around it by the state it was given. Entries and nested         *)
(* matchers are kept from one element of the document to the next.         *)
(*                                                                         *)
(* An action is one call of the state function (selectors->state).         *)
(***************************************************************************)
EXTENDS Selection, SequencesExt, FiniteSetsExt

CONSTANT Searches   \* records: doc, list, order (the elements to be tested),
                    \* first (MATCH_FIRST), stop (the callback returns STOP)

VARIABLES
    search,   \* what is asked, an element of Searches
    left,     \* the elements that lxb_selectors_tree has not come to
    found,    \* the calls of the callback: the element and the selector
    machine   \* state, current, and all entries and nested matchers; 0 is NULL

vars == <<search, left, found, machine>>

-----------------------------------------------------------------------------

doc == search.doc
Items(s) == s.list[s.i]
Item(s) == Items(s)[s.j]

Nested(m) == m.nested[m.current]
Entry(m) == m.entries[Nested(m).entry]

\* The entry x of the current matcher is next.
At(m, x, state) == [m EXCEPT !.nested[m.current].entry = x, !.state = state]

\* The entries behind x and in front of x, the nearest first.
Nexts(m, x) ==
    LET chain[y \in 0 .. Len(m.entries)] ==
            IF y = 0 THEN <<>> ELSE <<y>> \o chain[m.entries[y].next]
    IN  Tail(chain[x])
Prevs(m, x) ==
    LET chain[y \in 0 .. Len(m.entries)] ==
            IF y = 0 THEN <<>> ELSE <<y>> \o chain[m.entries[y].prev]
    IN  Tail(chain[x])

\* The first item of the compound selector that item j belongs to.
CompoundStart(items, j) == Max({1} \cup {k \in 1 .. j : items[k].comb # "close"})

NewEntry(comb, s, n) ==
    [comb |-> comb, sel |-> s, node |-> n, next |-> 0, prev |-> 0, following |-> 0, nested |-> 0]

\* An entry for each item of the last compound of complex selector i, the last
\* item first; matching begins with the newest. All of them are "close".
MakeFirst(m, list, i) ==
    LET len == Len(list[i])
        low == CompoundStart(list[i], len)
        base == Len(m.entries)
        New(k) == [NewEntry("close", [list |-> list, i |-> i, j |-> len - k + 1], 0)
                      EXCEPT !.prev = IF k = 1 THEN 0 ELSE base + k - 1,
                             !.next = IF len - k + 1 = low THEN 0 ELSE base + k + 1]
    IN  [m EXCEPT !.entries = @ \o [k \in 1 .. len - low + 1 |-> New(k)]]

\* The same forwards: one entry for the first item.
MakeFirstForward(m, list, i) ==
    [m EXCEPT !.entries = Append(@, NewEntry(list[i][1].comb, [list |-> list, i |-> i, j |-> 1], 0))]

MakeTop(m, list, i, forward) ==
    IF forward THEN MakeFirstForward(m, list, i) ELSE MakeFirst(m, list, i)

\* Entries in front of x for the compound in front of the one that starts at
\* item s.j. The newest gets the combinator between the two.
EntryCreate(m, s, x, n) ==
    LET items == Items(s)
        low == CompoundStart(items, s.j - 1)
        base == Len(m.entries)
        New(k) ==
            LET j == s.j - k IN
            [NewEntry(IF j = low THEN items[s.j].comb ELSE items[j].comb, [s EXCEPT !.j = j], n)
                EXCEPT !.prev = IF k = 1 THEN 0 ELSE base + k - 1,
                       !.next = IF j = low THEN x ELSE base + k + 1]
    IN  [m EXCEPT !.entries = [@ EXCEPT ![x].prev = base + s.j - low]
                                \o [k \in 1 .. s.j - low |-> New(k)]]

EntryCreateForward(m, s, x, n) ==
    LET t == [s EXCEPT !.j = @ + 1] IN
    [m EXCEPT !.entries = Append([@ EXCEPT ![x].next = Len(m.entries) + 1],
                                 [NewEntry(Item(t).comb, t, n) EXCEPT !.prev = x])]

-----------------------------------------------------------------------------
(* Candidates.                                                             *)

\* What the selector of s has to say about n before any nested matcher runs.
Match(s, n) ==
    LET item == Item(s) IN
    CASE item.type = "simple" -> item.name \in doc.names[n]
      [] item.type = "nth" /\ item.list = <<>> ->
            AnB(item.anb, Cardinality({k \in Siblings(doc, n) : k <= n}))
      [] OTHER -> TRUE

IsNested(s) == Item(s).list # <<>>

\* Where an entry with this combinator may go on from element n.
Candidates(comb, n) ==
    CASE comb = "close"      -> {n}
      [] comb = "descendant" -> Ancestors(doc, n)
      [] comb = "child"      -> {doc.parent[n]} \ {0}
      [] comb = "following"  -> {k \in Siblings(doc, n) : k < n}
      [] comb = "sibling"    -> {k \in Siblings(doc, n) :
                                    k = Max({0} \cup {l \in Siblings(doc, n) : l < n})}

\* Mutant of CandidatesForward: a child that failed is not passed.
CandidatesAgain(comb, n, base) ==
    CASE comb = "close"      -> {n}
      [] comb = "descendant" -> {k \in Nodes(doc) : k > n /\ base \in Ancestors(doc, k)}
      [] comb = "child"      -> {k \in Nodes(doc) : doc.parent[k] = base}
      [] comb = "following"  -> {k \in Siblings(doc, n) : k > n}
      [] comb = "sibling"    -> {k \in Siblings(doc, n) :
                                    k > n /\ \A l \in Siblings(doc, n) : l <= n \/ l >= k}

\* The same forwards; base is the element that the item before is at.
CandidatesForward(comb, n, base) ==
    CASE comb = "close"      -> {n}
      [] comb = "descendant" -> {k \in Nodes(doc) : k > n /\ base \in Ancestors(doc, k)}
      [] comb = "child"      -> IF n = base THEN {k \in Nodes(doc) : doc.parent[k] = n}
                                ELSE {k \in Siblings(doc, n) : k > n}
      [] comb = "following"  -> {k \in Siblings(doc, n) : k > n}
      [] comb = "sibling"    -> {k \in Siblings(doc, n) :
                                    k > n /\ \A l \in Siblings(doc, n) : l <= n \/ l >= k}

ReturnState(type) == CASE type = "not" -> "after_not"
                       [] type = "nth" -> "after_nth_child"
                       [] OTHER -> "after_find"

\* The current entry with a matcher of its own. It is made once; its type stands
\* for the callback and the return state, which the code sets every time.
WithNested(m) ==
    LET x == Nested(m).entry
        item == Item(m.entries[x].sel)
        ahead == item.type = "has"
        made == MakeTop(m, item.list, 1, ahead)
    IN  IF m.entries[x].nested # 0 THEN m
        ELSE [made EXCEPT !.entries[x].nested = Len(m.nested) + 1,
                          !.nested = Append(@, [type |-> item.type, forward |-> ahead,
                              parent |-> m.current, top |-> Len(made.entries),
                              entry |-> 0, first |-> 0, root |-> 0, index |-> 0])]

\* Nested matcher y, with its entry x, begins with element n.
Begin(m, y, n, index) ==
    LET top == m.nested[y].top IN
    [m EXCEPT !.entries[top].node = n, !.current = y, !.state = "find",
              !.nested[y] = [@ EXCEPT !.entry = top, !.first = top, !.root = n, !.index = index]]

\* Mutant of NestedMake: the count goes on from the last element.
NestedMakeCounting(m, n) ==
    LET x == Nested(m).entry
        u == [WithNested(m) EXCEPT !.entries[x].node = n]
        y == u.entries[x].nested
    IN  Begin(u, y, n, u.nested[y].index)

NestedMake(m, n) ==
    LET x == Nested(m).entry
        u == [WithNested(m) EXCEPT !.entries[x].node = n]
    IN  Begin(u, u.entries[x].nested, n, 0)

\* The current entry is at n, if the nested matcher agrees.
Try(m, n) ==
    IF IsNested(Entry(m).sel) THEN NestedMake(m, n)
    ELSE [m EXCEPT !.entries[Nested(m).entry].node = n, !.state = "found_check"]

-----------------------------------------------------------------------------
(* The end of a complex selector.                                          *)

\* The current matcher returns without having found anything.
Exit(m) == [m EXCEPT !.state = IF m.current = 1 THEN "idle" ELSE ReturnState(Nested(m).type)]

\* The next complex selector of the list, of which x is the outermost entry.
NextList(m, x) ==
    LET s == m.entries[x].sel
        made == MakeTop(m, s.list, s.i + 1, Nested(m).forward)
        u == IF m.entries[x].following # 0 THEN m
             ELSE [made EXCEPT !.entries[x].following = Len(made.entries)]
        y == u.entries[x].following
    IN  IF s.i = Len(s.list) THEN Exit(m)
        ELSE [At(u, y, "find") EXCEPT !.entries[y].node = Nested(m).root,
                                      !.nested[m.current].first = y]

\* The callbacks of the nested matchers, and the return to the one around.
FoundNested(m) ==
    LET back == [m EXCEPT !.current = Nested(m).parent] IN
    CASE Nested(m).type \in {"is", "has"} -> [back EXCEPT !.state = "found_check"]
      [] Nested(m).type = "not" -> [back EXCEPT !.state = "not_found"]
      [] Nested(m).type = "nth" -> [back EXCEPT !.state = "nth_child_found",
                                                !.nested[m.current].index = @ + 1]

\* lxb_selectors_state_found, at the entry where the last item matched.
Found(m) ==
    IF m.current # 1 THEN machine' = FoundNested(m) /\ UNCHANGED <<left, found>>
    ELSE /\ found' = Append(found, <<Nested(m).root, Entry(m).sel.i>>)
         /\ machine' = IF search.first \/ search.stop THEN [m EXCEPT !.state = "idle"]
                       ELSE NextList(m, Nested(m).first)
         /\ left' = IF search.stop THEN <<>> ELSE left

Step(m) == machine' = m /\ UNCHANGED <<left, found>>

-----------------------------------------------------------------------------
(* The state functions.                                                    *)

\* The nearest entry of the chain that may find another element, or 0.
Nearest(m, chain, passed) ==
    LET i == SelectInSeq(chain, LAMBDA x : m.entries[x].comb \notin passed)
    IN  IF i = 0 THEN 0 ELSE chain[i]

\* Back to entry x, or on to the next selector of the list if there is none.
Retry(m, x, outermost) == IF x = 0 THEN NextList(m, outermost) ELSE At(m, x, "find")

In(state, forward) ==
    /\ machine.state = state
    /\ Nested(machine).forward = forward
    /\ UNCHANGED search

StateFind ==
    /\ In("find", FALSE)
    /\ LET e == Entry(machine)
           fit == {n \in Candidates(e.comb, e.node) : Match(e.sel, n)}
       IN  Step(IF fit = {} THEN [machine EXCEPT !.state = "not_found"]
                ELSE Try(machine, Max(fit)))

StateFindForward ==
    /\ In("find", TRUE)
    /\ LET x == Nested(machine).entry
           e == Entry(machine)
           prevs == Prevs(machine, x)
           base == IF e.prev # 0 THEN machine.entries[e.prev].node ELSE Nested(machine).root
           fit == {n \in CandidatesForward(e.comb, e.node, base) : Match(e.sel, n)}
       IN  Step(IF fit # {} THEN Try(machine, Min(fit))
                ELSE Retry(machine, Nearest(machine, prevs, {"close", "sibling"}),
                           Last(<<x>> \o prevs)))

\* The entry further left, or the outermost compound is done.
StateFoundCheck ==
    /\ In("found_check", FALSE)
    /\ LET x == Nested(machine).entry
           e == Entry(machine)
           s == [e.sel EXCEPT !.j = CompoundStart(Items(e.sel), @)]
           made == EntryCreate(machine, s, x, e.node)
       IN  IF e.prev # 0
           THEN Step([At(machine, e.prev, "find") EXCEPT !.entries[e.prev].node = e.node])
           ELSE IF s.j = 1 THEN Found(machine)
           ELSE Step(At(made, Len(made.entries), "find"))

StateFoundCheckForward ==
    /\ In("found_check", TRUE)
    /\ LET x == Nested(machine).entry
           e == Entry(machine)
           made == EntryCreateForward(machine, e.sel, x, e.node)
       IN  IF e.next # 0
           THEN Step([At(machine, e.next, "find") EXCEPT !.entries[e.next].node = e.node])
           ELSE IF e.sel.j = Len(Items(e.sel)) THEN Found(machine)
           ELSE Step(At(made, Len(made.entries), "find"))

\* Mutant of Passed: an ancestor is not looked for again.
PassedAncestor == {"close", "sibling", "child", "descendant"}

\* Combinators that lead to one element only.
Passed == {"close", "sibling", "child"}

StateNotFound ==
    /\ In("not_found", FALSE)
    /\ LET x == Nested(machine).entry
           nexts == Nexts(machine, x)
       IN  Step(Retry(machine, Nearest(machine, nexts, Passed), Last(<<x>> \o nexts)))

StateNotFoundForward ==
    /\ In("not_found", TRUE)
    /\ LET x == Nested(machine).entry
           Prev(y) == machine.entries[y].prev
           again[y \in DOMAIN machine.entries] ==
               LET z == Nearest(machine, <<y>> \o Prevs(machine, y), {"close"}) IN
               IF Prev(y) = 0 THEN 0
               ELSE IF machine.entries[z].comb # "sibling" THEN z
               ELSE IF Prev(z) = 0 THEN 0 ELSE again[Prev(z)]
       IN  Step(Retry(machine, again[x], Last(<<x>> \o Prevs(machine, x))))

StateAfterFind ==
    /\ In("after_find", Nested(machine).forward)
    /\ Step([machine EXCEPT !.current = Nested(machine).parent, !.state = "not_found"])

StateAfterNot ==
    /\ In("after_not", FALSE)
    /\ Step([machine EXCEPT !.current = Nested(machine).parent, !.state = "found_check"])

\* The count goes on at the element in front of n with nested matcher y, at the
\* entry where it stands, or is complete.
CountOn(m, y) ==
    LET n == m.nested[y].root
        prevs == {k \in Siblings(doc, n) : k < n}
        back == [m EXCEPT !.current = m.nested[y].parent]
        entry == m.nested[y].entry
    IN  IF prevs = {}
        THEN [back EXCEPT !.state = IF AnB(Item(Entry(back).sel).anb, m.nested[y].index)
                                    THEN "found_check" ELSE "not_found"]
        ELSE [m EXCEPT !.current = y, !.nested[y].root = Max(prevs),
                       !.entries[entry].node = Max(prevs), !.state = "find"]

StateAfterNthChild ==
    /\ In("after_nth_child", FALSE)
    /\ Step(IF Nested(machine).index = 0
            THEN [machine EXCEPT !.current = Nested(machine).parent, !.state = "not_found"]
            ELSE CountOn(machine, machine.current))

StateNthChildFound ==
    /\ machine.state = "nth_child_found"
    /\ Step(CountOn(machine, Entry(machine).nested))
    /\ UNCHANGED search

\* lxb_selectors_run for the next element of lxb_selectors_tree.
Run ==
    /\ machine.state = "idle" /\ left # <<>>
    /\ machine' = Begin(machine, 1, Head(left), 0)
    /\ left' = Tail(left)
    /\ UNCHANGED <<search, found>>

-----------------------------------------------------------------------------

\* lxb_selectors_find and lxb_selectors_match_node.
Init ==
    /\ search \in Searches
    /\ left = search.order
    /\ found = <<>>
    /\ LET m == [state |-> "idle", current |-> 1, entries |-> <<>>, nested |-> <<>>]
           made == MakeFirst(m, search.list, 1)
       IN  machine = [made EXCEPT !.nested =
                        <<[type |-> "top", forward |-> FALSE, parent |-> 0,
                           top |-> Len(made.entries), entry |-> Len(made.entries),
                           first |-> Len(made.entries), root |-> 0, index |-> 0]>>]

Next ==
    \/ Run \/ StateFind \/ StateFindForward \/ StateFoundCheck \/ StateFoundCheckForward
    \/ StateNotFound \/ StateNotFoundForward \/ StateAfterFind \/ StateAfterNot
    \/ StateAfterNthChild \/ StateNthChildFound

\* The loops of lxb_selectors_tree and lxb_selectors_run go on by themselves.
Spec == Init /\ [][Next]_vars /\ WF_vars(Next)

-----------------------------------------------------------------------------
(* Properties.                                                             *)

\* The call has returned.
Over == machine.state = "idle" /\ left = <<>>

TypeOK ==
    LET entry == 1 .. Len(machine.entries)
        nested == 1 .. Len(machine.nested)
        node == {0} \cup Nodes(doc)
    IN
        /\ left \in Seq(Nodes(doc)) /\ found \in Seq(Nodes(doc) \X DOMAIN search.list)
        /\ machine.current \in nested
        /\ \A x \in entry : LET e == machine.entries[x] IN
              /\ e.node \in node /\ e.sel.i \in DOMAIN e.sel.list /\ e.sel.j \in DOMAIN Items(e.sel)
              /\ {e.next, e.prev, e.following} \subseteq entry \cup {0} /\ e.nested \in nested \cup {0}
        /\ \A y \in nested : LET q == machine.nested[y] IN
              /\ {q.entry, q.first, q.top} \subseteq entry /\ q.root \in node
              /\ q.parent \in 0 .. y - 1 /\ q.index \in 0 .. Len(doc.parent)

\* The callback is called for what the selectors match, in the order of the
\* document, once for each selector of the list (or for the first of them), and
\* for all of it by the time the call returns: no backtracking misses an element
\* and no entry remembers something of an element that was tested before.
FindsWhatMatches ==
    LET all == Selected(doc, search.list, search.order)
        once == SelectSeq(all, LAMBDA x : ~\E i \in 1 .. x[2] - 1 : <<x[1], i>> \in ToSet(all))
        expected == IF search.first THEN once ELSE all
        Right(x) == LET c == search.list[x[2]] IN Matches(doc, c, Len(c), x[1])
    IN  /\ \A k \in DOMAIN found : Right(found[k])
        /\ Over => found = IF search.stop /\ expected # <<>> THEN <<expected[1]>> ELSE expected

\* The state functions never call each other in a circle.
Returns == <>Over
=============================================================================
