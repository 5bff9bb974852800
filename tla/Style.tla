------------------------------- MODULE Style -------------------------------
(***************************************************************************)
(* The style engine of lexbor/style: which declarations an element has.    *)
(* It never recomputes an element from scratch.  Every element keeps, for  *)
(* every property, the active declaration and the weaker ones behind it,   *)
(* and the events of the tree, of the style attribute and of the document's*)
(* stylesheets add to and take from these lists.                           *)
(*                                                                         *)
(* The AVL tree the lists hang on is used as the map it implements (module *)
(* Avl); selectors are abstracted to the elements they match and, for the  *)
(* descendant combinator, one ancestor they need.                          *)
(***************************************************************************)
EXTENDS Integers, Sequences, SequencesExt, FiniteSets

CONSTANTS
    Elements,   \* the elements, as a sequence: one is only put below an earlier one
    Doc,        \* the document node
    NULL,       \* the null pointer
    Tag,        \* the <style> element
    TagSheets,  \* the stylesheets its text is parsed to, one for each parse
    ApiSheets,  \* the stylesheets the program attaches
    Rules,      \* the rules of every stylesheet
    Properties, \* the ids of the properties
    Texts       \* values of the style attribute: what they declare

Element == Range(Elements)
Sheet == Range(TagSheets) \cup ApiSheets

\* A declaration is a property and whether it is important; a rule says which
\* elements it matches, below which ancestor, and with which specificity.
Declaration == [prop : Properties, important : BOOLEAN]
Rule == [to : SUBSET Element, under : Element \cup {NULL}, sp : 0 .. 9,
         decls : Seq(Declaration)]

ASSUME ElementsAssumption ==
    Elements \in Seq(Element) /\ IsInjective(Elements) /\ Tag \in Element
\* Every parse creates a stylesheet of its own.
ASSUME SheetsAssumption ==
    /\ TagSheets \in Seq(Sheet) /\ TagSheets # <<>> /\ IsInjective(TagSheets)
    /\ Range(TagSheets) \cap ApiSheets = {}
ASSUME RulesAssumption == \A s \in Sheet : Rules[s] \in Seq(Rule)
ASSUME TextsAssumption == \A t \in Texts : t \in Seq(Declaration)
ASSUME NamesAssumption ==
    /\ {Doc, NULL} \cap Element = {} /\ Doc # NULL
    /\ NULL \notin Sheet /\ NULL \notin Texts

VARIABLES
    parent, \* the parent of every element
    style,  \* the declarations of every element, the active one first
    list,   \* the parsed style attribute of every element
    dirty,  \* LXB_DOM_ELEMENT_CONDITION_DIRTY_STYLE
    attr,   \* the style attribute: none, set, or freed while it is linked
    sheets, \* document->css->stylesheets
    parsed  \* how often the <style> element was parsed

vars == <<parent, style, list, dirty, attr, sheets, parsed>>

\* What the steps below work on.
State == [parent |-> parent, style |-> style, dirty |-> dirty,
          sheets |-> sheets, parsed |-> parsed]

-----------------------------------------------------------------------------
(* The lists of declarations.                                              *)

\* The flags of a specificity, above the counts of the selector.
InlineBit == 10
ImportantBit == 20

Inline == <<NULL, 0>>

IsInline(x) == (x.sp % ImportantBit) >= InlineBit

\* Mutant of Weight: the importance is put one place too high.
WeightShifted(sp, d) == sp + (IF d.important THEN 2 * ImportantBit ELSE 0)

Weight(sp, d) == sp + (IF d.important THEN ImportantBit ELSE 0)

\* weak_append: in front of the first one that is not stronger.
WeakAppend(weak, x) ==
    LET weaker == {i \in DOMAIN weak : weak[i].sp <= x.sp}
        at == IF weaker = {} THEN Len(weak) + 1
              ELSE CHOOSE i \in weaker : \A j \in weaker : i <= j
    IN  InsertAt(weak, at, x)

\* Mutant of StyleAppend: the earlier one of two equal declarations wins.
StyleAppendTies(q, x) ==
    IF q = <<>> THEN <<x>>
    ELSE IF x.sp <= Head(q).sp THEN <<Head(q)>> \o WeakAppend(Tail(q), x)
    ELSE <<x>> \o WeakAppend(Tail(q), Head(q))

StyleAppend(q, x) ==
    IF q = <<>> THEN <<x>>
    ELSE IF x.sp < Head(q).sp THEN <<Head(q)>> \o WeakAppend(Tail(q), x)
    ELSE <<x>> \o WeakAppend(Tail(q), Head(q))

\* style_list_append: what an element has, with the declarations of a list, each
\* with its weight.
ListAppend(lists, from, sp, decls) ==
    LET after[i \in 0 .. Len(decls)] ==
            IF i = 0 THEN lists
            ELSE [after[i - 1] EXCEPT ![decls[i].prop] =
                     StyleAppend(@, [from |-> from, sp |-> Weight(sp, decls[i])])]
    IN  after[Len(decls)]

Entries(S, e) == UNION {Range(S.style[e][p]) : p \in Properties}

\* The sequence q without what is in gone.
Without(q, gone) ==
    LET kept[i \in 0 .. Len(q)] ==
            IF i = 0 THEN <<>>
            ELSE IF q[i] \in gone THEN kept[i - 1] ELSE Append(kept[i - 1], q[i])
    IN  kept[Len(q)]

\* e loses the entries in gone.
Drop(S, e, gone) ==
    [S EXCEPT !.style[e] = [p \in Properties |-> Without(S.style[e][p], gone)]]

Styled(S, e) == \E p \in Properties : S.style[e][p] # <<>>

-----------------------------------------------------------------------------
(* Where elements are, and which rules match them.                         *)

\* The node itself and what is above it.
Line(S, e) ==
    LET up[x \in Element] ==
            {x} \cup IF S.parent[x] \in Element THEN up[S.parent[x]]
                                                ELSE {S.parent[x]}
    IN  up[e]

Connected(S, e) == Doc \in Line(S, e)

\* The inclusive descendants of e, in the order of the tree.
Below(S, e) == Without(Elements, {x \in Element : e \notin Line(S, x)})

Matches(S, r, e) ==
    e \in r.to /\ (r.under # NULL => r.under \in Line(S, e) \ {e})

\* What e has, with the rules of a stylesheet that match it.
AttachSheet(S, lists, s, e) ==
    LET after[i \in 0 .. Len(Rules[s])] ==
            IF i = 0 THEN lists
            ELSE LET r == Rules[s][i]
                 IN  IF Matches(S, r, e)
                     THEN ListAppend(after[i - 1], <<s, i>>, r.sp, r.decls)
                     ELSE after[i - 1]
    IN  after[Len(Rules[s])]

\* element_styles_attach: with those of all stylesheets of the document.
AttachSheets(S, lists, e) ==
    LET after[i \in 0 .. Len(S.sheets)] ==
            IF i = 0 THEN lists ELSE AttachSheet(S, after[i - 1], S.sheets[i], e)
    IN  after[Len(S.sheets)]

\* stylesheet_apply: to every element the document leads to.
Apply(S, s) ==
    [S EXCEPT !.style =
        [e \in Element |-> IF Connected(S, e) THEN AttachSheet(S, S.style[e], s, e)
                           ELSE S.style[e]]]

\* style_remove of every rule: what matching elements have of it goes.
Unapply(S, s) ==
    LET from(e) == {x \in Entries(S, e) : /\ x.from[1] = s
                                          /\ Matches(S, Rules[s][x.from[2]], e)}
    IN  [S EXCEPT !.style =
            [e \in Element |-> IF Connected(S, e) THEN Drop(S, e, from(e)).style[e]
                               ELSE S.style[e]]]

\* The loop of stylesheet_remove steps over what moves into the deleted place:
\* of equal neighbours every second one stays.
Strike(q, s) ==
    LET after[i \in 0 .. Len(q)] ==
            IF i = 0 THEN [kept |-> <<>>, struck |-> FALSE]
            ELSE IF q[i] = s /\ ~after[i - 1].struck
                 THEN [after[i - 1] EXCEPT !.struck = TRUE]
                 ELSE [kept |-> Append(after[i - 1].kept, q[i]), struck |-> FALSE]
    IN  after[Len(q)].kept

StylesheetAttach(S, s) == Apply([S EXCEPT !.sheets = Append(@, s)], s)

StylesheetRemove(S, s) == [Unapply(S, s) EXCEPT !.sheets = Strike(@, s)]

-----------------------------------------------------------------------------
(* The steps that run inside the events of the tree.                       *)

\* The <style> element is parsed into a new stylesheet, which is attached.
TagInserted(S) ==
    StylesheetAttach([S EXCEPT !.parsed = @ + 1], TagSheets[S.parsed + 1])

InsertedSteps(S, e) ==
    LET T == IF e = Tag THEN TagInserted(S) ELSE S
        U == IF T.dirty[e] THEN Drop(T, e, {x \in Entries(T, e) : ~IsInline(x)}) ELSE T
    IN  [U EXCEPT !.dirty[e] = FALSE, !.style[e] = AttachSheets(T, @, e)]

TagRemoved(S) ==
    IF S.parsed = 0 THEN S ELSE StylesheetRemove(S, TagSheets[S.parsed])

\* Mutant of RemovedSteps: only the removed element becomes dirty.
RemovedStepsRoot(S, e) ==
    LET T == IF e = Tag THEN TagRemoved(S) ELSE S
    IN  [T EXCEPT !.dirty[e] = @ \/ Styled(T, e)]

\* The removed element becomes dirty if it has styles, and all below it does.
RemovedSteps(S, e) ==
    LET T == IF e = Tag THEN TagRemoved(S) ELSE S
    IN  [T EXCEPT !.dirty =
            [x \in Element |-> \/ T.dirty[x]
                               \/ IF x = e THEN Styled(T, e) ELSE e \in Line(S, x)]]

\* "inserted" for e and everything below it.
Notify(S, e) ==
    LET told == Below(S, e)
        after[i \in 0 .. Len(told)] ==
            IF i = 0 THEN S ELSE InsertedSteps(after[i - 1], told[i])
    IN  after[Len(told)]

Unlinked(S, e) == RemovedSteps([S EXCEPT !.parent[e] = NULL], e)

Linked(S, p, e) == Notify([S EXCEPT !.parent[e] = p], e)

-----------------------------------------------------------------------------
(* The actions.                                                            *)

Becomes(S) ==
    /\ parent' = S.parent
    /\ style' = S.style
    /\ dirty' = S.dirty
    /\ sheets' = S.sheets
    /\ parsed' = S.parsed

Fresh(p) ==
    [parent |-> [e \in Element |-> p],
     style  |-> [e \in Element |-> [q \in Properties |-> <<>>]],
     dirty  |-> [e \in Element |-> FALSE], sheets |-> <<>>, parsed |-> 0]

\* An empty document, or one the parser has just built: its elements were
\* linked without events, the <style> was parsed when it was closed, and its
\* stylesheet was applied when the document was done.
Init ==
    /\ \E S \in {Fresh(NULL), TagInserted(Fresh(Doc))} :
          /\ parent = S.parent /\ style = S.style /\ dirty = S.dirty
          /\ sheets = S.sheets /\ parsed = S.parsed
    /\ list = [e \in Element |-> NULL]
    /\ attr = [e \in Element |-> "none"]

\* The order of Elements rules out cycles, and each parse needs a stylesheet.
Room(p, e) ==
    /\ p = Doc \/ \E i, j \in DOMAIN Elements :
                     i < j /\ Elements[i] = p /\ Elements[j] = e
    /\ p # Tag
    /\ Contains(Below(State, e), Tag) => parsed + 1 <= Len(TagSheets)

InsertChild(p, e) ==
    /\ parent[e] = NULL /\ Room(p, e)
    /\ Becomes(Linked(State, p, e))
    /\ UNCHANGED <<list, attr>>

RemoveElement(e) ==
    /\ parent[e] # NULL
    /\ Becomes(Unlinked(State, e))
    /\ UNCHANGED <<list, attr>>

Attach(s) ==
    /\ ~Contains(sheets, s)
    /\ Becomes(StylesheetAttach(State, s))
    /\ UNCHANGED <<list, attr>>

Detach(s) ==
    /\ Contains(sheets, s)
    /\ Becomes(StylesheetRemove(State, s))
    /\ UNCHANGED <<list, attr>>

\* attr_remove fails when there is a list and not one declaration.
RemoveFails(e) == list[e] # NULL /\ ~Styled(State, e)

WithoutInline(e) ==
    IF list[e] = NULL THEN State
    ELSE Drop(State, e, {x \in Entries(State, e) : IsInline(x)})

\* lxb_dom_element_set_attribute: on failure the attribute is freed, linked as
\* it is.
AttrSet(e, t) ==
    /\ attr[e] # "freed"
    /\ IF RemoveFails(e)
       THEN /\ attr' = [attr EXCEPT ![e] = "freed"]
            /\ UNCHANGED <<parent, style, list, dirty, sheets, parsed>>
       ELSE /\ attr' = [attr EXCEPT ![e] = "set"]
            /\ list' = [list EXCEPT ![e] = t]
            /\ LET S == WithoutInline(e) IN
               Becomes([S EXCEPT !.style[e] = ListAppend(@, Inline, InlineBit, t)])

\* The same with an empty value, which is not parsed.
AttrEmpty(e) ==
    /\ attr[e] # "freed"
    /\ IF RemoveFails(e)
       THEN /\ attr' = [attr EXCEPT ![e] = "freed"]
            /\ UNCHANGED <<parent, style, list, dirty, sheets, parsed>>
       ELSE /\ attr' = [attr EXCEPT ![e] = "set"]
            /\ list' = [list EXCEPT ![e] = NULL]
            /\ Becomes(WithoutInline(e))

\* lxb_dom_element_remove_attribute does not look at the result.
AttrRemove(e) ==
    /\ attr[e] = "set"
    /\ attr' = [attr EXCEPT ![e] = "none"]
    /\ IF RemoveFails(e)
       THEN UNCHANGED <<parent, style, list, dirty, sheets, parsed>>
       ELSE /\ list' = [list EXCEPT ![e] = NULL]
            /\ Becomes(WithoutInline(e))

-----------------------------------------------------------------------------
(* The specifications.                                                     *)

\* Elements are linked one at a time, below connected ones, and the <style>
\* below the document.
Next ==
    \/ \E e \in Element : \/ RemoveElement(e) \/ AttrRemove(e) \/ AttrEmpty(e)
                         \/ \E t \in Texts : AttrSet(e, t)
    \/ \E s \in ApiSheets : Attach(s) \/ Detach(s)
    \/ \E e \in Element, p \in Element \cup {Doc} :
          /\ p # Doc => Connected(State, p) /\ e # Tag
          /\ InsertChild(p, e)

Spec == Init /\ [][Next]_vars

-----------------------------------------------------------------------------
(* Properties.                                                             *)

Entry == [from : (Sheet \X Nat) \cup {Inline}, sp : 0 .. 2 * ImportantBit - 1]

\* Types of the variables.
TypeOK ==
    /\ parent \in [Element -> Element \cup {Doc, NULL}]
    /\ style \in [Element -> [Properties -> Seq(Entry)]]
    /\ list \in [Element -> Texts \cup {NULL}]
    /\ dirty \in [Element -> BOOLEAN]
    /\ attr \in [Element -> {"none", "set", "freed"}]
    /\ sheets \in Seq(Sheet)
    /\ parsed \in 0 .. Len(TagSheets)

\* What a list declares for p: an entry for each declaration, and which it is.
Declarations(from, sp, decls, p) ==
    {[entry |-> [from |-> from, sp |-> Weight(sp, decls[k])], nth |-> k] :
        k \in {k \in DOMAIN decls : decls[k].prop = p}}

\* What the stylesheets of the document declare for e and p, and what a style
\* attribute does.
Cascaded(S, e, p) ==
    UNION {UNION {Declarations(<<s, i>>, Rules[s][i].sp, Rules[s][i].decls, p) :
                     i \in {i \in DOMAIN Rules[s] : Matches(S, Rules[s][i], e)}} :
              s \in Range(S.sheets)}

Inlined(t, p) == IF t = NULL THEN {} ELSE Declarations(Inline, InlineBit, t, p)

\* x was declared after y: in a later stylesheet, or a later rule of the same.
After(q, x, y) ==
    \/ \E i, j \in DOMAIN q : i < j /\ q[i] = y.from[1] /\ q[j] = x.from[1]
    \/ (x.from[1] = y.from[1] /\ x.from[2] > y.from[2])

\* The cascade: heavier first, among equals the later one.
Beats(q, x, y) == x.sp > y.sp \/ (x.sp = y.sp /\ After(q, x, y))

\* No rule of the stylesheets of the <style> element matches that element: an
\* inserted <style> that does match gets the declarations of its new stylesheet
\* twice, once when the stylesheet is attached and once when it is linked.
TagUnstyled ==
    \A s \in Range(TagSheets) : \A i \in DOMAIN Rules[s] : Tag \notin Rules[s][i].to

\* Whatever was attached, removed, changed, moved out and moved in again, a
\* connected element has exactly the declarations a computation from scratch
\* would give it, each as often as it is declared, in the order of the cascade.
CascadeCurrent ==
    \A e \in Element, p \in Properties : Connected(State, e) =>
        LET q == style[e][p]
            D == Cascaded(State, e, p) \cup Inlined(list[e], p)
        IN  /\ Len(q) = Cardinality(D)
            /\ \A d \in D : Cardinality({i \in DOMAIN q : q[i] = d.entry})
                              = Cardinality({c \in D : c.entry = d.entry})
            /\ \A i, j \in DOMAIN q : Beats(sheets, q[i], q[j]) => i < j

\* What style_serialize shows of a property: a dirty element hides an active
\* declaration that is not from the style attribute.
Shown(e, p) ==
    IF style[e][p] = <<>> \/ (dirty[e] /\ ~IsInline(Head(style[e][p])))
    THEN NULL ELSE Head(style[e][p])

\* An element outside the document shows nothing that a stylesheet declares,
\* however it got out and whatever became of the stylesheets since.
DetachedInlineOnly ==
    \A e \in Element, p \in Properties :
        (~Connected(State, e) /\ Shown(e, p) # NULL) => IsInline(Shown(e, p))

=============================================================================
