------------------------------ MODULE DomTree ------------------------------
(***************************************************************************)
(* The pointer-level DOM tree of lexbor/dom/interfaces/node.c: every node  *)
(* carries parent, first_child, last_child, prev and next, and every       *)
(* operation below relinks them exactly as the C function does.            *)
(*                                                                         *)
(* A call that relinks one node is one action.  The calls that loop over   *)
(* nodes (inserting the children of a fragment, emptying a parent, freeing *)
(* a subtree) start a job, and each iteration of the loop is an action of  *)
(* its own, because a mutation callback runs inside every iteration and    *)
(* sees the half-finished tree.                                            *)
(***************************************************************************)
EXTENDS Naturals, FiniteSets

CONSTANTS
    Node,       \* the node structures of one document's memory pool
    NodeType,   \* lxb_dom_node_type_t of each of them
    NULL,       \* the null pointer
    EventsOn    \* mutation callbacks are set and WO_EVENTS is not

Types == {"element", "text", "comment", "attribute",
          "document", "doctype", "fragment"}

ASSUME NullAssumption   == NULL \notin Node
ASSUME FiniteAssumption == IsFiniteSet(Node)
ASSUME TypeAssumption   == NodeType \in [Node -> Types]
ASSUME EventsAssumption == EventsOn \in BOOLEAN

VARIABLES
    tree,   \* the five link fields of every node
    live,   \* the nodes that are allocated
    code,   \* the exception code the last call returned
    note,   \* the callbacks the last step made
    job     \* the loop in progress, if any

vars == <<tree, live, code, note, job>>

-----------------------------------------------------------------------------
(* Walking the links.                                                      *)

Pointer == Node \cup {NULL}

Tree == [parent : [Node -> Pointer], first : [Node -> Pointer],
         last : [Node -> Pointer], prev : [Node -> Pointer],
         next : [Node -> Pointer]]

\* C contains every node the field f leads to from C.
ClosedUnder(f, C) == \A m \in C : f[m] # NULL => f[m] \in C

\* What a loop of the form "while (n != NULL) n = n->f" visits from a.
Reach(f, a) ==
    {m \in Node : \A C \in SUBSET Node : a \in C /\ ClosedUnder(f, C) => m \in C}

IsInclusiveAncestor(t, n, p) == n \in Reach(t.parent, p)

Subtree(t, n) == {m \in Node : IsInclusiveAncestor(t, n, m)}

Following(t, c) == Reach(t.next, c) \ {c}
Preceding(t, c) == Reach(t.prev, c) \ {c}

Children(t, p) == IF t.first[p] = NULL THEN {} ELSE Reach(t.next, t.first[p])

HasType(S, ty) == \E m \in S : NodeType[m] = ty

-----------------------------------------------------------------------------
(* The link primitives.                                                    *)

\* Set the field of a node, when the pointer to the node is not null.
SetIf(f, guard, n, v) == [m \in Node |-> IF guard /\ m = n THEN v ELSE f[m]]

\* Mutant of Unlink: last_child of the parent keeps pointing at the node.
UnlinkKeepsLast(t, n) ==
    LET p == t.parent[n] IN
    [parent |-> [t.parent EXCEPT ![n] = NULL],
     first  |-> SetIf(t.first, p # NULL /\ t.first[p] = n, p, t.next[n]),
     last   |-> t.last,
     prev   |-> [SetIf(t.prev, t.next[n] # NULL, t.next[n], t.prev[n])
                     EXCEPT ![n] = NULL],
     next   |-> [SetIf(t.next, t.prev[n] # NULL, t.prev[n], t.next[n])
                     EXCEPT ![n] = NULL]]

Unlink(t, n) ==
    LET p == t.parent[n] IN
    [parent |-> [t.parent EXCEPT ![n] = NULL],
     first  |-> SetIf(t.first, p # NULL /\ t.first[p] = n, p, t.next[n]),
     last   |-> SetIf(t.last, p # NULL /\ t.last[p] = n, p, t.prev[n]),
     prev   |-> [SetIf(t.prev, t.next[n] # NULL, t.next[n], t.prev[n])
                     EXCEPT ![n] = NULL],
     next   |-> [SetIf(t.next, t.prev[n] # NULL, t.prev[n], t.next[n])
                     EXCEPT ![n] = NULL]]

LinkLast(t, to, n) ==
    LET l == t.last[to] IN
    [parent |-> [t.parent EXCEPT ![n] = to],
     first  |-> SetIf(t.first, l = NULL, to, n),
     last   |-> [t.last EXCEPT ![to] = n],
     prev   |-> [t.prev EXCEPT ![n] = l],
     next   |-> [SetIf(t.next, l # NULL, l, n) EXCEPT ![n] = NULL]]

LinkBefore(t, to, n) ==
    LET p == t.parent[to] IN
    [parent |-> [t.parent EXCEPT ![n] = p],
     first  |-> SetIf(t.first, t.prev[to] = NULL /\ p # NULL, p, n),
     last   |-> t.last,
     prev   |-> [[t.prev EXCEPT ![n] = t.prev[to]] EXCEPT ![to] = n],
     next   |-> [SetIf(t.next, t.prev[to] # NULL, t.prev[to], n)
                     EXCEPT ![n] = to]]

LinkAfter(t, to, n) ==
    LET p == t.parent[to] IN
    [parent |-> [t.parent EXCEPT ![n] = p],
     first  |-> t.first,
     last   |-> SetIf(t.last, t.next[to] = NULL /\ p # NULL, p, n),
     prev   |-> [SetIf(t.prev, t.next[to] # NULL, t.next[to], n)
                     EXCEPT ![n] = to],
     next   |-> [[t.next EXCEPT ![n] = t.next[to]] EXCEPT ![to] = n]]

Adopt(t, n) == IF t.parent[n] # NULL THEN Unlink(t, n) ELSE t

\* insert_node without its callbacks: adopt, then append or insert before c.
InsertNode(t, p, n, c) ==
    LET u == Adopt(t, n)
    IN  IF c = NULL THEN LinkLast(u, p, n) ELSE LinkBefore(u, c, n)

-----------------------------------------------------------------------------
(* The checks of lxb_dom_node_pre_insert_validity.                         *)

Ok == "OK"
Hierarchy == "HIERARCHY_REQUEST_ERR"
NotFound == "NOT_FOUND_ERR"
Codes == {Ok, Hierarchy, NotFound}

ContainerTypes == {"element", "document", "fragment"}

\* Mutant of ElementFits: a doctype behind the new element is overlooked.
ElementFitsAnywhere(t, d, c) == ~HasType(Children(t, d), "element")

ElementFits(t, d, c) ==
    /\ ~HasType(Children(t, d), "element")
    /\ c # NULL => /\ NodeType[c] # "doctype"
                   /\ ~HasType(Following(t, c), "doctype")

DoctypeFits(t, d, c) ==
    /\ ~HasType(Children(t, d), "doctype")
    /\ IF c = NULL THEN ~HasType(Children(t, d), "element")
                   ELSE ~HasType(Preceding(t, c), "element")

FragmentFits(t, d, n, c) ==
    LET elements == {m \in Children(t, n) : NodeType[m] = "element"}
    IN  /\ ~HasType(Children(t, n), "text")
        /\ Cardinality(elements) <= 1
        /\ elements # {} => ElementFits(t, d, c)

FitsDocument(t, d, n, c) ==
    CASE NodeType[n] = "element"  -> ElementFits(t, d, c)
      [] NodeType[n] = "doctype"  -> DoctypeFits(t, d, c)
      [] NodeType[n] = "fragment" -> FragmentFits(t, d, n, c)
      [] OTHER -> TRUE

PreInsertValidity(t, p, n, c) ==
    IF \/ NodeType[p] \notin ContainerTypes
       \/ IsInclusiveAncestor(t, n, p)
    THEN Hierarchy
    ELSE IF c # NULL /\ t.parent[c] # p
    THEN NotFound
    ELSE IF \/ NodeType[n] = "text" /\ NodeType[p] = "document"
            \/ NodeType[n] = "doctype" /\ NodeType[p] # "document"
            \/ NodeType[p] = "document" /\ ~FitsDocument(t, p, n, c)
    THEN Hierarchy
    ELSE Ok

-----------------------------------------------------------------------------
(* Callbacks and jobs.                                                     *)

\* The callbacks of a step: which nodes got "removed", and how many times each
\* got "inserted".
Note == [removed : SUBSET Node, inserted : [Node -> 0 .. 2]]

\* Mutant of Notified: the walk visits the inserted node only.
NotifiedRootOnly(gone, t, n, times) ==
    [removed  |-> IF EventsOn THEN gone ELSE {},
     inserted |-> [m \in Node |-> IF EventsOn /\ m = n THEN times ELSE 0]]

\* Mutant of Notified: every walk is run once more.
NotifiedAgain(gone, t, n, times) ==
    [removed  |-> IF EventsOn THEN gone ELSE {},
     inserted |-> [m \in Node |->
                     IF EventsOn /\ n # NULL /\ m \in Subtree(t, n)
                     THEN times + 1 ELSE 0]]

Notified(gone, t, n, times) ==
    [removed  |-> IF EventsOn THEN gone ELSE {},
     inserted |-> [m \in Node |->
                     IF EventsOn /\ n # NULL /\ m \in Subtree(t, n)
                     THEN times ELSE 0]]

Removed(gone) == Notified(gone, tree, NULL, 0)
Quiet == Removed({})

Job == [kind : {"idle", "insert", "clear", "refill", "destroy"},
        parent : Pointer, node : Pointer, mark : Pointer, root : Pointer,
        up : BOOLEAN]

Idle == [kind |-> "idle", parent |-> NULL, node |-> NULL, mark |-> NULL,
         root |-> NULL, up |-> FALSE]

\* The fragment f still has n and its successors to go into p before c.
Inserting(p, n, c, f) ==
    IF n = NULL THEN Idle
    ELSE [Idle EXCEPT !.kind = "insert", !.parent = p, !.node = n,
                      !.mark = c, !.root = f]

\* p still has c and its successors to lose before n is appended to it.
Clearing(p, c, n) ==
    [Idle EXCEPT !.kind = "clear", !.parent = p, !.node = c, !.mark = n]

\* The children of p are freed one by one before n becomes its only child.
Refilling(p, n) == [Idle EXCEPT !.kind = "refill", !.parent = p, !.mark = n]

\* destroy_deep stands at n below r; p and c are the caller's Refilling.
Destroying(r, n, up, p, c) ==
    [kind |-> "destroy", parent |-> p, node |-> n, mark |-> c, root |-> r,
     up |-> up]

-----------------------------------------------------------------------------
(* The calls that do not validate.  What the caller owes them is in the    *)
(* guard: the node to insert is loose and does not contain its new parent. *)

Blank == [parent |-> [n \in Node |-> NULL], first |-> [n \in Node |-> NULL],
          last |-> [n \in Node |-> NULL], prev |-> [n \in Node |-> NULL],
          next |-> [n \in Node |-> NULL]]

Init ==
    /\ tree = Blank
    /\ live = {}
    /\ code = Ok
    /\ note = [removed |-> {}, inserted |-> [n \in Node |-> 0]]
    /\ job = Idle

Calling == job.kind = "idle"

\* A fresh structure comes zeroed out of the pool.
Create(n) ==
    /\ Calling /\ n \notin live
    /\ live' = live \cup {n}
    /\ code' = Ok /\ note' = Quiet
    /\ UNCHANGED <<tree, job>>

Loose(n, p) == tree.parent[n] = NULL /\ ~IsInclusiveAncestor(tree, n, p)

Linked(t, n) ==
    /\ tree' = t
    /\ note' = Notified({}, t, n, 1)
    /\ code' = Ok
    /\ UNCHANGED <<live, job>>

InsertChild(to, n) ==
    /\ Calling /\ {to, n} \subseteq live /\ Loose(n, to)
    /\ Linked(LinkLast(tree, to, n), n)

InsertBefore(to, n) ==
    /\ Calling /\ {to, n} \subseteq live
    /\ tree.parent[to] # NULL /\ Loose(n, tree.parent[to])
    /\ Linked(LinkBefore(tree, to, n), n)

InsertAfter(to, n) ==
    /\ Calling /\ {to, n} \subseteq live
    /\ tree.parent[to] # NULL /\ Loose(n, tree.parent[to])
    /\ Linked(LinkAfter(tree, to, n), n)

Remove(n) ==
    /\ Calling /\ n \in live
    /\ tree' = Unlink(tree, n)
    /\ note' = Removed({n})
    /\ code' = Ok
    /\ UNCHANGED <<live, job>>

\* The structure goes back to the pool: a child of it would dangle.
Destroy(n) ==
    /\ Calling /\ n \in live /\ tree.first[n] = NULL
    /\ tree' = Unlink(tree, n)
    /\ live' = live \ {n}
    /\ note' = Removed({n})
    /\ code' = Ok
    /\ UNCHANGED job

DestroyDeep(r) ==
    /\ Calling /\ r \in live
    /\ job' = Destroying(r, r, FALSE, NULL, NULL)
    /\ code' = Ok /\ note' = Quiet
    /\ UNCHANGED <<tree, live>>

ReplaceAll(p, n) ==
    /\ Calling /\ {p, n} \subseteq live /\ Loose(n, p)
    /\ job' = Refilling(p, n)
    /\ code' = Ok /\ note' = Quiet
    /\ UNCHANGED <<tree, live>>

\* text_content_set: replace_all with a text node made for the purpose.
TextContentSet(p, n) ==
    /\ Calling /\ p \in live /\ NodeType[p] \in {"element", "fragment"}
    /\ n \notin live /\ NodeType[n] = "text"
    /\ live' = live \cup {n}
    /\ job' = Refilling(p, n)
    /\ code' = Ok /\ note' = Quiet
    /\ UNCHANGED tree

-----------------------------------------------------------------------------
(* The calls of the DOM standard, which validate first.                    *)

Reject(ex) ==
    /\ code' = ex
    /\ note' = Quiet
    /\ UNCHANGED <<tree, live>>

\* Insert n, or start inserting the children of the fragment n, into the tree t
\* whose step has already removed the nodes in gone.
Insert(t, gone, p, n, c) ==
    /\ code' = Ok
    /\ UNCHANGED live
    /\ IF NodeType[n] = "fragment"
       THEN /\ tree' = t
            /\ note' = Removed(gone)
            /\ job' = Inserting(p, t.first[n], c, n)
       ELSE /\ tree' = InsertNode(t, p, n, c)
            /\ note' = Notified(IF t.parent[n] # NULL THEN gone \cup {n} ELSE gone,
                                tree', n, 2)
            /\ job' = Idle

PreInsertNow(p, n, c) ==
    LET ex == PreInsertValidity(tree, p, n, c) IN
    \/ /\ ex # Ok
       /\ Reject(ex)
       /\ job' = Idle
    \/ /\ ex = Ok
       /\ Insert(tree, {}, p, n, IF c = n THEN tree.next[n] ELSE c)

AppendChild(p, n) ==
    Calling /\ {p, n} \subseteq live /\ PreInsertNow(p, n, NULL)

InsertBeforeSpec(p, n, c) ==
    Calling /\ {p, n, c} \subseteq live /\ PreInsertNow(p, n, c)

RemoveChild(p, c) ==
    /\ Calling /\ {p, c} \subseteq live
    /\ IF tree.parent[c] # p
       THEN Reject(NotFound)
       ELSE /\ tree' = Unlink(tree, c)
            /\ note' = Removed({c})
            /\ code' = Ok
            /\ UNCHANGED live
    /\ UNCHANGED job

\* The node replace_child inserts in front of.
Before(c) == IF tree.prev[c] # NULL THEN tree.prev[c] ELSE tree.next[c]

ReplaceChild(p, n, c) ==
    /\ Calling /\ {p, n, c} \subseteq live
    /\ LET ex == PreInsertValidity(tree, p, n, c) IN
       \/ /\ ex # Ok
          /\ Reject(ex)
          /\ UNCHANGED job
       \/ /\ ex = Ok
          /\ Insert(Unlink(tree, c), {c}, p, n, Before(c))

ReplaceAllSpec(p, n) ==
    /\ Calling /\ {p, n} \subseteq live
    /\ job' = Clearing(p, tree.first[p], n)
    /\ code' = Ok /\ note' = Quiet
    /\ UNCHANGED <<tree, live>>

-----------------------------------------------------------------------------
(* One iteration of each loop.                                             *)

\* Mutant of InsertStep: the successor is read after the node was relinked.
InsertStepLateNext ==
    /\ job.kind = "insert"
    /\ tree' = InsertNode(tree, job.parent, job.node, job.mark)
    /\ note' = Notified({job.node}, tree', job.node, 2)
    /\ job' = Inserting(job.parent, tree'.next[job.node], job.mark, job.root)
    /\ UNCHANGED <<live, code>>

InsertStep ==
    /\ job.kind = "insert"
    /\ tree' = InsertNode(tree, job.parent, job.node, job.mark)
    /\ note' = Notified({job.node}, tree', job.node, 2)
    /\ job' = Inserting(job.parent, tree.next[job.node], job.mark, job.root)
    /\ UNCHANGED <<live, code>>

\* Mutant of ClearStep: the successor is read after the node was taken out.
ClearStepLateNext ==
    /\ job.kind = "clear" /\ job.node # NULL
    /\ tree' = Unlink(tree, job.node)
    /\ note' = Removed({job.node})
    /\ job' = Clearing(job.parent, tree'.next[job.node], job.mark)
    /\ UNCHANGED <<live, code>>

ClearStep ==
    /\ job.kind = "clear" /\ job.node # NULL
    /\ tree' = Unlink(tree, job.node)
    /\ note' = Removed({job.node})
    /\ job' = Clearing(job.parent, tree.next[job.node], job.mark)
    /\ UNCHANGED <<live, code>>

ClearEnd ==
    /\ job.kind = "clear" /\ job.node = NULL
    /\ PreInsertNow(job.parent, job.mark, NULL)

\* replace_all frees the first child while there is one ...
RefillNext ==
    /\ job.kind = "refill" /\ tree.first[job.parent] # NULL
    /\ LET f == tree.first[job.parent]
       IN  job' = Destroying(f, f, FALSE, job.parent, job.mark)
    /\ note' = Quiet
    /\ UNCHANGED <<tree, live, code>>

\* ... and then links the new one.
RefillEnd ==
    /\ job.kind = "refill" /\ tree.first[job.parent] = NULL
    /\ tree' = LinkLast(tree, job.parent, job.mark)
    /\ note' = Notified({}, tree', job.mark, 1)
    /\ job' = Idle
    /\ UNCHANGED <<live, code>>

\* Where destroy_deep goes on: at n, or back to its caller.
GoOn(n, up) ==
    IF n # NULL THEN Destroying(job.root, n, up, job.parent, job.mark)
    ELSE IF job.parent # NULL THEN Refilling(job.parent, job.mark)
    ELSE Idle

\* Mutant of AtBottom: a node is freed before its children.
AtBottomAlways == job.kind = "destroy"

\* The inner loop of destroy_deep is climbing, or the node has no child.
AtBottom == job.kind = "destroy" /\ (job.up \/ tree.first[job.node] = NULL)

Free(n) ==
    /\ tree' = Unlink(tree, n)
    /\ live' = live \ {n}
    /\ note' = Removed({n})
    /\ UNCHANGED code

DestroyDescend ==
    /\ job.kind = "destroy" /\ ~job.up /\ tree.first[job.node] # NULL
    /\ job' = GoOn(tree.first[job.node], FALSE)
    /\ note' = Quiet
    /\ UNCHANGED <<tree, live, code>>

DestroyUp ==
    /\ AtBottom /\ job.node # job.root /\ tree.next[job.node] = NULL
    /\ job' = GoOn(tree.parent[job.node], TRUE)
    /\ Free(job.node)

DestroyNext ==
    /\ AtBottom /\ job.node # job.root /\ tree.next[job.node] # NULL
    /\ job' = GoOn(tree.next[job.node], FALSE)
    /\ Free(job.node)

DestroyRoot ==
    /\ AtBottom /\ job.node = job.root
    /\ job' = GoOn(NULL, FALSE)
    /\ Free(job.node)

JobStep ==
    \/ InsertStep \/ ClearStep \/ ClearEnd \/ RefillNext \/ RefillEnd
    \/ DestroyDescend \/ DestroyUp \/ DestroyNext \/ DestroyRoot

-----------------------------------------------------------------------------
(* The specifications.                                                     *)

ValidatedCall ==
    \E p, n \in Node :
        \/ AppendChild(p, n)
        \/ RemoveChild(p, n)
        \/ ReplaceAllSpec(p, n)
        \/ \E c \in Node : InsertBeforeSpec(p, n, c)

PlainCall ==
    \/ \E n \in Node : Remove(n) \/ Destroy(n) \/ DestroyDeep(n)
    \/ \E p, n \in Node : \/ InsertChild(p, n)
                          \/ InsertBefore(p, n)
                          \/ InsertAfter(p, n)
                          \/ ReplaceAll(p, n)
                          \/ TextContentSet(p, n)

\* replace_child is called with a node that is not the neighbour it would
\* insert in front of: then the code links the node to itself.
ReplaceApart ==
    \E p, n, c \in Node : n # Before(c) /\ ReplaceChild(p, n, c)

Next ==
    \/ \E n \in Node : Create(n)
    \/ ValidatedCall
    \/ PlainCall
    \/ ReplaceApart
    \/ JobStep

Spec == Init /\ [][Next]_vars /\ WF_vars(JobStep)

\* n is an element, or a fragment that brings one.
BringsElement(n) ==
    \/ NodeType[n] = "element"
    \/ NodeType[n] = "fragment" /\ HasType(Children(tree, n), "element")

BehindDoctype(c) == tree.prev[c] # NULL /\ NodeType[tree.prev[c]] = "doctype"

\* replace_child checks the place of c and takes the one in front of c's previous
\* sibling.  When that sibling is the doctype and n brings an element, the code
\* puts the element in front of the doctype: those calls are left out, and no
\* others.
ReplaceInOrder ==
    \E p, n, c \in Node : /\ n # Before(c)
                          /\ ~(BehindDoctype(c) /\ BringsElement(n))
                          /\ ReplaceChild(p, n, c)

\* Only the calls that validate.
NextValidated ==
    \/ \E n \in Node : Create(n)
    \/ ValidatedCall
    \/ ReplaceInOrder
    \/ JobStep

SpecValidated == Init /\ [][NextValidated]_vars

-----------------------------------------------------------------------------
(* Properties.                                                             *)

\* Types of the variables.
TypeOK ==
    /\ tree \in Tree
    /\ live \subseteq Node
    /\ code \in Codes
    /\ note \in Note
    /\ job \in Job

SiblingsAgree(t) ==
    \A n \in Node :
        /\ t.next[n] # NULL => /\ t.prev[t.next[n]] = n
                               /\ t.parent[t.next[n]] = t.parent[n]
        /\ t.prev[n] # NULL => /\ t.next[t.prev[n]] = n
                               /\ t.parent[t.prev[n]] = t.parent[n]

EndsAgree(t) ==
    \A p \in Node :
        /\ t.first[p] # NULL => t.parent[t.first[p]] = p /\ t.prev[t.first[p]] = NULL
        /\ t.last[p] # NULL => t.parent[t.last[p]] = p /\ t.next[t.last[p]] = NULL

ChildrenListed(t) ==
    \A n \in Node :
        IF t.parent[n] = NULL
        THEN t.prev[n] = NULL /\ t.next[n] = NULL
        ELSE /\ t.prev[n] = NULL => t.first[t.parent[n]] = n
             /\ t.next[n] = NULL => t.last[t.parent[n]] = n

\* Following f from any node ends: no non-empty set of nodes is closed under it.
NoCycle(f) ==
    \A S \in SUBSET Node : S # {} => \E n \in S : f[n] \notin S

\* The five link fields describe one forest: neighbours agree, the ends of a
\* child list are the parent's first and last child, every child is in its
\* parent's list, and neither parents nor siblings go round in a circle -
\* between any two iterations of any loop too.
Linked5(t) ==
    /\ SiblingsAgree(t)
    /\ EndsAgree(t)
    /\ ChildrenListed(t)
    /\ NoCycle(t.next)
    /\ NoCycle(t.prev)
    /\ NoCycle(t.parent)

TreeLinked == Linked5(tree)

Links(t, n) == {t.parent[n], t.first[n], t.last[n], t.prev[n], t.next[n]}

\* In the tree t, only nodes of L have links, and only to nodes of L.
InMemory(t, L) ==
    \A n \in Node : Links(t, n) \subseteq IF n \in L THEN L \cup {NULL} ELSE {NULL}

\* Nothing that is allocated points at a freed node, a freed node is blank when
\* the pool hands it out again, and no loop stands on a freed node.
NoDangling ==
    /\ InMemory(tree, live)
    /\ {job.parent, job.node, job.mark, job.root} \subseteq live \cup {NULL}

\* What a document may hold: no text, one element at most, one doctype at most,
\* and the doctype in front of the element.
DocumentShape(d) ==
    LET kids == {m \in Node : tree.parent[m] = d}
        some(ty) == {m \in kids : NodeType[m] = ty}
    IN  /\ some("text") = {}
        /\ Cardinality(some("element")) <= 1
        /\ Cardinality(some("doctype")) <= 1
        /\ \A e \in some("element"), y \in some("doctype") : e \in Following(tree, y)

\* As long as only the validating calls are used, no document ever leaves that
\* shape, whatever is moved, replaced or emptied, in whatever order, fragments
\* included.
DocumentsWellFormed ==
    \A d \in Node : NodeType[d] = "document" => DocumentShape(d)

\* A node that leaves its parent is reported by "removed"; a node that gets a
\* new parent is reported by "inserted" with everything below it; and nothing
\* is reported as inserted that was not loose or taken out in the same step.
NotifiesMoves ==
    [][EventsOn =>
         /\ \A n \in Node : tree.parent[n] \notin {NULL, tree'.parent[n]}
                                => n \in note'.removed
         /\ \A n \in Node : tree'.parent[n] \notin {NULL, tree.parent[n]}
                                => \A m \in Subtree(tree', n) : note'.inserted[m] > 0
         /\ \A m \in Node : note'.inserted[m] > 0 =>
               \E n \in Node : /\ m \in Subtree(tree', n)
                               /\ tree'.parent[n] # NULL
                               /\ tree.parent[n] = NULL \/ n \in note'.removed]_vars

\* Every loop over nodes ends, although it relinks what it walks on.
JobsEnd == []<>(job.kind = "idle")

=============================================================================
