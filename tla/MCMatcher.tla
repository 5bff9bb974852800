----------------------------- MODULE MCMatcher -----------------------------
EXTENDS Matcher

Simple(comb, a) == [comb |-> comb, type |-> "simple", name |-> a, list |-> <<>>, anb |-> <<0, 0>>]
Is(comb, list) == [Simple(comb, "") EXCEPT !.type = "is", !.list = list]
Not(comb, list) == [Simple(comb, "") EXCEPT !.type = "not", !.list = list]
Has(comb, list) == [Simple(comb, "") EXCEPT !.type = "has", !.list = list]
Nth(comb, anb, list) == [Simple(comb, "") EXCEPT !.type = "nth", !.anb = anb, !.list = list]

Leading == {"descendant", "child", "sibling", "following"}
Comb == Leading \cup {"close"}
A(comb) == Simple(comb, "a")
B(comb) == Simple(comb, "b")
First == A("descendant")

\* All documents of n elements with these sets of names.
Docs(n, names) ==
    [parent: {p \in [1 .. n -> 0 .. n - 1] :
        LET up[m \in 0 .. n] == IF m = 0 THEN {0} ELSE {m} \cup up[p[m]] IN
        \A m \in 1 .. n : p[m] < m /\ (m > 1 => p[m] \in up[m - 1])},
     names: [1 .. n -> names]]
Small == Docs(3, {{"a"}, {"b"}})
Large == Docs(4, {{"a"}, {"b"}})

Elements(d) == [k \in 1 .. Len(d.parent) |-> k]
Find(docs, lists) ==
    {[doc |-> d, list |-> l, order |-> Elements(d), first |-> FALSE, stop |-> FALSE] :
        d \in docs, l \in lists}

-----------------------------------------------------------------------------

Starts(c) == {k \in DOMAIN c : k = 1 \/ c[k].comb # "close"}

\* A selector that takes a list is never the one from which the matcher has to
\* go on to another element: it forgets to (README, section 5).
RECURSIVE NoneRetried(_), NoneRetriedForward(_), Inside(_)
Inside(item) ==
    CASE item.list = <<>> -> TRUE
      [] item.type = "has" -> NoneRetriedForward(item.list)
      [] item.type = "nth" -> Len(item.list) = 1 /\ Len(item.list[1]) = 1 /\ NoneRetried(item.list)
      [] OTHER -> NoneRetried(item.list)
NoneRetried(list) ==
    \A i \in DOMAIN list : \A j \in DOMAIN list[i] :
        LET c == list[i]
            next == Min({k \in Starts(c) : k > j} \cup {Len(c) + 1})
        IN  /\ Inside(c[j])
            /\ c[j].list # <<>> /\ j \in Starts(c) /\ next <= Len(c)
                  => c[next].comb \in {"child", "sibling"}
NoneRetriedForward(list) ==
    \A i \in DOMAIN list : \A j \in DOMAIN list[i] :
        LET c == list[i] IN
        /\ Inside(c[j])
        /\ c[j].list # <<>> => /\ j = 1 => c[1].comb = "sibling"
                               /\ c[CompoundStart(c, j)].comb = "sibling" /\ CompoundStart(c, j) = 2
                                     => c[1].comb = "sibling"

\* Combinators and backtracking.
Chains == Find(Large, {<<<<First, B(c)>>>> : c \in Comb}
                        \cup {<<<<First, B(c), A(d)>>>> : c \in Comb, d \in Comb})
Compounds == Find(Docs(3, {{"a"}, {"a", "b"}}),
                  {<<<<First, B("close"), A(c), B("close")>>>> : c \in Leading})

\* Functions, with lists of one and of two, in compounds and across combinators.
Lists == {<<<<B("descendant")>>>>, <<<<First>>, <<B("descendant")>>>>, <<<<First, B("close")>>>>,
          <<<<First, B("child")>>>>, <<<<First, B("descendant")>>>>}
Functions == {[c \in Comb |-> Is(c, l)] : l \in Lists} \cup {[c \in Comb |-> Not(c, l)] : l \in Lists}
               \cup {[c \in Comb |-> Nth(c, anb, l)] :
                        l \in {<<>>, <<<<B("descendant")>>>>}, anb \in {<<0, 2>>, <<2, 1>>, <<-1, 2>>}}
Around(f) == {<<<<f["descendant"]>>>>} \cup {<<<<First, f[c]>>>> : c \in Comb}
               \cup {<<<<f["descendant"], A(c)>>>> : c \in Comb}
               \cup {<<<<First, f[c], A(d)>>>> : c \in {"close", "child"}, d \in Leading}

\* :has, with chains, lists of two and functions inside.
Plain == [c \in Comb |-> B(c)]
Ahead(f) == {<<<<f[c]>>>> : c \in Leading} \cup {<<<<A(c), f[d]>>>> : c \in Leading, d \in Comb}
Relatives == Ahead(Plain) \cup {<<<<A(c)>>, <<B(d)>>>> : c \in Leading, d \in Leading}
               \cup UNION {Ahead(f) : f \in {[c \in Comb |-> Not(c, <<<<First>>>>)],
                                             [c \in Comb |-> Nth(c, <<0, 1>>, <<<<B("descendant")>>>>)]}}
               \cup {<<<<A(c), B(d), Not(e, <<<<First>>>>)>>>> :
                        c \in {"child"}, d \in {"sibling", "descendant"}, e \in Comb}
Having == {<<<<Has("descendant", l)>>>> : l \in Relatives}
            \cup {<<<<First, Has(c, l)>>>> : c \in {"close", "child"}, l \in Relatives}

Nestings == {l \in Having \cup UNION {Around(f) : f \in Functions} : NoneRetried(l)}

\* A list of two: the whole document, below element 1, element 3 alone, and with
\* each option.
Pair == <<<<B("descendant")>>, <<First, Not("child", <<<<First>>>>)>>>>
Calls == {[doc |-> d, list |-> Pair, order |-> o, first |-> f, stop |-> s] :
            d \in Small, o \in {<<1, 2, 3>>, <<2, 3>>, <<3>>}, f \in BOOLEAN, s \in BOOLEAN}

All == Chains \cup Compounds \cup Find(Small, Nestings) \cup Calls

=============================================================================
