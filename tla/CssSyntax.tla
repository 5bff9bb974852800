----------------------------- MODULE CssSyntax -----------------------------
(***************************************************************************)
(* What the tokens of a stylesheet or of a style attribute mean, by        *)
(* recursion over the grammar of CSS Syntax. CssParser finds the same with *)
(* a stack of rules, token by token.                                       *)
(*                                                                         *)
(* A token is its kind; a range <<from, to>> is the tokens from .. to - 1. *)
(* Where lexbor keeps what the grammar drops, so does this module: a rule  *)
(* whose block never comes, and what is no declaration in a style          *)
(* attribute (test/files/lexbor/css/declarations/syntax.ton:123 ff.).      *)
(***************************************************************************)
EXTENDS Integers, Sequences

CONSTANTS
    Ident,      \* kinds of identifiers, "important" among them
    Property,   \* the identifiers that name a property lexbor knows
    Keyword,    \* the identifiers that are a value of those properties
    NULL

ASSUME IdentAssumption == "important" \in Ident /\ Property \subseteq Ident /\ Keyword \subseteq Ident

AtKeyword == {"@custom", "@media", "@font-face", "@namespace"}
Closer == [t \in {"{", "[", "("} |-> CASE t = "{" -> "}" [] t = "[" -> "]" [] OTHER -> ")"]
Closing == {"}", "]", ")"}

Tok(s, i) == IF i > Len(s) THEN "eof" ELSE s[i]

\* The first token from i on whose kind is not among kinds.
Past(s, i, kinds) == CHOOSE k \in i .. Len(s) + 1 :
                        Tok(s, k) \notin kinds /\ \A j \in i .. k - 1 : s[j] \in kinds
PastSpace(s, i) == IF Tok(s, i) = " " THEN i + 1 ELSE i

\* i is followed by a colon.
NamesDeclaration(s, i) == Tok(s, i) \in Ident /\ Tok(s, PastSpace(s, i + 1)) = ":"

-----------------------------------------------------------------------------

RECURSIVE Beyond(_, _), Through(_, _, _), UpTo(_, _, _)

\* Behind the component value at i: a token, or a block with all that is in it.
Beyond(s, i) == IF Tok(s, i) \in DOMAIN Closer THEN Through(s, i + 1, Closer[s[i]]) ELSE i + 1
Through(s, i, closer) ==
    CASE Tok(s, i) = "eof"  -> i
      [] Tok(s, i) = closer -> i + 1
      [] OTHER              -> Through(s, Beyond(s, i), closer)

\* The first of the kinds stops that is in no block.
UpTo(s, i, stops) ==
    IF Tok(s, i) \in stops \cup {"eof"} THEN i ELSE UpTo(s, Beyond(s, i), stops)

-----------------------------------------------------------------------------
(* Declarations.                                                           *)

\* The value from v to the stop at to without the space that ends it. At the
\* end of the text lexbor leaves that space.
Trimmed(s, v, to) == IF to > v /\ Tok(s, to - 1) = " " THEN to - 1 ELSE to

Declaration(s, i, stops) ==
    LET v  == PastSpace(s, PastSpace(s, i + 1) + 1)
        to == UpTo(s, v, stops)
        e  == Trimmed(s, v, to)
        important == e >= v + 2 /\ Tok(s, e - 2) = "!" /\ Tok(s, e - 1) = "important"
        end == CASE important          -> Trimmed(s, v, e - 2)
                 [] Tok(s, to) = "eof" -> to
                 [] OTHER              -> e
        known == s[i] \in Property
    IN  [declaration |-> [name |-> i, value |-> <<v, end>>, important |-> important,
                          type |-> CASE ~known -> "custom"
                                     [] /\ Trimmed(s, v, end) = v + 1
                                        /\ s[v] \in Keyword -> "property"
                                     [] OTHER -> "undef",
                          text |-> IF known THEN <<>> ELSE [k \in 1 .. end - v |-> v + k - 1]],
         next |-> to]

\* What is no declaration, up to the next semicolon, has no name.
Nameless(s, i) ==
    LET to == UpTo(s, i, {";"})
    IN  [declaration |-> [name |-> 0, value |-> <<i, to>>, important |-> FALSE,
                          type |-> "undef", text |-> <<>>],
         next |-> to]

RECURSIVE Declarations(_, _), Attribute(_, _)

\* The declarations in a row in a block.
Declarations(s, i) ==
    LET j == Past(s, i, {" ", ";"}) IN
    IF NamesDeclaration(s, j)
    THEN LET d == Declaration(s, j, {";", "}"}) IN
         LET rest == Declarations(s, d.next)
         IN  [list |-> <<d.declaration>> \o rest.list, next |-> rest.next]
    ELSE [list |-> <<>>, next |-> j]

\* All of a style attribute.
Attribute(s, i) ==
    LET j == Past(s, i, {" ", ";"}) IN
    IF Tok(s, j) = "eof" THEN <<>>
    ELSE LET d == IF NamesDeclaration(s, j) THEN Declaration(s, j, {";"}) ELSE Nameless(s, j)
         IN  <<d.declaration>> \o Attribute(s, d.next)

DeclarationList(list) == [kind |-> "declarations", list |-> list]

-----------------------------------------------------------------------------
(* Rules.                                                                  *)

\* A list of types with descendant combinators, all that there is of selectors.
IsSelector(s, from, to) ==
    /\ \A i \in from .. to - 1 : s[i] \in Ident \cup {" "}
    /\ \E i \in from .. to - 1 : s[i] \in Ident

\* An at-rule that does not have the prelude and the block of its kind becomes
\* an undefined one.
AtRuleOf(s, i, prelude, block) ==
    [kind |-> "at", name |-> s[i], prelude |-> prelude, block |-> block,
     undef |-> CASE s[i] = "@media"     -> block = NULL
                 [] s[i] = "@font-face" -> prelude[1] # prelude[2]
                 [] s[i] = "@namespace" -> block # NULL
                 [] OTHER               -> FALSE]

\* The declarations a block starts with belong to the rule itself.
StyleRuleOf(bad, prelude, block) ==
    LET leads == block # NULL /\ block # <<>> /\ Head(block).kind = "declarations"
    IN  [kind |-> IF bad THEN "bad_style" ELSE "style", prelude |-> prelude,
         declarations |-> IF leads THEN Head(block) ELSE NULL,
         child |-> IF leads THEN Tail(block) ELSE block]

RECURSIVE Contents(_, _, _)

AtRule(s, i, nested) ==
    LET from == PastSpace(s, i + 1)
        to == UpTo(s, from, {";", "{"} \cup (IF nested THEN {"}"} ELSE {}))
    IN  IF Tok(s, to) = "{"
        THEN LET block == Contents(s, to + 1, TRUE)
             IN  [rule |-> AtRuleOf(s, i, <<from, to>>, block.list), next |-> block.next]
        ELSE [rule |-> AtRuleOf(s, i, <<from, to>>, NULL),
              next |-> IF Tok(s, to) = ";" THEN to + 1 ELSE to]

QualifiedRule(s, i, nested) ==
    LET to == UpTo(s, i, {"{"} \cup (IF nested THEN {";", "}"} ELSE {}))
        bad == ~IsSelector(s, i, to)
    IN  IF Tok(s, to) = "{"
        THEN LET block == Contents(s, to + 1, TRUE)
             IN  [rule |-> StyleRuleOf(bad, <<i, to>>, block.list), next |-> block.next]
        ELSE [rule |-> StyleRuleOf(bad, <<i, to>>, NULL), next |-> to]

\* The rules of a stylesheet, or the rules and declarations of a block.
Contents(s, i, nested) ==
    LET j == Past(s, i, IF nested THEN {" ", ";"} ELSE {" "}) IN
    CASE Tok(s, j) = "eof"          -> [list |-> <<>>, next |-> j]
      [] nested /\ Tok(s, j) = "}"  -> [list |-> <<>>, next |-> j + 1]
      [] OTHER ->
           LET declared == Declarations(s, j)
               item == CASE Tok(s, j) \in AtKeyword -> AtRule(s, j, nested)
                         [] nested /\ NamesDeclaration(s, j) ->
                              [rule |-> DeclarationList(declared.list), next |-> declared.next]
                         [] OTHER -> QualifiedRule(s, j, nested)
               rest == Contents(s, item.next, nested)
           IN  [list |-> <<item.rule>> \o rest.list, next |-> rest.next]

Meaning(s, entry) ==
    IF entry = "stylesheet" THEN Contents(s, 1, FALSE).list ELSE DeclarationList(Attribute(s, 1))
=============================================================================
