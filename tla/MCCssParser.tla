----------------------------- MODULE MCCssParser -----------------------------
(***************************************************************************)
(* CssParser for TLC: texts of a few kinds of tokens behind a fixed        *)
(* beginning and before a fixed end, for each part of the grammar.         *)
(***************************************************************************)
EXTENDS CssParser

MCIdent == {"x", "p", "v", "important"}
MCProperty == {"p"}
MCKeyword == {"v"}

(* What the tokenizer makes: it does not divide names or space, and a name *)
(* before a parenthesis is a function.                                     *)
Tokens(s) == \A i \in 1 .. Len(s) - 1 :
    /\ s[i] = " " => s[i + 1] # " "
    /\ s[i] \in Ident \cup AtKeyword => s[i + 1] \notin Ident
    /\ s[i] \in Ident => s[i + 1] # "("

Of(front, kinds, most, back) ==
    {s \in {front \o w \o back : w \in UNION {[1..n -> kinds] : n \in 0..most}} : Tokens(s)}

Attributes ==
    Of(<<>>, {"p", "x", ":", ";", " "}, 5, <<>>) \cup
    Of(<<"p", ":">>, {"v", " ", "!", "important", ";", "x"}, 4, <<>>) \cup
    Of(<<"p", ":">>, {"v", "!", "important", ";", "x"}, 3, <<";", "x", ":", "v">>) \cup
    Of(<<"p", ":">>, {"(", ")", "{", "}", ";", "v"}, 4, <<>>) \cup
    Of(<<>>, {":", ";", "(", ")", "["}, 3, <<";", "p", ":", "v">>)

Stylesheets ==
    Of(<<>>, {"x", " ", "{", "}", ":", ";"}, 5, <<>>) \cup
    Of(<<"x", "{">>, {"p", ":", "v", ";", " ", "}"}, 5, <<"}", "x">>) \cup
    Of(<<"x", "{", "x", ":">>, {"!", "important", " ", ";", "}"}, 4, <<>>) \cup
    Of(<<"x", "{">>, {"x", ":", "{", "}", "(", ")", ";"}, 4, <<>>) \cup
    Of(<<"@media">>, {"x", " ", "{", "}", "(", ")", ";"}, 3, <<>>) \cup
    Of(<<"@font-face">>, {"x", " ", "{", "}", ";"}, 3, <<>>) \cup
    Of(<<"x", "{">>, {"@media", "@custom", "@namespace", "{", "}", ";"}, 3, <<>>)

(* Behind a declaration that is important, or that has no value where one  *)
(* is due, what is no declaration keeps the flags of the declaration.      *)
KeepsFlags(s) ==
    LET list == Attribute(s, 1) IN
    \E k \in 1 .. Len(list) - 1 :
        /\ list[k].name # 0
        /\ list[k + 1].name = 0
        /\ \/ list[k].important
           \/ (s[list[k].name] \in Property /\ list[k].value[1] = list[k].value[2])

MCTexts == {<<"style attribute", s>> : s \in {a \in Attributes : ~KeepsFlags(a)}} \cup
           {<<"stylesheet", s>> : s \in Stylesheets}

(* For the run in which the parser does not end.                           *)
MCJunk == {<<"style attribute", s>> : s \in Of(<<"p", ":">>, {"v", ";", "x"}, 3, <<>>)}
=============================================================================
