----------------------------- MODULE MCTokenizer -----------------------------
(***************************************************************************)
(* Tokenizer for TLC: for each part of it all texts of a few kinds of      *)
(* characters behind a fixed beginning and before a fixed end, cut in      *)
(* every way.                                                              *)
(***************************************************************************)
EXTENDS Tokenizer

Small == {"a", "b", "d", "m", "o", "p", "s", "t", "u", "x", "y"}
Large == "O" :> "o" @@ "A" :> "a" @@ "C" :> "c" @@ "D" :> "d" @@ "X" :> "x" @@ "F" :> "f"
MCLetters == [c \in Small |-> c] @@ ("f" :> "f" @@ "c" :> "c") @@ Large
MCHexValue == "0" :> 0 @@ "1" :> 1 @@ "8" :> 8 @@ "a" :> 10 @@ "A" :> 10 @@
              "b" :> 11 @@ "D" :> 13 @@ "d" :> 13 @@ "f" :> 15 @@ "F" :> 15 @@ "c" :> 12 @@ "C" :> 12

MCWords == [doctype |-> <<"d", "o">>, cdata |-> <<"[", "C", "[">>,
            public |-> <<"p", "u">>, system |-> <<"s", "y">>,
            script |-> <<"s", "s">>, reserved |-> {<<"x", "m">>, <<"x", "m", "-", "x">>}]
MCRaw == <<"t", "t">> :> "rcdata" @@ <<"y", "y">> :> "rawtext" @@
         <<"s", "s">> :> "script_data" @@ <<"p", "p">> :> "plaintext"

(* Like amp, amp; and the longer ampb; of two characters.                  *)
MCEntities == <<"a", "m">> :> <<"&">> @@ <<"a", "m", ";">> :> <<"&">> @@
              <<"a", "m", "b", ";">> :> <<"U+1", "U+2">>
MCWindows1252 ==
    [n \in 128..159 |->
        <<8364, 129, 8218, 402, 8222, 8230, 8224, 8225, 710, 8240, 352, 8249, 338, 141, 381, 143,
          144, 8216, 8217, 8220, 8221, 8226, 8211, 8212, 732, 8482, 353, 8250, 339, 157, 382,
          376>>[n - 127]]

Document == [foreign |-> FALSE, keep_duplicate |-> FALSE, context |-> <<>>,
             fragment |-> FALSE]
Foreign == [Document EXCEPT !.foreign = TRUE]
Keeping == [Document EXCEPT !.keep_duplicate = TRUE]
Inside(name) == [Document EXCEPT !.context = name]
RcData == Inside(<<"t", "t">>)
RawText == Inside(<<"y", "y">>)
Script == Inside(<<"s", "s">>)
PlainText == Inside(<<"p", "p">>)
Fragment(where) == [where EXCEPT !.fragment = TRUE]

Of(front, letters, most, back, settings) ==
    {<<front \o w \o back, s>> : w \in UNION {[1..n -> letters] : n \in 0..most}, s \in settings}

Lineends == {"CR", "LF", "NUL"}

Tagged ==
    Of(<<>>, {"a", "<", "/", ">", " "}, 4, <<>>, {Document}) \cup
    Of(<<"<", "a">>, {"a", "A", " ", "/", ">", "="}, 3, <<">", "a">>, {Document, Keeping}) \cup
    Of(<<"<", "a", " ", "a">>, {"A", "=", " ", "NUL"}, 3, <<">">>, {Document, Keeping}) \cup
    Of(<<"<", "a", " ", "a", "=">>, {"\"", "a", " ", ">"}, 4, <<>>, {Document}) \cup
    Of(<<"<", "a", " ", "a", "=", "'", "'">>, {"a", "/", " "}, 2, <<">">>, {Document}) \cup
    Of(<<"<", "a", " ", "a", "=", "\"">>, {"a", "'"} \cup Lineends, 3, <<"\"", ">">>, {Document}) \cup
    Of(<<"<", "a", " ", "a", "=", "'">>, {"a", "\""} \cup Lineends, 2, <<"'", ">">>, {Document}) \cup
    Of(<<"<", "a", " ", "a", "=">>, {"a"} \cup Lineends, 2, <<">">>, {Document})

Referring ==
    Of(<<>>, {"a", "&", ";", "CR", "LF", "NUL"}, 3, <<>>, {Document, RcData}) \cup
    Of(<<"&">>, {"a", "m", "b", ";"}, 4, <<>>, {Document}) \cup
    Of(<<"<", "a", " ", "a", "=", "&", "a">>, {"m", "b", ";", "="}, 3, <<">">>, {Document}) \cup
    Of(<<"<", "a", " ", "a", "=", "\"", "&", "a">>, {"m", "b", ";", "&"}, 3, <<"\"", ">">>,
       {Document}) \cup
    Of(<<"&", "#">>, {"x", "0", "1", "8", ";"}, 3, <<>>, {Document}) \cup
    Of(<<"&", "#", "x", "1", "1", "0">>, {"0", "F", ";"}, 4, <<>>, {Document}) \cup
    Of(<<"&", "#", "x", "1", "0", "F", "F">>, {"F", ";"}, 2, <<>>, {Document}) \cup
    Of(<<"&", "#", "X">>, {"D", "8", "0"}, 4, <<";">>, {Document}) \cup
    Of(<<"<", "a", " ", "a", "=", "'", "&", "#">>, {"8", "X", "&"}, 2, <<"'", ">">>, {Document})

Commented ==
    Of(<<"<", "!">>, {"-", "d", "o", ">"}, 4, <<>>, {Document}) \cup
    Of(<<"<", "!", "-", "-">>, {"-", "!", ">", "<"}, 4, <<>>, {Document}) \cup
    Of(<<"<", "!", "-", "-">>, {"-", "!"} \cup Lineends, 3, <<">">>, {Document}) \cup
    Of(<<"<", "!", "a">>, {"-", ">"} \cup Lineends, 3, <<>>, {Document}) \cup
    Of(<<"a", "<", "?">>, {"x", "m", "?", ">", " ", "-"}, 3, <<>>, {Document}) \cup
    Of(<<"<", "?", "x", "m">>, {"?", ">", " ", "-", "x", "NUL"}, 3, <<>>, {Document}) \cup
    Of(<<"<", "?", "a">>, {"?", " ", ">"} \cup Lineends, 3, <<>>, {Document}) \cup
    Of(<<"<", "!", "[", "C", "[">>, {"]", ">", "a"} \cup Lineends, 3, <<>>, {Foreign}) \cup
    Of(<<"<", "!", "[", "C", "[">>, {"]", ">", "a"}, 4, <<>>, {Document, Foreign}) \cup
    Of(<<"<", "!", "[", "a">>, {"[", ">"}, 2, <<>>, {Foreign})

Doctypes ==
    Of(<<"<", "!", "d", "O">>, {" ", "A", ">", "NUL"}, 4, <<>>, {Document}) \cup
    Of(<<"<", "!", "d", "o", "x", " ">>, {" ", "p", "u", "s", "y", ">"}, 3, <<>>, {Document}) \cup
    Of(<<"<", "!", "d", "o", "x", " ", "p", "u">>, {" ", "\"", ">", "a"}, 4, <<>>,
       {Document}) \cup
    Of(<<"<", "!", "d", "o", "x", " ", "s", "y">>, {" ", "\"", "'", ">", "a"}, 3, <<>>,
       {Document}) \cup
    Of(<<"<", "!", "d", "o", "x", " ", "p", "u", "'", "'">>, {" ", "\"", "'", ">", "a"}, 3, <<>>,
       {Document}) \cup
    Of(<<"<", "!", "d", "o", "x", " ", "p", "u", "\"">>, {"\"", "a"} \cup Lineends, 2, <<>>,
       {Document}) \cup
    Of(<<"<", "!", "d", "o", "x", " ", "s", "y", "'">>, {"'", "a"} \cup Lineends, 2, <<>>,
       {Document})

Contents ==
    Of(<<"<">>, {"<", "/", "t", ">"}, 4, <<">">>, {RcData}) \cup
    Of(<<>>, {"<", "/", "y", ">"}, 4, <<>>, {RawText}) \cup
    Of(<<"<", "/">>, {"y", "/", ">", " "}, 4, <<"a">>, {RawText, Document}) \cup
    Of(<<>>, {"a", "<"} \cup Lineends, 3, <<>>, {RcData, RawText, Script, PlainText, Document}) \cup
    Of(<<"<">>, {"!", "-", "/", "s", ">"}, 4, <<>>, {Script}) \cup
    Of(<<"<", "!", "-", "-">>, {"<", "/", "s", ">", "-"}, 4, <<>>, {Script}) \cup
    Of(<<"<", "!", "-", "-">>, {"<", "-", "a"} \cup Lineends, 3, <<>>, {Script}) \cup
    Of(<<"<", "!", "-", "-", "<", "s", "s", ">">>, {"<", "/", "s", ">", "-"}, 3,
       <<"/", "s", "s", ">", "a">>, {Script}) \cup
    Of(<<"<", "!", "-", "-", "<", "s", "s", ">">>, {"<", "-", "a"} \cup Lineends, 3, <<>>, {Script}) \cup
    Of(<<"<", "t">>, {"t", ">", "<", "/"}, 3, <<"<", "a", ">">>, {Document, Foreign}) \cup
    Of(<<"<", "/">>, {"y", "/", ">", " "}, 3, <<"a">>, {Fragment(Document), Fragment(RawText)}) \cup
    Of(<<"<">>, {"!", "-", "/", "s", ">"}, 3, <<"/", "s", "s", ">">>, {Fragment(Script)}) \cup
    {<<<<"<">> \o name \o <<">", "<", "a", ">">>, s>> :
        name \in DOMAIN MCRaw, s \in {Document, Foreign}}

(* What is known to come out otherwise is left out: see README.md.  Such   *)
(* are text that ends in "<!" ...                                          *)
Known(s) == Len(s) > 2 /\ SubSeq(s, Len(s) - 1, Len(s)) = <<"<", "!">>

MCTexts ==
    {pair \in UNION {Tagged, Referring, Commented, Doctypes, Contents} : ~Known(pair[1])}

MCReused == {<<<<"&", "a", "m">>, Document>>, <<<<"<", "a", " ", "a", "=", "a", ">">>, Document>>}

(* ... a keyword of a doctype that is cut, unless a chunk ends with it, and *)
(* "[CDATA[" in a document, unless only its last character is cut off.     *)
CutsKeyword(s, from, to, word) ==
    \E i \in 1..(Len(s) - Len(word) + 1) :
        /\ IsWord(SubSeq(s, i, i + Len(word) - 1), word)
        /\ from \in i..(i + Len(word) - 2) /\ to >= i + Len(word)
MCHands(s, where, from, to) ==
    /\ ~CutsKeyword(s, from, to, MCWords.public) /\ ~CutsKeyword(s, from, to, MCWords.system)
    /\ from = 3 /\ s[3] = "[" => where.foreign /\ Whole!Looks(s, 3, MCWords.cdata)
=============================================================================
