------------------------------- MODULE HtmlChars -------------------------------
(***************************************************************************)
(* The characters, words and tokens of lexbor/html, as far as its          *)
(* tokenizer and what it promises share them.                              *)
(*                                                                         *)
(* A character is a string: a text never needs more of them than there are *)
(* kinds of character to tell apart.  The names and keywords are short.    *)
(***************************************************************************)
EXTENDS Integers, Sequences, FiniteSets, TLC

CONSTANTS
    Letters,       \* the ASCII letters, each with its small form
    HexValue,      \* the hex digits, each with its value
    Words,         \* the keywords: doctype, cdata, public, system, script, and the
                   \* targets reserved for XML
    Raw,           \* the elements whose content is not markup, each with its kind:
                   \* rcdata, rawtext, script_data, plaintext
    Entities,      \* the named character references, each with its characters
    Windows1252    \* what the references to 128..159 stand for

Bad == "U+FFFD"
White == {"TAB", "LF", "FF", "CR", " "}
Alpha == DOMAIN Letters
Digits == {c \in DOMAIN HexValue : HexValue[c] < 10}
Alnum == Alpha \cup Digits

Lower(s) == [k \in DOMAIN s |-> IF s[k] \in Alpha THEN Letters[s[k]] ELSE s[k]]
IsWord(s, word) == Lower(s) = Lower(word)

Named(number) == "U+" \o ToString(number)

(* A token as it is handed to the caller: null_count counts the NULs of a  *)
(* text, and for a processing instruction it is the length of its target.  *)
Blank == [kind |-> "none", name |-> <<>>, type |-> {}, attrs |-> <<>>,
          text |-> <<>>, null_count |-> 0]

(* Neighbouring text is one text, however many tokens bring it.            *)
RECURSIVE Merged(_)
Merged(tokens) ==
    IF Len(tokens) < 2 THEN tokens
    ELSE LET first == tokens[1]
             rest == Merged(Tail(tokens))
         IN  IF first.kind = "text" /\ rest[1].kind = "text"
             THEN <<[first EXCEPT !.text = @ \o rest[1].text,
                                  !.null_count = @ + rest[1].null_count]>> \o Tail(rest)
             ELSE <<first>> \o rest
=============================================================================
