------------------------------ MODULE Tokenizer ------------------------------
(***************************************************************************)
(* The tokenizer of lexbor/html as a whole, and what it is held to.        *)
(***************************************************************************)
EXTENDS TokenizerText, TokenizerTags, TokenizerRefs, TokenizerDoctype

Whole == INSTANCE HtmlTokens

Step == TextStep \/ TagStep \/ RefStep \/ MarkupStep \/ DoctypeStep

Next == Chunk \/ Step \/ End \/ EndOfFile \/ Clean

Spec == Init /\ [][Next]_vars

(* The tokens of a text are those the HTML specification makes of it,      *)
(* however it was cut into chunks and whatever the tokenizer was used for  *)
(* before: no token, character reference or line end depends on a cut.     *)
TokensAsWhole == phase = "done" => Merged(tkz.out) = Whole!Meaning(text, setting)
=============================================================================
