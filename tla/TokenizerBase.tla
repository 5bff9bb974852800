---------------------------- MODULE TokenizerBase ----------------------------
(***************************************************************************)
(* The tokenizer of lexbor/html and its caller, who hands a text over in   *)
(* chunks.  tkz->state is the function that goes on with the chunk: it     *)
(* reads as far as it can and leaves the function that goes on from there, *)
(* at once or with the next chunk.  What a token has collected is kept in  *)
(* tkz->start .. tkz->pos in between.                                      *)
(*                                                                         *)
(* A step is one turn of a state function's loop: a run of characters that *)
(* mean nothing to it, or the character it knows.                          *)
(***************************************************************************)
EXTENDS HtmlChars

CONSTANTS
    Texts,              \* the texts, with the settings each is looked at in
    Reused,             \* those a tokenizer that has been used before is given
    Hands(_, _, _, _)   \* whether a text in a setting is handed over from one place to another

ASSUME TextsAssumption == Reused \subseteq Texts

VARIABLES
    text,      \* the whole text
    setting,   \* foreign: the current node is not in the HTML namespace;
               \* keep_duplicate: OPT_ATTR_KEEP_DUPLICATE; context: the element it
               \* is in, read before it or, for a fragment, named by the caller
    fed,       \* how many characters the caller has handed over
    at,        \* how many of them have been read
    phase,     \* chunks, end for lxb_html_tokenizer_end, done
    tkz        \* lxb_html_tokenizer_t, with what the callback was given in out

vars == <<text, setting, fed, at, phase, tkz>>

is_eof == phase = "end"

(* The character behind the first a ones; the end of the text is read as a *)
(* NUL, which only is_eof tells from one of the text.                      *)
Char(a) == IF a = Len(text) THEN "NUL" ELSE text[a + 1]
Here == Char(at)
AtEnd == Here = "NUL" /\ is_eof
AtNull == Here = "NUL" /\ ~is_eof

In(state) == at < fed /\ tkz.state = state

Goes(t, a) == tkz' = t /\ at' = a /\ UNCHANGED <<text, setting, fed, phase>>

-----------------------------------------------------------------------------
(* What the state functions do to the tokenizer, from the macros of state.h. *)

To(t, state) == [t EXCEPT !.state = state]
With(t, chars) == [t EXCEPT !.buf = @ \o chars]
Cleared(t) == [t EXCEPT !.buf = <<>>]
Kind(t, kind) == [t EXCEPT !.token.kind = kind, !.token.name = <<>>]    \* one field, tag_id
Typed(t, type) == [t EXCEPT !.token.type = @ \cup {type}]
SetTag(t, name) == [t EXCEPT !.token.kind = "tag", !.token.name = Lower(name)]
SetText(t) == [t EXCEPT !.token.text = t.buf]

LastAttr(t) == Len(t.token.attrs)
SetName(t, name) == [t EXCEPT !.token.attrs[LastAttr(t)].name = Lower(name)]
SetValue(t) ==
    [t EXCEPT !.token.attrs[LastAttr(t)].has = TRUE,
              !.token.attrs[LastAttr(t)].value = t.buf]

(* lxb_html_tokenizer_attr_last_duplicate                                  *)
Distinct(t) ==
    LET attrs == t.token.attrs
        last == Len(attrs)
    IN  IF ~setting.keep_duplicate /\ \E k \in 1..(last - 1) : attrs[k].name = attrs[last].name
        THEN [t EXCEPT !.token.attrs = SubSeq(attrs, 1, last - 1)] ELSE t

(* An attribute begins; its value has not: attr->value_begin is NULL.      *)
AddAttr(t) ==
    [Distinct(t) EXCEPT !.token.attrs = Append(@, [name |-> <<>>, has |-> FALSE, value |-> <<>>]),
                        !.value_begun = FALSE]

(* What tree construction sets from the callback when such a start tag     *)
(* comes; lxb_html_tokenizer_set_state_by_tag does the same.               *)
StateByTag(t, name) ==
    IF setting.foreign THEN To(t, "data_before")
    ELSE IF name \notin DOMAIN Raw THEN t
    ELSE [To(t, Raw[name] \o "_before") EXCEPT
             !.tmp_tag_id = IF Raw[name] = "plaintext" THEN @ ELSE name]

Callback(t) ==
    IF t.token.kind = "tag" /\ "close" \notin t.token.type THEN StateByTag(t, t.token.name) ELSE t

(* _lxb_html_tokenizer_state_token_done_m and lxb_html_token_clean.        *)
Emitted(t) ==
    LET distinct == Distinct(t)
    IN  [Callback(distinct) EXCEPT !.out = Append(@, distinct.token), !.token = Blank]

(* lxb_html_tokenizer_state_token_done_m                                   *)
Done(t) == Cleared(Emitted(t))

(* lxb_html_tokenizer_state_token_text_done_m                              *)
TextDone(t) == IF t.token.text # <<>> THEN Done(t) ELSE Cleared([t EXCEPT !.token = Blank])

(* lxb_html_tokenizer_state_token_emit_text_not_empty_m: pos stays.        *)
TextEmitted(t) == IF t.buf = <<>> THEN t ELSE Emitted(SetText(Kind(t, "text")))

-----------------------------------------------------------------------------
(* The states that collect characters up to one they know.                 *)

NameStops == White \cup {"/", ">"}

Stops ==
    "data" :> {"<", "&"} @@ "rcdata" :> {"<", "&"} @@ "rawtext" :> {"<"} @@
    "script_data" :> {"<"} @@ "script_data_escaped" :> {"<", "-"} @@
    "script_data_double_escaped" :> {"<", "-"} @@ "plaintext" :> {} @@
    "cdata_section" :> {"]"} @@ "comment" :> {"<", "-"} @@ "bogus_comment" :> {">"} @@
    "tag_name" :> NameStops @@ "attribute_name" :> NameStops \cup {"="} @@
    "attribute_value_double_quoted" :> {"\"", "&"} @@
    "attribute_value_single_quoted" :> {"'", "&"} @@
    "attribute_value_unquoted" :> White \cup {"&", ">"} @@
    "doctype_name" :> White \cup {">"} @@
    "doctype_public_identifier_double_quoted" :> {"\"", ">"} @@
    "doctype_public_identifier_single_quoted" :> {"'", ">"} @@
    "doctype_system_identifier_double_quoted" :> {"\"", ">"} @@
    "doctype_system_identifier_single_quoted" :> {"'", ">"}

Identifiers == {"doctype_public_identifier_double_quoted", "doctype_public_identifier_single_quoted",
                "doctype_system_identifier_double_quoted", "doctype_system_identifier_single_quoted"}
Values == {"attribute_value_double_quoted", "attribute_value_single_quoted",
           "attribute_value_unquoted"}

(* Text and values begin with an empty buffer when they are first entered. *)
Entered(t) ==
    IF t.state \in Values \cup Identifiers /\ ~t.value_begun /\ ~is_eof
    THEN [Cleared(t) EXCEPT !.value_begun = TRUE] ELSE t

(* Where CR stands for a line end: CR is none of the characters it knows.  *)
Lines(state) == "CR" \notin Stops[state]

Collecting == at < fed /\ tkz.state \in DOMAIN Stops
Met(state, c) == In(state) /\ Here = c

Run ==
    LET known == Stops[tkz.state] \cup {"CR", "NUL"}
        to == CHOOSE j \in at..fed : /\ j = fed \/ Char(j) \in known
                                     /\ \A k \in at..(j - 1) : Char(k) \notin known
    IN  Collecting /\ to > at /\ Goes(With(Entered(tkz), SubSeq(text, at + 1, to)), to)

(* A CR at the end of the chunk waits for the next one to see its LF.      *)
CarriageReturn ==
    /\ Collecting /\ Here = "CR" /\ Lines(tkz.state)
    /\ \/ at + 1 = fed
          /\ Goes([To(Entered(tkz), "cr") EXCEPT !.state_return = tkz.state], fed)
       \/ at + 1 < fed
          /\ Goes(With(Entered(tkz), <<"LF">>), IF Char(at + 1) = "LF" THEN at + 2 ELSE at + 1)

(* A slip the run must find: the LF behind a CR is one more line end.      *)
CrKeepsLf == In("cr") /\ Goes(With(To(tkz, tkz.state_return), <<"LF">>), at)

Cr ==
    /\ In("cr")
    /\ Goes(With(To(tkz, tkz.state_return), <<"LF">>), IF Here = "LF" THEN at + 1 ELSE at)

(* Text of the document keeps a NUL for tree construction to see.          *)
Null ==
    /\ Collecting /\ AtNull
    /\ Goes(IF tkz.state \in {"data", "cdata_section"}
            THEN [With(tkz, <<"NUL">>) EXCEPT !.token.null_count = @ + 1]
            ELSE With(Entered(tkz), <<Bad>>), at + 1)

-----------------------------------------------------------------------------
(* The caller.                                                             *)

(* The state in front of the text.  The parser of fragments sets it from   *)
(* the element it is given, but forgets the name.                          *)
Fresh(t, s) ==
    LET cleaned == [t EXCEPT !.state = "data_before", !.state_return = "none", !.buf = <<>>,
                             !.token = Blank, !.out = <<>>]
    IN  IF s.context \in DOMAIN Raw
        THEN [cleaned EXCEPT !.state = Raw[s.context] \o "_before",
                                !.tmp_tag_id = IF s.fragment THEN <<>> ELSE s.context]
        ELSE cleaned

(* lxb_html_tokenizer_init leaves everything empty.                        *)
Nothing == [state |-> "none", state_return |-> "none", buf |-> <<>>, token |-> Blank, out |-> <<>>,
            value_begun |-> FALSE, markup |-> <<>>, tmp_tag_id |-> <<>>, is_attribute |-> FALSE,
            entity |-> <<>>, entity_match |-> <<>>, entity_start |-> 0, entity_end |-> 0,
            entity_number |-> 0]

Init ==
    /\ \E pair \in Texts : text = pair[1] /\ setting = pair[2]
    /\ fed = 0 /\ at = 0 /\ phase = "chunks"
    /\ tkz = Fresh(Nothing, setting)

(* lxb_html_tokenizer_chunk                                                *)
Chunk ==
    /\ phase = "chunks" /\ at = fed
    /\ \E to \in (fed + 1)..Len(text) : Hands(text, setting, fed, to) /\ fed' = to
    /\ UNCHANGED <<text, setting, at, phase, tkz>>

(* lxb_html_tokenizer_end: one more character that is none ...             *)
End ==
    /\ phase = "chunks" /\ at = fed /\ fed = Len(text)
    /\ phase' = "end" /\ fed' = fed + 1
    /\ UNCHANGED <<text, setting, at, tkz>>

(* ... and the token that says so.                                         *)
EndOfFile ==
    /\ phase = "end" /\ at = fed
    /\ phase' = "done"
    /\ tkz' = Emitted(Kind([tkz EXCEPT !.token = Blank], "eof"))
    /\ UNCHANGED <<text, setting, fed, at>>

(* lxb_html_tokenizer_clean and _begin, between any two chunks.            *)
Clean ==
    /\ phase \in {"chunks", "done"} /\ at = fed
    /\ \E pair \in Reused : text' = pair[1] /\ setting' = pair[2]
    /\ fed' = 0 /\ at' = 0 /\ phase' = "chunks"
    /\ tkz' = Fresh(tkz, setting')
=============================================================================
