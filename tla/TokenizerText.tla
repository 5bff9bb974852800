---------------------------- MODULE TokenizerText ----------------------------
(***************************************************************************)
(* Text, and the content of elements that is not markup: state_rcdata.c,   *)
(* state_rawtext.c, state_script.c and their like in state.c.              *)
(***************************************************************************)
EXTENDS TokenizerBase

(* The contents an end tag of its own name ends, and the words of theirs   *)
(* that stand between "<" and the tag.                                     *)
Content == {"rcdata", "rawtext", "script_data", "script_data_escaped"}
LessThanSignOf(content) == content \o "_less_than_sign"
EndTagOpenOf(content) == content \o "_end_tag_open"
EndTagNameOf(content) == content \o "_end_tag_name"

TextStates == Content \cup {"data", "plaintext", "cdata_section", "script_data_double_escaped"}
Escaped == {"script_data_escaped", "script_data_double_escaped"}

(* The helpers that are not in the specification.                          *)
Before ==
    \E state \in {"data", "rcdata", "rawtext", "script_data", "plaintext"} :
        /\ In(state \o "_before")
        /\ LET begun == To(IF is_eof THEN tkz ELSE Cleared(tkz), state)
           IN  Goes(IF state = "plaintext" THEN Kind(begun, "text") ELSE begun, at)

TextAtEnd ==
    /\ at < fed /\ tkz.state \in TextStates /\ AtEnd
    /\ Goes(TextDone(SetText(Kind(tkz, "text"))), fed)

(* The "<" is only kept where what follows may yet be text.                *)
DataLessThan == Met("data", "<") /\ Goes(To(tkz, "tag_open"), at + 1)

ContentLessThan ==
    \E content \in Content :
        Met(content, "<") /\ Goes(With(To(tkz, LessThanSignOf(content)), <<"<">>), at + 1)

ContentLessThanSign ==
    \E content \in Content \ {"script_data_escaped"} :
        /\ In(LessThanSignOf(content))
        /\ \/ Here = "/" /\ Goes(To(tkz, EndTagOpenOf(content)), at + 1)
           \/ /\ content = "script_data" /\ Here = "!"
              /\ Goes(To(tkz, "script_data_escape_start"), at + 1)
           \/ /\ Here # "/" /\ ~(content = "script_data" /\ Here = "!")
              /\ Goes(To(tkz, content), at)

(* entity_start keeps the place of the "<" in the text.                    *)
ContentEndTagOpen ==
    \E content \in Content :
        /\ In(EndTagOpenOf(content))
        /\ Goes(With(IF Here \in Alpha
                     THEN [To(tkz, EndTagNameOf(content)) EXCEPT !.entity_start = Len(tkz.buf) - 1]
                     ELSE To(tkz, content), <<"/">>), at)

(* The text in front of the end tag becomes a token, and the tag begins.   *)
CloseContent(t, state) ==
    LET front == [Kind(t, "text") EXCEPT !.buf = SubSeq(@, 1, t.entity_start)]
    IN  [To(TextDone(SetText(front)), state) EXCEPT
            !.token.kind = "tag", !.token.name = t.tmp_tag_id, !.token.type = {"close"}]

ContentEndTagName ==
    \E content \in Content :
        /\ In(EndTagNameOf(content))
        /\ LET named == SetTag(tkz, SubSeq(tkz.buf, tkz.entity_start + 3, Len(tkz.buf)))
               matches == named.token.name = tkz.tmp_tag_id
           IN  \/ Here \in Alpha /\ Goes(With(tkz, <<Here>>), at + 1)
               \/ Here \notin Alpha \cup NameStops /\ Goes(To(tkz, content), at)
               \/ Here \in NameStops /\ ~matches /\ Goes(To(named, content), at)
               \/ Here \in White /\ matches
                  /\ Goes(CloseContent(named, "before_attribute_name"), at + 1)
               \/ Here = "/" /\ matches
                  /\ Goes(CloseContent(named, "self_closing_start_tag"), at + 1)
               \/ Here = ">" /\ matches /\ Goes(Done(CloseContent(named, "data_before")), at + 1)

-----------------------------------------------------------------------------
(* Scripts with comments in them.                                          *)

EscapeStart ==
    /\ In("script_data_escape_start")
    /\ \/ Here = "-" /\ Goes(To(tkz, "script_data_escape_start_dash"), at + 1)
       \/ Here # "-" /\ Goes(With(To(tkz, "script_data"), <<"!">>), at)

EscapeStartDash ==
    /\ In("script_data_escape_start_dash")
    /\ \/ /\ Here = "-"
          /\ Goes(With(To(tkz, "script_data_escaped_dash_dash"), <<"!", "-", "-">>), at + 1)
       \/ Here # "-" /\ Goes(With(To(tkz, "script_data"), <<"!", "-">>), at)

(* A dash, and a second one, in the escaped and the double escaped text.   *)
EscapedDash ==
    \E escaped \in Escaped, dashes \in {"", "_dash"} :
        /\ In(escaped \o dashes) /\ Here = "-"
        /\ Goes(With(To(tkz, escaped \o dashes \o "_dash"), <<"-">>), at + 1)

EscapedMoreDashes ==
    \E escaped \in Escaped :
        In(escaped \o "_dash_dash") /\ Here = "-" /\ Goes(With(tkz, <<"-">>), at + 1)

EscapedLessThan ==
    \E escaped \in Escaped, dashes \in {"", "_dash", "_dash_dash"} :
        /\ In(escaped \o dashes) /\ Here = "<"
        /\ ~(escaped \in Content /\ dashes = "")        \* ContentLessThan
        /\ Goes(With(To(tkz, LessThanSignOf(escaped)), <<"<">>), at + 1)

EscapedEnds ==
    \E escaped \in Escaped :
        /\ In(escaped \o "_dash_dash") /\ Here = ">"
        /\ IF escaped = "script_data_escaped" THEN Goes(To(tkz, "script_data"), at)
           ELSE Goes(With(To(tkz, "script_data"), <<">">>), at + 1)

(* Only these three look for a NUL and for the end themselves.             *)
DashNull ==
    \E escaped \in Escaped, dashes \in {"_dash", "_dash_dash"} :
        /\ escaped \o dashes # "script_data_escaped_dash_dash"
        /\ In(escaped \o dashes)
        /\ \/ AtEnd /\ Goes(TextDone(SetText(Kind(tkz, "text"))), fed)
           \/ AtNull /\ Goes(With(To(tkz, escaped), <<Bad>>), at + 1)

DashOther ==
    \E escaped \in Escaped, dashes \in {"_dash", "_dash_dash"} :
        /\ In(escaped \o dashes)
        /\ Here \notin {"-", "<"} /\ ~(dashes = "_dash_dash" /\ Here = ">")
        /\ Here = "NUL" => escaped \o dashes = "script_data_escaped_dash_dash"
        /\ Goes(To(tkz, escaped), at)

EscapedLessThanSign ==
    /\ In("script_data_escaped_less_than_sign")
    /\ \/ Here = "/" /\ Goes(To(tkz, "script_data_escaped_end_tag_open"), at + 1)
       \/ /\ Here \in Alpha
          /\ Goes([To(tkz, "script_data_double_escape_start") EXCEPT
                      !.entity_start = Len(tkz.buf)], at)
       \/ Here \notin Alpha \cup {"/"} /\ Goes(To(tkz, "script_data_escaped"), at)

DoubleEscapedLessThanSign ==
    /\ In("script_data_double_escaped_less_than_sign")
    /\ \/ Here = "/" /\ Goes(To(tkz, "script_data_double_escaped_end_tag_open"), at + 1)
       \/ Here # "/" /\ Goes(To(tkz, "script_data_double_escaped"), at)

DoubleEscapedEndTagOpen ==
    /\ In("script_data_double_escaped_end_tag_open")
    /\ Goes(With(IF Here \in Alpha
                 THEN [To(tkz, "script_data_double_escape_end") EXCEPT
                          !.entity_start = Len(tkz.buf) + 1]
                 ELSE To(tkz, "script_data_double_escaped"), <<"/">>), at)

(* The word behind "<" or "</": "script" changes what the text is.         *)
DoubleEscape(state, changed, same) ==
    /\ In(state)
    /\ LET word == SubSeq(tkz.buf, tkz.entity_start + 1, Len(tkz.buf))
       IN  \/ Here \in Alpha /\ Goes(With(tkz, <<Here>>), at + 1)
           \/ /\ Here \in NameStops /\ IsWord(word, Words.script)
              /\ Goes(To(tkz, changed), at)
           \/ /\ Here \notin Alpha /\ ~(Here \in NameStops /\ IsWord(word, Words.script))
              /\ Goes(To(tkz, same), at)

DoubleEscapeStart ==
    DoubleEscape("script_data_double_escape_start",
                 "script_data_double_escaped", "script_data_escaped")
DoubleEscapeEnd ==
    DoubleEscape("script_data_double_escape_end",
                 "script_data_escaped", "script_data_double_escaped")

-----------------------------------------------------------------------------
(* CDATA sections.                                                         *)

CdataBefore ==
    /\ In("cdata_section_before")
    /\ Goes(Kind(Cleared(To(tkz, "cdata_section")), "text"), at)

CdataBracket ==
    \/ Met("cdata_section", "]") /\ Goes(To(tkz, "cdata_section_bracket"), at + 1)
    \/ /\ Met("cdata_section_bracket", "]")
       /\ Goes(To(tkz, "cdata_section_end"), at + 1)
    \/ /\ In("cdata_section_bracket") /\ Here # "]"
       /\ Goes(With(To(tkz, "cdata_section"), <<"]">>), at)

CdataEnd ==
    /\ In("cdata_section_end")
    /\ \/ Here = "]" /\ Goes(With(tkz, <<"]">>), at + 1)
       \/ Here = ">" /\ Goes(TextDone(SetText(To(tkz, "data_before"))), at + 1)
       \/ /\ Here \notin {"]", ">"}
          /\ Goes(With(To(tkz, "cdata_section"), <<"]", "]">>), at)

TextStep ==
    \/ Run \/ CarriageReturn \/ Cr \/ Null \/ Before
    \/ TextAtEnd \/ DataLessThan
    \/ ContentLessThan \/ ContentLessThanSign \/ ContentEndTagOpen \/ ContentEndTagName
    \/ EscapeStart \/ EscapeStartDash \/ EscapedDash \/ EscapedMoreDashes
    \/ EscapedLessThan \/ EscapedEnds \/ DashNull \/ DashOther
    \/ EscapedLessThanSign \/ DoubleEscapedLessThanSign \/ DoubleEscapedEndTagOpen
    \/ DoubleEscapeStart \/ DoubleEscapeEnd
    \/ CdataBefore \/ CdataBracket \/ CdataEnd
=============================================================================
