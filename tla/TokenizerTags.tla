---------------------------- MODULE TokenizerTags ----------------------------
(***************************************************************************)
(* Tags and their attributes: state.c from the tag open state to the       *)
(* self-closing start tag state.                                           *)
(***************************************************************************)
EXTENDS TokenizerBase

Quote == "attribute_value_double_quoted" :> "\"" @@ "attribute_value_single_quoted" :> "'"

TagDone(t) == Done(To(t, "data_before"))

TagOpen ==
    /\ In("tag_open")
    /\ \/ Here \in Alpha /\ Goes(Cleared(TextEmitted(To(tkz, "tag_name"))), at)
       \/ Here = "/" /\ Goes(To(tkz, "end_tag_open"), at + 1)
       \/ /\ Here = "!"
          /\ Goes(TextEmitted(To(tkz, "markup_declaration_open")), at + 1)
       \/ /\ Here = "?"
          /\ Goes(Cleared(TextEmitted(To(tkz, "processing_instruction_open"))), at + 1)
       \/ AtEnd /\ Goes(TextEmitted(With(tkz, <<"<">>)), fed)
       \/ /\ ~AtEnd /\ Here \notin Alpha \cup {"/", "!", "?"}
          /\ Goes(With(To(tkz, "data"), <<"<">>), at)

(* "</>" is nothing at all: the text goes on behind it.                    *)
EndTagOpen ==
    /\ In("end_tag_open")
    /\ \/ Here \in Alpha
          /\ Goes(Typed(Cleared(TextEmitted(To(tkz, "tag_name"))), "close"), at)
       \/ Here = ">" /\ Goes(To(tkz, "data"), at + 1)
       \/ AtEnd /\ Goes(TextEmitted(With(tkz, <<"<", "/">>)), fed)
       \/ /\ ~AtEnd /\ Here \notin Alpha \cup {">"}
          /\ Goes(Cleared(TextEmitted(To(tkz, "bogus_comment_before"))), at)

TagName ==
    /\ In("tag_name")
    /\ LET named == SetTag(tkz, tkz.buf)
       IN  \/ Here \in White /\ Goes(To(named, "before_attribute_name"), at + 1)
           \/ Here = "/" /\ Goes(To(named, "self_closing_start_tag"), at + 1)
           \/ Here = ">" /\ Goes(TagDone(named), at + 1)

(* A tag the text ends in is forgotten.                                    *)
TagAtEnd ==
    /\ at < fed /\ AtEnd
    /\ tkz.state \in Values \cup {"tag_name", "after_attribute_name",
                                  "after_attribute_value_quoted", "self_closing_start_tag"}
    /\ Goes(tkz, fed)

NextAttr(t) == To(Cleared(AddAttr(t)), "attribute_name")

BeforeAttributeName ==
    /\ In("before_attribute_name")
    /\ \/ Here \in White /\ Goes(tkz, at + 1)
       \/ Here = "=" /\ Goes(With(NextAttr(tkz), <<"=">>), at + 1)
       \/ (Here \in {"/", ">"} \/ AtEnd) /\ Goes(To(tkz, "after_attribute_name"), at)
       \/ /\ ~AtEnd /\ Here \notin White \cup {"=", "/", ">"}
          /\ Goes(NextAttr(tkz), at)

AttributeName ==
    /\ In("attribute_name")
    /\ \/ Here \in NameStops
          /\ Goes(To(SetName(tkz, tkz.buf), "after_attribute_name"), at)
       \/ Here = "="
          /\ Goes(To(SetName(tkz, tkz.buf), "before_attribute_value"), at + 1)
       \/ AtEnd /\ Goes(To(tkz, "after_attribute_name"), at)

AfterAttributeName ==
    /\ In("after_attribute_name")
    /\ \/ Here \in White /\ Goes(tkz, at + 1)
       \/ Here = "/" /\ Goes(To(tkz, "self_closing_start_tag"), at + 1)
       \/ Here = "=" /\ Goes(To(tkz, "before_attribute_value"), at + 1)
       \/ Here = ">" /\ Goes(TagDone(tkz), at + 1)
       \/ ~AtEnd /\ Here \notin NameStops \cup {"="} /\ Goes(NextAttr(tkz), at)

BeforeAttributeValue ==
    /\ In("before_attribute_value")
    /\ \/ Here \in White /\ Goes(tkz, at + 1)
       \/ \E state \in DOMAIN Quote : Here = Quote[state] /\ Goes(To(tkz, state), at + 1)
       \/ Here = ">" /\ Goes(TagDone(tkz), at + 1)
       \/ /\ Here \notin White \cup {"\"", "'", ">"}
          /\ Goes(To(tkz, "attribute_value_unquoted"), at)

QuotedValueEnds ==
    \E state \in DOMAIN Quote :
        /\ Met(state, Quote[state])
        /\ Goes(To(SetValue(Entered(tkz)), "after_attribute_value_quoted"), at + 1)

UnquotedValueEnds ==
    /\ In("attribute_value_unquoted")
    /\ LET valued == SetValue(Entered(tkz))
       IN  \/ Here \in White /\ Goes(To(valued, "before_attribute_name"), at + 1)
           \/ Here = ">" /\ Goes(TagDone(valued), at + 1)

AfterAttributeValueQuoted ==
    /\ In("after_attribute_value_quoted")
    /\ \/ Here \in White /\ Goes(To(tkz, "before_attribute_name"), at + 1)
       \/ Here = "/" /\ Goes(To(tkz, "self_closing_start_tag"), at + 1)
       \/ Here = ">" /\ Goes(TagDone(tkz), at + 1)
       \/ ~AtEnd /\ Here \notin NameStops /\ Goes(To(tkz, "before_attribute_name"), at)

SelfClosingStartTag ==
    /\ In("self_closing_start_tag")
    /\ \/ Here = ">" /\ Goes(TagDone(Typed(tkz, "self_closing")), at + 1)
       \/ ~AtEnd /\ Here # ">" /\ Goes(To(tkz, "before_attribute_name"), at)

TagStep ==
    \/ TagOpen \/ EndTagOpen \/ TagName \/ TagAtEnd
    \/ BeforeAttributeName \/ AttributeName \/ AfterAttributeName
    \/ BeforeAttributeValue \/ QuotedValueEnds \/ UnquotedValueEnds
    \/ AfterAttributeValueQuoted \/ SelfClosingStartTag
=============================================================================
