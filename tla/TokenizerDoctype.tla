--------------------------- MODULE TokenizerDoctype ---------------------------
(***************************************************************************)
(* Doctypes: state_doctype.c.  The name is the first attribute of the      *)
(* token; the public identifier is the value of the second, which has the  *)
(* keyword for its name, and so is a system identifier without a public.   *)
(***************************************************************************)
EXTENDS TokenizerMarkup

Keywords == {"public", "system"}

After(keyword) == "doctype_after_" \o keyword \o "_keyword"
AfterName(keyword) == "doctype_after_name_" \o keyword
BeforeIdentifier(keyword) == "doctype_before_" \o keyword \o "_identifier"
AfterIdentifier(keyword) == "doctype_after_" \o keyword \o "_identifier"
IdentifierIn(keyword, quote) ==
    "doctype_" \o keyword \o "_identifier_"
               \o (IF quote = "'" THEN "single_quoted" ELSE "double_quoted")
Between == "doctype_between_public_and_system_identifiers"

Quirks(t) == Typed(t, "force_quirks")
DoctypeDone(t) == Done(To(t, "data_before"))
DoctypeToBogus(t) == Quirks(To(t, "doctype_bogus"))

(* lxb_html_token_attr_delete                                              *)
WithoutLast(t) == [t EXCEPT !.token.attrs = SubSeq(@, 1, Len(@) - 1)]

DoctypeBefore ==
    /\ In("doctype_before")
    /\ LET begun == Kind(tkz, "doctype")
       IN  \/ AtEnd /\ Goes(Done(Quirks(begun)), fed)
           \/ /\ ~AtEnd
              /\ Goes(To(begun, "doctype_before_name"), IF Here \in White THEN at + 1 ELSE at)

DoctypeBeforeName ==
    /\ In("doctype_before_name")
    /\ LET named == To(Cleared(AddAttr(tkz)), "doctype_name")
       IN  \/ Here \in White /\ Goes(tkz, at + 1)
           \/ Here = ">" /\ Goes(DoctypeDone(Quirks(tkz)), at + 1)
           \/ AtNull /\ Goes(With(named, <<Bad>>), at + 1)
           \/ Here \notin White \cup {">", "NUL"} /\ Goes(named, at)

DoctypeName ==
    /\ In("doctype_name")
    /\ LET named == SetName(tkz, tkz.buf)
       IN  \/ Here \in White /\ Goes(To(named, "doctype_after_name"), at + 1)
           \/ Here = ">" /\ Goes(DoctypeDone(named), at + 1)
           \/ AtEnd /\ Goes(Done(Quirks(named)), fed)

(* The keyword is the name of an attribute that is added for it.           *)
DoctypeAfterName ==
    /\ In("doctype_after_name")
    /\ LET added == Cleared(AddAttr(tkz))
           reads(keyword) ==
               /\ Begins(Words[keyword])
               /\ Short(Words[keyword]) \/ IsWord(Ahead(Words[keyword]), Words[keyword])
       IN  \/ Here \in White /\ Goes(tkz, at + 1)
           \/ Here = ">" /\ Goes(DoctypeDone(tkz), at + 1)
           \/ \E keyword \in Keywords :
                  /\ reads(keyword) /\ Short(Words[keyword])
                  /\ Goes([To(added, AfterName(keyword)) EXCEPT !.markup = Words[keyword]], at)
           \/ \E keyword \in Keywords :
                  /\ reads(keyword) /\ ~Short(Words[keyword])
                  /\ Goes(SetName(To(added, After(keyword)), Words[keyword]),
                          at + Len(Words[keyword]))
           \/ /\ ~AtEnd /\ Here \notin White \cup {">"}
              /\ \A keyword \in Keywords : ~reads(keyword)
              /\ Goes(DoctypeToBogus(WithoutLast(added)), at)

(* The character behind a keyword that was split is left out.              *)
DoctypeAfterNameSplit ==
    \E keyword \in Keywords :
        /\ In(AfterName(keyword))
        /\ LET behind == at + Len(tkz.markup) + 1
           IN  \/ ~StillSame /\ Goes(DoctypeToBogus(WithoutLast(tkz)), at)
               \/ /\ StillSame /\ ~Short(tkz.markup)
                  /\ Goes(SetName(To(tkz, After(keyword)), Words[keyword]),
                          IF behind > fed THEN fed ELSE behind)
               \/ StillSame /\ Short(tkz.markup) /\ WaitsForMore(tkz)

DoctypeBeforeIdentifier ==
    \E keyword \in Keywords :
        /\ In(After(keyword)) \/ In(BeforeIdentifier(keyword))
        /\ \/ Here \in White /\ Goes(To(tkz, BeforeIdentifier(keyword)), at + 1)
           \/ /\ Here \in {"\"", "'"}
              /\ Goes(To(tkz, IdentifierIn(keyword, Here)), at + 1)
           \/ Here = ">" /\ Goes(DoctypeDone(Quirks(tkz)), at + 1)
           \/ /\ ~AtEnd /\ Here \notin White \cup {"\"", "'", ">"}
              /\ Goes(DoctypeToBogus(tkz), at)

DoctypeIdentifier ==
    \E keyword \in Keywords, quote \in {"\"", "'"} :
        /\ In(IdentifierIn(keyword, quote))
        /\ \/ /\ Here = quote
              /\ Goes(To(SetValue(Entered(tkz)), AfterIdentifier(keyword)), at + 1)
           \/ Here = ">" /\ Goes(DoctypeDone(Quirks(SetValue(Entered(tkz)))), at + 1)
           \/ /\ AtEnd
              /\ Goes(Done(Quirks(SetValue(IF tkz.value_begun THEN tkz ELSE Cleared(tkz)))), fed)

DoctypeAfterPublicIdentifier ==
    /\ In(AfterIdentifier("public")) \/ In(Between)
    /\ \/ Here \in White /\ Goes(To(tkz, Between), at + 1)
       \/ Here = ">" /\ Goes(DoctypeDone(tkz), at + 1)
       \/ /\ Here \in {"\"", "'"}
          /\ Goes(To(AddAttr(tkz), IdentifierIn("system", Here)), at + 1)
       \/ /\ ~AtEnd /\ Here \notin White \cup {"\"", "'", ">"}
          /\ Goes(DoctypeToBogus(tkz), at)

DoctypeAfterSystemIdentifier ==
    /\ In(AfterIdentifier("system"))
    /\ \/ Here \in White /\ Goes(tkz, at + 1)
       \/ Here = ">" /\ Goes(DoctypeDone(tkz), at + 1)
       \/ /\ ~AtEnd /\ Here \notin White \cup {">"}
          /\ Goes(To(tkz, "doctype_bogus"), at)

DoctypeBogus ==
    /\ In("doctype_bogus")
    /\ \/ Here = ">" /\ Goes(DoctypeDone(tkz), at + 1)
       \/ AtEnd /\ Goes(Done(tkz), fed)
       \/ ~AtEnd /\ Here # ">" /\ Goes(tkz, at + 1)

DoctypeAtEnd ==
    /\ at < fed /\ AtEnd
    /\ tkz.state \in {"doctype_before_name", "doctype_after_name", Between}
                     \cup UNION {{After(keyword), BeforeIdentifier(keyword),
                                  AfterIdentifier(keyword)} : keyword \in Keywords}
    /\ Goes(Done(Quirks(tkz)), fed)

DoctypeStep ==
    \/ DoctypeBefore \/ DoctypeBeforeName \/ DoctypeName
    \/ DoctypeAfterName \/ DoctypeAfterNameSplit
    \/ DoctypeBeforeIdentifier \/ DoctypeIdentifier
    \/ DoctypeAfterPublicIdentifier \/ DoctypeAfterSystemIdentifier
    \/ DoctypeBogus \/ DoctypeAtEnd
=============================================================================
