--------------------------- MODULE TokenizerMarkup ---------------------------
(***************************************************************************)
(* What begins with "<!" and "<?": comments (state_comment.c), the way to  *)
(* a doctype or a CDATA section, and processing instructions (state.c).    *)
(***************************************************************************)
EXTENDS TokenizerBase

(* What of the chunk can be compared with a word.                          *)
Ahead(word) ==
    LET n == IF fed - at < Len(word) THEN fed - at ELSE Len(word)
    IN  [k \in 1..n |-> Char(at + k - 1)]
Short(word) == fed - at < Len(word)
Begins(word) == IsWord(<<Here>>, <<word[1]>>)

(* lexbor_str_data_ncasecmp_first: of a word begun in an earlier chunk.    *)
StillSame == IsWord(Ahead(tkz.markup), SubSeq(tkz.markup, 1, Len(Ahead(tkz.markup))))
WaitsForMore(t) ==
    Goes([t EXCEPT !.markup = SubSeq(@, Len(Ahead(@)) + 1, Len(@))], fed)

MarkupDeclarationOpen ==
    /\ In("markup_declaration_open")
    /\ LET t == IF is_eof THEN tkz ELSE Cleared(tkz)
           comment == Here = "-" /\ (at + 1 = fed \/ Char(at + 1) = "-")
           doctype == /\ Begins(Words.doctype)
                      /\ Short(Words.doctype) \/ IsWord(Ahead(Words.doctype), Words.doctype)
           cdata == /\ Here = Words.cdata[1]
                    /\ Short(Words.cdata) \/ (Ahead(Words.cdata) = Words.cdata /\ setting.foreign)
           waits(state, word) == Goes([To(t, state) EXCEPT !.markup = word], at)
       IN  \/ /\ comment /\ at + 1 = fed
              /\ Goes(To(t, "markup_declaration_comment"), at + 1)
           \/ comment /\ at + 1 < fed /\ Goes(To(t, "comment_before_start"), at + 2)
           \/ /\ doctype /\ Short(Words.doctype)
              /\ waits("markup_declaration_doctype", Words.doctype)
           \/ /\ doctype /\ ~Short(Words.doctype)
              /\ Goes(To(t, "doctype_before"), at + Len(Words.doctype))
           \/ /\ cdata /\ Short(Words.cdata)
              /\ waits("markup_declaration_cdata", Words.cdata)
           \/ /\ cdata /\ ~Short(Words.cdata)
              /\ Goes(To(t, "cdata_section_before"), at + Len(Words.cdata))
           \/ /\ ~comment /\ ~doctype /\ ~cdata
              /\ Goes(To(t, "bogus_comment_before"), at)

MarkupDeclarationComment ==
    /\ In("markup_declaration_comment")
    /\ \/ Here = "-" /\ Goes(To(tkz, "comment_before_start"), at + 1)
       \/ Here # "-" /\ Goes(With(To(tkz, "bogus_comment_before"), <<"-">>), at)

MarkupDeclarationDoctype ==
    /\ In("markup_declaration_doctype")
    /\ \/ ~StillSame /\ Goes(To(tkz, "bogus_comment_before"), at)
       \/ /\ StillSame /\ ~Short(tkz.markup)
          /\ Goes(To(tkz, "doctype_before"), at + Len(tkz.markup))
       \/ /\ StillSame /\ Short(tkz.markup)
          /\ WaitsForMore(With(tkz, Ahead(tkz.markup)))

(* What was read of "[CDATA[" is not kept, and put back as a whole.        *)
MarkupDeclarationCdata ==
    /\ In("markup_declaration_cdata")
    /\ \/ ~StillSame /\ Goes(To(tkz, "bogus_comment_before"), at)
       \/ /\ StillSame /\ ~Short(tkz.markup) /\ setting.foreign
          /\ Goes(To(tkz, "cdata_section_before"), at + Len(tkz.markup))
       \/ /\ StillSame /\ ~Short(tkz.markup) /\ ~setting.foreign
          /\ Goes(With(To(tkz, "bogus_comment_before"),
                       SubSeq(Words.cdata, 1, Len(Words.cdata) - 1)), at)
       \/ StillSame /\ Short(tkz.markup) /\ WaitsForMore(tkz)

-----------------------------------------------------------------------------
(* Comments.                                                               *)

CommentDone(t) == Done(SetText(t))
CommentClosed(t) == CommentDone(To(t, "data_before"))

BogusCommentBefore ==
    /\ In("bogus_comment_before")
    /\ Goes(Kind(To(tkz, "bogus_comment"), "comment"), at)

BogusCommentEnds ==
    \/ Met("bogus_comment", ">") /\ Goes(CommentClosed(tkz), at + 1)
    \/ In("bogus_comment") /\ AtEnd /\ Goes(CommentDone(tkz), fed)

(* The dashes that have been read and may yet be part of the comment.      *)
Held == "comment_start_dash" :> <<"-">> @@ "comment_end_dash" :> <<"-">> @@
        "comment_end" :> <<"-", "-">> @@ "comment_end_bang" :> <<"-", "-", "!">>

BehindDash ==
    "comment" :> "comment_end_dash" @@ "comment_start_dash" :> "comment_end" @@
    "comment_end_dash" :> "comment_end" @@
    "comment_less_than_sign_bang" :> "comment_less_than_sign_bang_dash" @@
    "comment_less_than_sign_bang_dash" :> "comment_less_than_sign_bang_dash_dash"

CommentBeforeStart ==
    /\ In("comment_before_start")
    /\ LET begun == Kind(IF is_eof THEN tkz ELSE Cleared(tkz), "comment")
       IN  \/ Here = "-" /\ Goes(To(begun, "comment_start_dash"), at + 1)
           \/ Here = ">" /\ Goes(CommentClosed(begun), at + 1)
           \/ Here \notin {"-", ">"} /\ Goes(To(begun, "comment"), at)

CommentDash ==
    \/ \E state \in DOMAIN BehindDash :
           Met(state, "-") /\ Goes(To(tkz, BehindDash[state]), at + 1)
    \/ Met("comment_end", "-") /\ Goes(With(tkz, <<"-">>), at + 1)
    \/ /\ Met("comment_end_bang", "-")
       /\ Goes(With(To(tkz, "comment_end_dash"), Held["comment_end_bang"]), at + 1)

CommentBang ==
    \/ Met("comment_end", "!") /\ Goes(To(tkz, "comment_end_bang"), at + 1)
    \/ /\ Met("comment_less_than_sign", "!")
       /\ Goes(With(To(tkz, "comment_less_than_sign_bang"), <<"!">>), at + 1)

CommentLessThan ==
    \E state \in {"comment", "comment_less_than_sign"} :
        Met(state, "<") /\ Goes(With(To(tkz, "comment_less_than_sign"), <<"<">>), at + 1)

CommentNoLessThan ==
    \/ /\ In("comment_less_than_sign") /\ Here \notin {"!", "<"}
       /\ Goes(To(tkz, "comment"), at)
    \/ In("comment_less_than_sign_bang") /\ Here # "-" /\ Goes(To(tkz, "comment"), at)
    \/ /\ In("comment_less_than_sign_bang_dash") /\ Here # "-"
       /\ Goes(To(tkz, "comment_end_dash"), at)
    \/ In("comment_less_than_sign_bang_dash_dash") /\ Goes(To(tkz, "comment_end"), at)

CommentEnds ==
    \/ \E state \in DOMAIN Held \ {"comment_end_dash"} :
           Met(state, ">") /\ Goes(CommentClosed(tkz), at + 1)
    \/ \E state \in DOMAIN Held \cup {"comment"} :
           In(state) /\ AtEnd /\ Goes(CommentDone(tkz), fed)

CommentGoesOn ==
    \E state \in DOMAIN Held :
        /\ In(state) /\ ~AtEnd /\ Here # "-"
        /\ Here = ">" => state = "comment_end_dash"
        /\ Here = "!" => state # "comment_end"
        /\ Goes(With(To(tkz, "comment"), Held[state]), at)

-----------------------------------------------------------------------------
(* Processing instructions.  The text has the target in front.             *)

PiToComment(t) == [To(t, "bogus_comment_before") EXCEPT !.buf = <<"?">> \o @]

PiOpen ==
    /\ In("processing_instruction_open")
    /\ \/ /\ Here \in Alpha \cup {"_"}
          /\ Goes(Kind(To(tkz, "processing_instruction_target"), "pi"), at)
       \/ /\ ~is_eof /\ Here \notin Alpha \cup {"_"}
          /\ Goes(PiToComment(Cleared(tkz)), at)

PiTarget ==
    /\ In("processing_instruction_target")
    /\ LET ends == Here \in White \cup {"?", ">"}
           reserved == \E word \in Words.reserved : IsWord(tkz.buf, word)
       IN  \/ Here \in Alnum \cup {"-", "_"} /\ Goes(With(tkz, <<Here>>), at + 1)
           \/ /\ ends /\ ~reserved
              /\ Goes([To(tkz, "after_processing_instruction_target") EXCEPT
                          !.token.null_count = Len(tkz.buf)], at)
           \/ /\ ~AtEnd /\ Here \notin Alnum \cup {"-", "_"} /\ (ends => reserved)
              /\ Goes(PiToComment(tkz), at)

PiAfterTarget ==
    /\ In("after_processing_instruction_target")
    /\ \/ Here \in White /\ Goes(tkz, at + 1)
       \/ Here \notin White /\ Goes(To(tkz, "processing_instruction_data"), at)

PiData ==
    /\ In("processing_instruction_data")
    /\ LET line == With(tkz, <<"LF">>)
       IN  \/ Here = "?" /\ Goes(To(tkz, "processing_instruction_questionable"), at + 1)
           \/ Here = ">" /\ Goes(CommentClosed(tkz), at + 1)
           \/ /\ Here = "CR" /\ at + 1 = fed
              /\ Goes([To(line, "crlf") EXCEPT !.state_return = tkz.state], fed)
           \/ /\ Here = "CR" /\ at + 1 < fed
              /\ Goes(line, IF Char(at + 1) = "LF" THEN at + 2 ELSE at + 1)
           \/ /\ ~AtEnd /\ Here \notin {"?", ">", "CR"}
              /\ Goes(With(tkz, <<Here>>), at + 1)

Crlf ==
    In("crlf") /\ Goes(To(tkz, tkz.state_return), IF Here = "LF" THEN at + 1 ELSE at)

PiQuestionable ==
    /\ In("processing_instruction_questionable")
    /\ \/ Here = ">" /\ Goes(CommentClosed(tkz), at + 1)
       \/ /\ ~AtEnd /\ Here # ">"
          /\ Goes(With(To(tkz, "processing_instruction_data"), <<"?">>), at)

PiAtEnd ==
    /\ at < fed /\ AtEnd
    /\ tkz.state \in {"processing_instruction_open", "processing_instruction_target",
                      "processing_instruction_data", "processing_instruction_questionable"}
    /\ Goes(tkz, fed)

MarkupStep ==
    \/ MarkupDeclarationOpen \/ MarkupDeclarationComment
    \/ MarkupDeclarationDoctype \/ MarkupDeclarationCdata
    \/ BogusCommentBefore \/ BogusCommentEnds
    \/ CommentBeforeStart \/ CommentDash \/ CommentBang \/ CommentLessThan
    \/ CommentNoLessThan \/ CommentEnds \/ CommentGoesOn
    \/ PiOpen \/ PiTarget \/ PiAfterTarget \/ PiData \/ Crlf \/ PiQuestionable \/ PiAtEnd
=============================================================================
