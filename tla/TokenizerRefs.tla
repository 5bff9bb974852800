---------------------------- MODULE TokenizerRefs ----------------------------
(***************************************************************************)
(* Character references, in text and in attribute values: the last part of *)
(* state.c.  What was read of one stays in the buffer until it is known to *)
(* be one; entity_start and entity_end are places in the buffer.           *)
(***************************************************************************)
EXTENDS TokenizerBase

Base == "char_ref_decimal" :> 10 @@ "char_ref_hexademical" :> 16
IsDigit(c, state) == c \in DOMAIN HexValue /\ HexValue[c] < Base[state]

Returned(t) == To(t, t.state_return)

Ampersand ==
    \E state \in Values \cup {"data", "rcdata"} :
        /\ Met(state, "&")
        /\ Goes([With(Entered(tkz), <<"&">>) EXCEPT
                    !.state = "char_ref", !.state_return = state,
                    !.is_attribute = state \in Values], at + 1)

CharRef ==
    /\ In("char_ref")
    /\ LET started == [tkz EXCEPT !.entity_start = Len(tkz.buf) - 1]
       IN  \/ /\ Here \in Alnum
              /\ Goes([To(started, "char_ref_named") EXCEPT
                          !.entity = <<>>, !.entity_match = <<>>], at)
           \/ /\ Here = "#"
              /\ Goes(With(To(started, "char_ref_numeric"), <<"#">>), at + 1)
           \/ Here \notin Alnum \cup {"#"} /\ Goes(Returned(tkz), at)

(* In an attribute "&not=" and "&noti" are what they say.                  *)
Literal(t) ==
    LET behind == t.entity_end + 2
        next == IF behind <= Len(t.buf) THEN t.buf[behind] ELSE Here
        match == t.entity_match
    IN  t.is_attribute /\ match[Len(match)] # ";" /\ next \in Alnum \cup {"="}

(* The longest name that was read in full is replaced.                     *)
Replaced(t) ==
    [t EXCEPT !.buf = SubSeq(@, 1, t.entity_start) \o Entities[t.entity_match]
                      \o SubSeq(@, t.entity_end + 2, Len(@))]

CharRefNamed ==
    /\ In("char_ref_named")
    /\ LET read == Append(tkz.entity, Here)
           begins == \E name \in DOMAIN Entities :
                         Len(read) <= Len(name) /\ read = SubSeq(name, 1, Len(read))
           whole == read \in DOMAIN Entities
       IN  \/ /\ begins
              /\ Goes([With(tkz, <<Here>>) EXCEPT
                          !.entity = read,
                          !.entity_match = IF whole THEN read ELSE @,
                          !.entity_end = IF whole THEN Len(tkz.buf) ELSE @], at + 1)
           \/ /\ ~begins /\ tkz.entity_match = <<>>
              /\ Goes(To(tkz, "char_ref_ambiguous_ampersand"), at)
           \/ /\ ~begins /\ tkz.entity_match # <<>>
              /\ Goes(Returned(IF Literal(tkz) THEN tkz ELSE Replaced(tkz)), at)

AmbiguousAmpersand ==
    /\ In("char_ref_ambiguous_ampersand")
    /\ \/ Here \in Alnum /\ Goes(With(tkz, <<Here>>), at + 1)
       \/ Here \notin Alnum /\ Goes(Returned(tkz), at)

CharRefNumeric ==
    /\ In("char_ref_numeric")
    /\ LET zero == [tkz EXCEPT !.entity_number = 0]
       IN  \/ /\ Here \in {"x", "X"}
              /\ Goes(With(To(zero, "char_ref_hexademical_start"), <<Here>>), at + 1)
           \/ Here \notin {"x", "X"} /\ Goes(To(zero, "char_ref_decimal_start"), at)

CharRefNumericStart ==
    \E state \in DOMAIN Base :
        /\ In(state \o "_start")
        /\ Goes(IF IsDigit(Here, state) THEN To(tkz, state) ELSE Returned(tkz), at)

NumericEnd(t) ==
    LET n == t.entity_number
        wrong == n = 0 \/ n > \h10FFFF \/ n \in \hD800..\hDFFF
        char == IF wrong THEN Bad ELSE Named(IF n \in 128..159 THEN Windows1252[n] ELSE n)
    IN  [t EXCEPT !.buf = SubSeq(@, 1, t.entity_start) \o <<char>>]

(* A number that is too large stays as it is, so that it cannot come round. *)
CharRefDigits ==
    \E state \in DOMAIN Base :
        /\ In(state)
        /\ \/ /\ IsDigit(Here, state)
              /\ Goes([tkz EXCEPT !.entity_number =
                          IF @ <= \h10FFFF THEN @ * Base[state] + HexValue[Here] ELSE @], at + 1)
           \/ /\ ~IsDigit(Here, state)
              /\ Goes(NumericEnd(Returned(tkz)), IF Here = ";" THEN at + 1 ELSE at)

RefStep ==
    \/ Ampersand \/ CharRef \/ CharRefNamed \/ AmbiguousAmpersand
    \/ CharRefNumeric \/ CharRefNumericStart \/ CharRefDigits
=============================================================================
