------------------------------ MODULE HtmlTokens ------------------------------
(***************************************************************************)
(* What the tokenizer of lexbor/html promises.  README.md:48 says "Full    *)
(* conformance with the [HTML5 specification]", so this is what that       *)
(* specification makes of a text that is there as a whole, by looking      *)
(* ahead in it as far as needed.                                           *)
(***************************************************************************)
EXTENDS HtmlChars

(* CR LF is one line end, and so is CR.                                    *)
Normal(s) ==
    LET kept == SelectSeq([k \in 1..Len(s) |-> k],
                          LAMBDA k : ~(s[k] = "LF" /\ k > 1 /\ s[k - 1] = "CR"))
    IN  [k \in 1..Len(kept) |-> IF s[kept[k]] = "CR" THEN "LF" ELSE s[kept[k]]]

Shown(s) == [k \in DOMAIN s |-> IF s[k] = "NUL" THEN Bad ELSE s[k]]

At(s, i) == IF i \in 1..Len(s) THEN s[i] ELSE "EOF"
Piece(s, i, word) == SubSeq(s, i, i + Len(word) - 1)
Looks(s, i, word) == i + Len(word) - 1 <= Len(s) /\ Piece(s, i, word) = word
LooksLike(s, i, word) == i + Len(word) - 1 <= Len(s) /\ IsWord(Piece(s, i, word), word)

First(s, i, Is(_)) ==
    LET hits == {j \in i..Len(s) : Is(j)}
    IN  IF hits = {} THEN Len(s) + 1 ELSE CHOOSE j \in hits : \A k \in hits : j <= k
Until(s, i, stops) == First(s, i, LAMBDA j : s[j] \in stops)
Past(s, i, some) == First(s, i, LAMBDA j : s[j] \notin some)

Text(s) == [Blank EXCEPT !.kind = "text", !.text = s,
                         !.null_count = Cardinality({k \in DOMAIN s : s[k] = "NUL"})]
Comment(s) == [Blank EXCEPT !.kind = "comment", !.text = Shown(s)]

(* The tokens of a piece of the text, and how to go on behind it.          *)
Gives(tokens, next, mode) == [tokens |-> tokens, next |-> next, mode |-> mode]
Data == [kind |-> "data", name |-> <<>>]
As(mode, kind) == [mode EXCEPT !.kind = kind]
Mode(d, name) ==
    IF name \in DOMAIN Raw /\ ~d.foreign THEN [kind |-> Raw[name], name |-> name] ELSE Data

-----------------------------------------------------------------------------
(* The character reference at the "&" at i.                                *)

RECURSIVE Number(_, _)
Number(digits, base) ==
    IF digits = <<>> THEN 0
    ELSE Number(SubSeq(digits, 1, Len(digits) - 1), base) * base
         + HexValue[digits[Len(digits)]]

CodePoint(n) ==
    IF n = 0 \/ n > \h10FFFF \/ n \in \hD800..\hDFFF THEN Bad
    ELSE Named(IF n \in 128..159 THEN Windows1252[n] ELSE n)

Reference(s, i, in_value) ==
    LET hex == At(s, i + 2) \in {"x", "X"}
        from == IF hex THEN i + 3 ELSE i + 2
        to == Past(s, from, IF hex THEN DOMAIN HexValue ELSE Digits)
        names == {name \in DOMAIN Entities : Looks(s, i + 1, name)}
    IN  CASE At(s, i + 1) = "#" /\ to > from ->
               [chars |-> <<CodePoint(Number(SubSeq(s, from, to - 1), IF hex THEN 16 ELSE 10))>>,
                next |-> IF At(s, to) = ";" THEN to + 1 ELSE to]
          [] names # {} ->
               LET name == CHOOSE x \in names : \A y \in names : Len(x) >= Len(y)
                   next == i + 1 + Len(name)
                   kept == /\ in_value /\ name[Len(name)] # ";"
                           /\ At(s, next) \in Alnum \cup {"="}
               IN  [chars |-> IF kept THEN SubSeq(s, i, next - 1) ELSE Entities[name],
                    next |-> next]
          [] OTHER -> [chars |-> <<"&">>, next |-> i + 1]

RECURSIVE Value(_, _)
Value(s, i) ==
    IF i > Len(s) THEN <<>>
    ELSE IF s[i] = "&"
    THEN LET r == Reference(s, i, TRUE) IN r.chars \o Value(s, r.next)
    ELSE Shown(<<s[i]>>) \o Value(s, i + 1)

-----------------------------------------------------------------------------
(* Tags.  A tag the text ends in is no token.                              *)

Attr(name, has, value) == [name |-> name, has |-> has, value |-> value]

Added(d, attrs, attr) ==
    IF ~d.keep_duplicate /\ \E k \in DOMAIN attrs : attrs[k].name = attr.name
    THEN attrs ELSE Append(attrs, attr)

RECURSIVE Attrs(_, _, _)
Attrs(d, i, attrs) ==
    LET s == d.chars
        name_end == Until(s, i + 1, White \cup {"/", ">", "="})
        name == Lower(Shown(SubSeq(s, i, name_end - 1)))
        sign == Past(s, name_end, White)
        from == Past(s, sign + 1, White)
        quoted == At(s, from) \in {"\"", "'"}
        to == IF quoted THEN Until(s, from + 1, {s[from]}) ELSE Until(s, from, White \cup {">"})
        valued(first, next) ==
            Attrs(d, next, Added(d, attrs, Attr(name, TRUE, Value(SubSeq(s, first, to - 1), 1))))
        bare(next) == Attrs(d, next, Added(d, attrs, Attr(name, FALSE, <<>>)))
        ends(type, next) == [attrs |-> attrs, type |-> type, next |-> next]
    IN  CASE i > Len(s) -> ends({}, Len(s) + 2)
          [] At(s, i) = ">" -> ends({}, i + 1)
          [] At(s, i) = "/" /\ At(s, i + 1) = ">" -> ends({"self_closing"}, i + 2)
          [] At(s, i) \in White \cup {"/"} -> Attrs(d, i + 1, attrs)
          [] At(s, sign) # "=" -> bare(name_end)
          [] quoted -> valued(from + 1, to + 1)
          [] At(s, from) = ">" -> bare(from)
          [] OTHER -> valued(from, to)

Tag(d, i, type) ==
    LET s == d.chars
        name_end == Until(s, i, White \cup {"/", ">"})
        name == Lower(Shown(SubSeq(s, i, name_end - 1)))
        rest == Attrs(d, name_end, <<>>)
    IN  Gives(IF rest.next > Len(s) + 1 THEN <<>>
              ELSE <<[Blank EXCEPT !.kind = "tag", !.name = name, !.attrs = rest.attrs,
                                   !.type = type \cup rest.type]>>,
              rest.next, IF "close" \in type THEN Data ELSE Mode(d, name))

-----------------------------------------------------------------------------
(* What begins with "<!" and "<?".                                         *)

(* Behind the "<!--" at i - 4.                                             *)
CommentAt(s, i) ==
    LET to == First(s, i, LAMBDA j : \/ Looks(s, j, <<"-", "-", ">">>)
                                     \/ Looks(s, j, <<"-", "-", "!", ">">>))
        rest == SubSeq(s, i, Len(s))
        n == Len(rest)
        cut == CASE n >= 3 /\ Looks(rest, n - 2, <<"-", "-", "!">>) -> 3
                 [] n >= 2 /\ Looks(rest, n - 1, <<"-", "-">>) -> 2
                 [] n >= 1 /\ Looks(rest, n, <<"-">>) -> 1
                 [] OTHER -> 0
    IN  CASE At(s, i) = ">" -> Gives(<<Comment(<<>>)>>, i + 1, Data)
          [] Looks(s, i, <<"-", ">">>) -> Gives(<<Comment(<<>>)>>, i + 2, Data)
          [] to > Len(s) -> Gives(<<Comment(SubSeq(rest, 1, n - cut))>>, to, Data)
          [] OTHER -> Gives(<<Comment(SubSeq(s, i, to - 1))>>,
                            IF s[to + 2] = "!" THEN to + 4 ELSE to + 3, Data)

Bogus(s, i, front) ==
    LET to == Until(s, i, {">"})
    IN  Gives(<<Comment(front \o SubSeq(s, i, to - 1))>>, to + 1, Data)

Cdata(s, i) ==
    LET to == First(s, i, LAMBDA j : Looks(s, j, <<"]", "]", ">">>))
    IN  Gives(<<Text(SubSeq(s, i, to - 1))>>, to + 3, Data)

ProcessingInstruction(s, i) ==
    LET name_end == Past(s, i, Alnum \cup {"-", "_"})
        target == SubSeq(s, i, name_end - 1)
        from == Past(s, name_end, White)
        to == Until(s, name_end, {">"})
        data_end == IF At(s, to - 1) = "?" /\ to - 1 >= from THEN to - 2 ELSE to - 1
    IN  CASE i > Len(s) \/ (At(s, i) \in Alpha \cup {"_"} /\ name_end > Len(s)) ->
               Gives(<<>>, Len(s) + 1, Data)
          [] \/ At(s, i) \notin Alpha \cup {"_"}
             \/ At(s, name_end) \notin White \cup {"?", ">"}
             \/ (\E word \in Words.reserved : IsWord(target, word)) -> Bogus(s, i, <<"?">>)
          [] to > Len(s) -> Gives(<<>>, to, Data)
          [] OTHER ->
               Gives(<<[Blank EXCEPT !.kind = "pi", !.null_count = Len(target),
                            !.text = target \o SubSeq(s, from, data_end)]>>, to + 1, Data)

(* The system identifier behind a public one comes without a keyword.      *)
Doctype(s, attrs, quirks, next) ==
    Gives(<<[Blank EXCEPT !.kind = "doctype", !.attrs = attrs,
                          !.type = IF quirks THEN {"force_quirks"} ELSE {}]>>, next, Data)

DoctypeToClose(s, attrs, quirks, i) == Doctype(s, attrs, quirks, Until(s, i, {">"}) + 1)

RECURSIVE Identifier(_, _, _, _)
Identifier(s, i, attrs, key) ==
    LET from == Past(s, i, White)
        quote == At(s, from)
        to == Until(s, from + 1, {quote, ">"})
        valued == Append(attrs, Attr(key, TRUE, Shown(SubSeq(s, from + 1, to - 1))))
        bare == Append(attrs, Attr(key, FALSE, <<>>))
        behind == Past(s, to + 1, White)
    IN  CASE quote \in {">", "EOF"} -> Doctype(s, bare, TRUE, from + 1)
          [] quote \notin {"\"", "'"} -> DoctypeToClose(s, bare, TRUE, from)
          [] At(s, to) # quote -> Doctype(s, valued, TRUE, to + 1)
          [] At(s, behind) \in {">", "EOF"} ->
               Doctype(s, valued, behind > Len(s), behind + 1)
          [] key = Words.public /\ At(s, behind) \in {"\"", "'"} ->
               Identifier(s, behind, valued, <<>>)
          [] OTHER -> DoctypeToClose(s, valued, key = Words.public, behind)

DoctypeAt(s, i) ==
    LET from == Past(s, i, White)
        to == Until(s, from, White \cup {">"})
        named == <<Attr(Lower(Shown(SubSeq(s, from, to - 1))), FALSE, <<>>)>>
        behind == Past(s, to, White)
    IN  CASE At(s, from) \in {">", "EOF"} -> Doctype(s, <<>>, TRUE, from + 1)
          [] At(s, behind) \in {">", "EOF"} ->
               Doctype(s, named, behind > Len(s), behind + 1)
          [] LooksLike(s, behind, Words.public) ->
               Identifier(s, behind + Len(Words.public), named, Words.public)
          [] LooksLike(s, behind, Words.system) ->
               Identifier(s, behind + Len(Words.system), named, Words.system)
          [] OTHER -> DoctypeToClose(s, named, TRUE, behind)

Markup(d, i) ==
    LET s == d.chars IN
    CASE Looks(s, i, <<"-", "-">>) -> CommentAt(s, i + 2)
      [] LooksLike(s, i, Words.doctype) -> DoctypeAt(s, i + Len(Words.doctype))
      [] Looks(s, i, Words.cdata) /\ d.foreign -> Cdata(s, i + Len(Words.cdata))
      [] OTHER -> Bogus(s, i, <<>>)

-----------------------------------------------------------------------------
(* A text from i on.                                                       *)

Chars(chars, next, mode) == Gives(<<Text(chars)>>, next, mode)

Referenced(s, i, mode) == LET r == Reference(s, i, FALSE) IN Chars(r.chars, r.next, mode)

DataItem(d, i) ==
    LET s == d.chars
        tag == At(s, i) = "<"
        end_tag == tag /\ At(s, i + 1) = "/"
    IN  CASE tag /\ At(s, i + 1) \in Alpha -> Tag(d, i + 1, {})
          [] tag /\ At(s, i + 1) = "!" -> Markup(d, i + 2)
          [] tag /\ At(s, i + 1) = "?" -> ProcessingInstruction(s, i + 2)
          [] end_tag /\ At(s, i + 2) \in Alpha -> Tag(d, i + 2, {"close"})
          [] end_tag /\ At(s, i + 2) = ">" -> Gives(<<>>, i + 3, Data)
          [] end_tag /\ At(s, i + 2) # "EOF" -> Bogus(s, i + 2, <<>>)
          [] At(s, i) = "&" -> Referenced(s, i, Data)
          [] OTHER -> Chars(<<s[i]>>, i + 1, Data)

(* In a script "<!--" hides "<script", and that hides "</script", up to "-->". *)
RawItem(d, i, mode) ==
    LET s == d.chars
        closes == White \cup {"/", ">"}
        word(front, name) ==
            LET to == i + Len(front) + Len(name)
            IN  Looks(s, i, front) /\ LooksLike(s, i + Len(front), name) /\ At(s, to) \in closes
        kind == mode.kind
        through(n, next) == Chars(SubSeq(s, i, i + n - 1), i + n, As(mode, next))
        closing == mode.name # <<>> /\ word(<<"<", "/">>, mode.name)
    IN  CASE kind \notin {"plaintext", "double"} /\ closing ->
               Tag(d, i + 2, {"close"})
          [] kind = "rcdata" /\ s[i] = "&" -> Referenced(s, i, mode)
          [] kind = "script_data" /\ Looks(s, i, <<"<", "!", "-", "-">>) -> through(4, "escaped")
          [] kind = "escaped" /\ word(<<"<">>, Words.script) ->
               through(1 + Len(Words.script), "double")
          [] kind = "double" /\ word(<<"<", "/">>, Words.script) ->
               through(2 + Len(Words.script), "escaped")
          [] kind \in {"escaped", "double"} /\ i > 2 /\ Looks(s, i - 2, <<"-", "-", ">">>) ->
               through(1, "script_data")
          [] OTHER -> Chars(Shown(<<s[i]>>), i + 1, mode)

RECURSIVE Rest(_, _, _)
Rest(d, i, mode) ==
    IF i > Len(d.chars) THEN <<[Blank EXCEPT !.kind = "eof"]>>
    ELSE LET item == IF mode.kind = "data" THEN DataItem(d, i) ELSE RawItem(d, i, mode)
         IN  item.tokens \o Rest(d, item.next, item.mode)

(* All tokens of a text, in a document or in an element of that name.  A   *)
(* fragment has no start tag that an end tag could belong to.              *)
Meaning(text, setting) ==
    LET d == [chars |-> Normal(text), foreign |-> setting.foreign,
              keep_duplicate |-> setting.keep_duplicate]
        mode == Mode(d, setting.context)
    IN  Merged(SelectSeq(Rest(d, 1, IF setting.fragment THEN [mode EXCEPT !.name = <<>>] ELSE mode),
                         LAMBDA token : token.kind # "text" \/ token.text # <<>>))
=============================================================================
