------------------------------ MODULE Encodings ------------------------------
(***************************************************************************)
(* What the decoders of lexbor/encoding promise: README.md of the          *)
(* repository says "Full conformance with the Encoding specification", so  *)
(* this is that specification, for a text that is there as a whole.        *)
(*                                                                         *)
(* An encoding is a set of byte sequences, each the code of a character.   *)
(* A text is cut from the left: a piece is the code of a character, or is  *)
(* refused at its first byte that no code has in this place; a refused     *)
(* piece counts for one error and gives some of its bytes back, to be read *)
(* again.  Only ISO-2022-JP needs more, a mode that escapes switch.        *)
(*                                                                         *)
(* A character is named by its code, <<129, 64>>, or by its number where   *)
(* the code computes it, <<65>>: the index maps are one to one, so nothing *)
(* is lost by not looking a code up.  Bad is the replacement character.    *)
(***************************************************************************)
EXTENDS Integers, Sequences, TLC

CONSTANTS
    Unmapped,    \* for each encoding, the well-formed codes without a character
    Combined     \* the codes of Big5 that stand for two characters, with them

Bad == <<>>

In(b, low, high) == b \in low..high

-----------------------------------------------------------------------------
(* The well-formed codes.  Begins: more bytes make it a code.              *)

NeedOf(b) == IF b < \hE0 THEN 2 ELSE IF b < \hF0 THEN 3 ELSE 4

(* The bytes of UTF-8 that may stand second, by the first.                 *)
SecondOf(b) ==
    IF b = \hE0 THEN \hA0..\hBF ELSE IF b = \hED THEN \h80..\h9F
    ELSE IF b = \hF0 THEN \h90..\hBF ELSE IF b = \hF4 THEN \h80..\h8F
    ELSE \h80..\hBF

Utf8Fits(s) ==
    /\ In(s[1], \hC2, \hF4)
    /\ Len(s) >= 2 => s[2] \in SecondOf(s[1])
    /\ \A k \in 3..Len(s) : In(s[k], \h80, \hBF)

(* The two bytes of a unit of UTF-16, the high one first.                  *)
Unit(enc, s, i) == IF enc = "utf_16le" THEN <<s[i + 1], s[i]>> ELSE <<s[i], s[i + 1]>>

IsHigh(unit) == In(unit[1], \hD8, \hDB)
IsLow(unit) == In(unit[1], \hDC, \hDF)

Gb4(s) == \A k \in 1..Len(s) : IF k % 2 = 1 THEN In(s[k], \h81, \hFE)
                                            ELSE In(s[k], \h30, \h39)

Begins(enc, s) ==
    CASE enc \in {"single_byte", "x_user_defined"} -> FALSE
      [] enc \in {"big5", "euc_kr"} -> Len(s) = 1 /\ In(s[1], \h81, \hFE)
      [] enc = "shift_jis" ->
            Len(s) = 1 /\ (In(s[1], \h81, \h9F) \/ In(s[1], \hE0, \hFC))
      [] enc = "euc_jp" ->
            \/ Len(s) = 1 /\ (s[1] \in {\h8E, \h8F} \/ In(s[1], \hA1, \hFE))
            \/ Len(s) = 2 /\ s[1] = \h8F /\ In(s[2], \hA1, \hFE)
      [] enc = "utf_8" -> Utf8Fits(s) /\ Len(s) < NeedOf(s[1])
      [] enc \in {"utf_16be", "utf_16le"} ->
            Len(s) = 1 \/ (Len(s) \in {2, 3} /\ IsHigh(Unit(enc, s, 1)))
      [] enc = "gb18030" -> Len(s) < 4 /\ Gb4(s)

Shaped(enc, s) ==
    CASE enc \in {"single_byte", "x_user_defined"} -> Len(s) = 1
      [] s[1] < \h80 /\ enc \notin {"utf_16be", "utf_16le"} -> Len(s) = 1
      [] enc = "big5" -> Len(s) = 2 /\ (In(s[2], \h40, \h7E) \/ In(s[2], \hA1, \hFE))
      [] enc = "euc_kr" -> Len(s) = 2 /\ In(s[2], \h41, \hFE)
      [] enc = "shift_jis" ->
            \/ Len(s) = 1 /\ (s[1] = \h80 \/ In(s[1], \hA1, \hDF))
            \/ Len(s) = 2 /\ (In(s[2], \h40, \h7E) \/ In(s[2], \h80, \hFC))
      [] enc = "euc_jp" ->
            \/ Len(s) = 2 /\ s[1] = \h8E /\ In(s[2], \hA1, \hDF)
            \/ Len(s) = 2 /\ In(s[1], \hA1, \hFE) /\ In(s[2], \hA1, \hFE)
            \/ Len(s) = 3 /\ In(s[3], \hA1, \hFE)
      [] enc = "utf_8" -> Utf8Fits(s) /\ Len(s) = NeedOf(s[1])
      [] enc \in {"utf_16be", "utf_16le"} ->
            LET unit == Unit(enc, s, 1) IN
                \/ Len(s) = 2 /\ ~IsHigh(unit) /\ ~IsLow(unit)
                \/ Len(s) = 4 /\ IsLow(Unit(enc, s, 3))
      [] enc = "gb18030" ->
            \/ s = <<\h80>>
            \/ Len(s) = 2 /\ (In(s[2], \h40, \h7E) \/ In(s[2], \h80, \hFE))
            \/ Len(s) = 4 /\ Gb4(s)

Whole(enc, s) == Shaped(enc, s) /\ s \notin Unmapped[enc]

(* The characters a code stands for.                                       *)
Meaning(enc, s) ==
    CASE enc = "big5" /\ s \in DOMAIN Combined ->
            << <<Combined[s][1]>>, <<Combined[s][2]>> >>
      [] enc = "shift_jis" /\ Len(s) = 1 /\ s[1] > \h80 -> << <<\hFF61 - \hA1 + s[1]>> >>
      [] enc = "euc_jp" /\ s[1] = \h8E -> << <<\hFF61 - \hA1 + s[2]>> >>
      [] enc = "gb18030" /\ s = <<\h80>> -> << <<\h20AC>> >>
      [] enc = "utf_16le" -> << Unit(enc, s, 1) \o (IF Len(s) = 4 THEN Unit(enc, s, 3) ELSE <<>>) >>
      [] OTHER -> <<s>>

(* How many bytes a refused piece takes with it: its last byte is read     *)
(* again when it could begin something else, and so is what came before it *)
(* in UTF-16 and in the four bytes of GB18030.                             *)
Dropped(enc, s) ==
    CASE enc = "utf_8" -> IF Len(s) = 1 THEN 1 ELSE Len(s) - 1
      [] enc \in {"utf_16be", "utf_16le"} -> 2
      [] enc = "gb18030" /\ Len(s) \in {3, 4} -> IF Gb4(s) THEN 4 ELSE 1
      [] OTHER -> IF s[Len(s)] < \h80 THEN Len(s) - 1 ELSE Len(s)

-----------------------------------------------------------------------------
(* Cutting a text.  A piece says what is read, how many bytes it takes and *)
(* the mode after it.                                                      *)

Piece(chars, take, mode) == [chars |-> chars, take |-> take, mode |-> mode]

(* A text that ends inside a code is one error, whatever has been read.    *)
PieceAt(enc, text, i) ==
    LET part(k) == SubSeq(text, i, i + k - 1)
        left == Len(text) - i + 1
        cuts == {k \in 1..left : ~Begins(enc, part(k)) /\ \A n \in 1..(k - 1) : Begins(enc, part(n))}
    IN  IF cuts = {} THEN Piece(<<Bad>>, left, "none")
        ELSE LET k == CHOOSE n \in cuts : TRUE IN
             IF Whole(enc, part(k)) THEN Piece(Meaning(enc, part(k)), k, "none")
             ELSE Piece(<<Bad>>, Dropped(enc, part(k)), "none")

ModeOf(second, third) ==
    CASE <<second, third>> = <<\h28, \h42>> -> "ascii"
      [] <<second, third>> = <<\h28, \h4A>> -> "roman"
      [] <<second, third>> = <<\h28, \h49>> -> "katakana"
      [] <<second, third>> \in {<<\h24, \h40>>, <<\h24, \h42>>} -> "lead"
      [] OTHER -> "none"

(* ISO-2022-JP in a mode; fresh says that the mode was switched to and     *)
(* nothing read since: two escapes in a row are an error.                  *)
IsoPieceAt(text, i, mode, fresh) ==
    LET b == text[i]
        next == IF i + 2 <= Len(text) THEN ModeOf(text[i + 1], text[i + 2]) ELSE "none"
        then(chars, take) == Piece(chars, take, mode) @@ [fresh |-> FALSE]
    IN  CASE b = \h1B /\ next # "none" ->
                Piece(IF fresh THEN <<Bad>> ELSE <<>>, 3, next) @@ [fresh |-> TRUE]
          [] b = \h1B -> then(<<Bad>>, 1)
          [] mode \in {"ascii", "roman"} /\ b < \h80 /\ b \notin {\h0E, \h0F} ->
                then(IF mode = "roman" /\ b = \h5C THEN << <<\hA5>> >>
                     ELSE IF mode = "roman" /\ b = \h7E THEN << <<\h203E>> >> ELSE << <<b>> >>, 1)
          [] mode = "katakana" /\ In(b, \h21, \h5F) -> then(<< <<\hFF61 - \h21 + b>> >>, 1)
          [] mode = "lead" /\ In(b, \h21, \h7E) ->
                IF i = Len(text) \/ text[i + 1] = \h1B THEN then(<<Bad>>, 1)
                ELSE LET code == <<b, text[i + 1]>> IN
                     IF In(code[2], \h21, \h7E) /\ code \notin Unmapped["iso_2022_jp"]
                     THEN then(<<code>>, 2) ELSE then(<<Bad>>, 2)
          [] OTHER -> then(<<Bad>>, 1)

(* The characters of a text, with `replace` replacement characters for an  *)
(* error; without any, decoding ends at the first error.                   *)
Decoded(enc, text, replace) ==
    LET after[i \in 1..(Len(text) + 1), mode \in {"none", "ascii", "roman", "katakana", "lead"},
              fresh \in BOOLEAN] ==
            IF i > Len(text) THEN <<>>
            ELSE LET iso == enc = "iso_2022_jp"
                     piece == IF iso THEN IsoPieceAt(text, i, mode, fresh)
                              ELSE PieceAt(enc, text, i)
                     rest == after[i + piece.take, piece.mode, IF iso THEN piece.fresh ELSE FALSE]
                 IN  IF piece.chars # <<Bad>> THEN piece.chars \o rest
                     ELSE IF replace = 0 THEN <<>>
                     ELSE [n \in 1..replace |-> Bad] \o rest
    IN  after[1, IF enc = "iso_2022_jp" THEN "ascii" ELSE "none", FALSE]
=============================================================================
