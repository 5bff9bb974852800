------------------------------- MODULE MCDecode -------------------------------
(***************************************************************************)
(* Decode for TLC: for each encoding a few bytes, one or two of each kind  *)
(* its decoder tells apart, all texts of them up to a length, cut in every *)
(* way, and buffers that hold one or two characters.                       *)
(***************************************************************************)
EXTENDS Decode, FiniteSets

Of(bytes, most) == [bytes |-> bytes, most |-> most]

MCVocabularies ==
    ("single_byte"    :> {Of({\h41, \hC1, \hD2}, 4)}) @@
    ("x_user_defined" :> {Of({\h41, \hC1}, 3)}) @@
    ("big5"           :> {Of({\h41, \h62, \h80, \h88}, 4), Of({\h41, \h81}, 5)}) @@
    ("euc_kr"         :> {Of({\h30, \h41, \h81}, 4), Of({\h41, \h80, \hFE}, 4)}) @@
    ("shift_jis"      :> {Of({\h41, \h81, \h85, \hA1}, 4), Of({\h81, \hA0}, 4)}) @@
    ("euc_jp"         :> {Of({\h41, \h8F, \hB0}, 4), Of({\h8E, \hA9, \hB0}, 4),
                          Of({\h80, \h8F, \hB0}, 4)}) @@
    ("utf_8"          :> {Of({\h41, \hC3, \hA9}, 3), Of({\hE0, \hA0, \h8F}, 4),
                          Of({\hED, \hA0, \h9F}, 3), Of({\hF0, \h90, \h8F}, 5),
                          Of({\hF4, \h90, \h8F}, 5), Of({\hC1, \hF5, \hE1}, 3)}) @@
    ("utf_16be"       :> {Of({\hD8, \hDC, \h00}, 5), Of({\hD8, \h00}, 6)}) @@
    ("utf_16le"       :> {Of({\hD8, \hDC}, 6)}) @@
    ("gb18030"        :> {Of({\h30, \h81}, 8), Of({\h30, \h41, \h81}, 5),
                          Of({\h30, \h81, \hFE}, 4), Of({\h80, \h81, \hFF}, 3)}) @@
    ("iso_2022_jp"    :> {Of({\h1B, \h28, \h4A}, 6), Of({\h1B, \h24, \h42, \h7D}, 6),
                          Of({\h1B, \h28, \h4A, \h5C, \h7E}, 4), Of({\h1B, \h28, \h49, \hFF}, 4)})

MCUnmapped ==
    ("single_byte" :> {<<\hD2>>}) @@
    ("big5"        :> {<<\h81, \h41>>, <<\h81, \h62>>}) @@
    ("euc_kr"      :> {<<\hFE, \h41>>, <<\hFE, \hFE>>}) @@
    ("shift_jis"   :> {\h85} \X {\h41, \h81, \h85, \hA1}) @@
    ("euc_jp"      :> {\hA9} \X {\hA9, \hB0}) @@
    ("gb18030"     :> {\hFE} \X {\h30} \X {\h81, \hFE} \X {\h30}) @@
    ("iso_2022_jp" :> ({\h7D} \X {\h7D}) \cup {<<\h28, \h42>>}) @@
    [e \in DOMAIN MCVocabularies |-> {}]

MCCombined == (<<\h88, \h62>> :> <<\hCA, \h304>>)
MCRooms == {1, 2}

(* What the run leaves out because the code is known not to do it right;   *)
(* README.md gives an input for each.                                      *)

(* A character of a one-byte encoding that is not ASCII and finds the      *)
(* buffer full is lost, and a Big5 code of two characters never fits a     *)
(* buffer for one.                                                         *)
FullBuffer(e, given, chunk, n) ==
    \/ /\ e = "single_byte" /\ n < (Len(given) - chunk) * (IF replace = 2 THEN 2 ELSE 1)
       /\ \E k \in (chunk + 2)..Len(given) :
              given[k] >= \h80 /\ <<given[k]>> \notin Unmapped[e]
    \/ e = "big5" /\ n = 1

(* After a four-byte sequence of GB18030 whose fourth byte is wrong, the   *)
(* next one that is cut behind its third byte is read wrongly.             *)
CutBehindThird(given) ==
    LET three(k) == k >= 1 /\ k + 2 <= Len(given) /\ Gb4(SubSeq(given, k, k + 2))
    IN  /\ three(Len(given) - 2)
        /\ \E k \in 1..(Len(given) - 3) : three(k) /\ given[k + 3] \notin Digit

(* With a replacement of two characters: a four-byte code that stands for  *)
(* nothing, and errors of ISO-2022-JP that have to be owed.                *)
LongReplacement(e, given) ==
    \/ e = "gb18030" /\ \E k \in 1..(Len(given) - 3) :
                             SubSeq(given, k, k + 3) \in Unmapped[e]
    \/ e = "iso_2022_jp" /\ \h1B \in Range(given)

(* The longer texts of ISO-2022-JP begin with an escape, and without a     *)
(* replacement only the smallest buffer is looked at.                      *)
Interesting(e, length, given, n) ==
    /\ e = "iso_2022_jp" /\ Len(given) > 3 => given[1] = \h1B
    /\ length = 0 => n = IF e = "big5" THEN 2 ELSE 1

MCHands(e, length, given, n) ==
    /\ Interesting(e, length, given, n)
    /\ ~FullBuffer(e, given, IF given = text THEN at ELSE End, n)
    /\ ~(e = "gb18030" /\ CutBehindThird(given))
    /\ ~(length = 2 /\ LongReplacement(e, given))

(* ISO-2022-JP: an escape sequence at the end of the text.                 *)
MCStops(e, given) ==
    e = "iso_2022_jp" => \A k \in 1..Len(given) : Len(given) - k <= 2 => given[k] # \h1B
=============================================================================
