------------------------------- MODULE DecodeLong -------------------------------
(***************************************************************************)
(* lxb_encoding_decode_gb18030 and lxb_encoding_decode_iso_2022_jp of      *)
(* decode.c, which read bytes again that have left the chunk: a byte that  *)
(* is owed to the loop is kept in ctx when the buffer is full.             *)
(* OwedError of DecodeBase is the head of both.                            *)
(***************************************************************************)
EXTENDS DecodeBase

(* GB18030.  ctx.lead is u.gb18030.first.                                  *)

Digit == \h30..\h39
Gb18030Lead == \h81..\hFE

(* third_state: first, second and third have been read, the fourth is next *)
(* and is not passed before it is known to be a digit.                     *)
ThirdState(first, second, third, a, c) ==
    LET code == <<first, second, third, Byte(a)>>
        p == [c EXCEPT !.prepend = TRUE]
        owed == [p EXCEPT !.lead = 1, !.second = second, !.third = third]
    IN  \/ /\ Byte(a) \notin Digit
           /\ \/ replace = 0 /\ Silent /\ Return("ERROR", at, ctx)
              \/ /\ replace > room /\ Silent
                 /\ Return("SMALL_BUFFER", a, [owed EXCEPT !.have_error = TRUE])
              \/ /\ replace > 0 /\ replace = room
                 /\ Put([n \in 1..replace |-> Bad]) /\ Return("SMALL_BUFFER", a, owed)
              \/ /\ replace \in 1..(room - 1)
                 /\ Put([n \in 1..replace |-> Bad] \o << <<second>> >>)
                 /\ IF room' = 0 THEN Return("SMALL_BUFFER", a, [p EXCEPT !.lead = third])
                    ELSE Goto("first", third, a, p)
        \/ Byte(a) \in Digit /\ code \in Unmapped[enc] /\ Error(Loop(a + 1, c), a + 1, c)
        \/ Byte(a) \in Digit /\ code \notin Unmapped[enc] /\ Write(code, a + 1, c)

SecondState(first, second, a, c) ==
    LET third == Byte(a)
        p == [c EXCEPT !.prepend = TRUE, !.lead = second]
    IN  \/ /\ third \notin Gb18030Lead
           /\ Error(IF room' = 0 THEN Return("SMALL_BUFFER", a, p) ELSE Goto("first", second, a, c),
                    a, [p EXCEPT !.have_error = TRUE])
        \/ /\ third \in Gb18030Lead /\ a + 1 = End /\ Silent
           /\ Return("CONTINUE", a + 1, [c EXCEPT !.lead = first, !.second = second, !.third = third])
        \/ third \in Gb18030Lead /\ a + 1 < End /\ ThirdState(first, second, third, a + 1, c)

FirstState(first, a, c) ==
    LET second == Byte(a)
        code == <<first, second>>
        known == second \in \h40..\h7E \cup \h80..\hFE /\ code \notin Unmapped[enc]
        back == IF second < \h80 THEN a ELSE a + 1
    IN  \/ second \notin Digit /\ known /\ Write(code, a + 1, c)
        \/ /\ second \notin Digit /\ ~known
           /\ Error(Loop(back, c), back, [c EXCEPT !.have_error = TRUE])
        \/ /\ second \in Digit /\ a + 1 = End /\ Silent
           /\ Return("CONTINUE", a + 1, [c EXCEPT !.lead = first, !.second = second])
        \/ second \in Digit /\ a + 1 < End /\ SecondState(first, second, a + 1, c)

(* prepend_first: a first byte, from the text or read again.               *)
PrependFirst(first, a, c) ==
    \/ first <= \h80 /\ Write(IF first = \h80 THEN <<\h20AC>> ELSE <<first>>, a, c)
    \/ first = \hFF /\ Error(Loop(a, c), a - 1, c)
    \/ first \in Gb18030Lead /\ a = End /\ Silent /\ Return("CONTINUE", a, [c EXCEPT !.lead = first])
    \/ first \in Gb18030Lead /\ a < End /\ FirstState(first, a, c)

Gb18030Resume ==
    /\ enc = "gb18030" /\ pc = "resume"
    /\ \/ ctx.lead = 0 /\ Silent /\ Loop(at, ctx)
       \/ ctx.lead # 0 /\ ResumeEnds
       \/ /\ ctx.lead # 0 /\ at < End /\ room > 0
          /\ LET first == ctx.lead  second == ctx.second  third == ctx.third
                 c == [ctx EXCEPT !.lead = 0, !.second = 0, !.third = 0]
                 taken == [c EXCEPT !.prepend = FALSE]
             IN
             \/ /\ third # 0 /\ ctx.prepend /\ Put(<< <<second>> >>)
                /\ IF room' = 0 THEN Return("SMALL_BUFFER", at, [c EXCEPT !.lead = third])
                   ELSE Goto("first", third, at, taken)
             \/ third # 0 /\ ~ctx.prepend /\ ThirdState(first, second, third, at, c)
             \/ third = 0 /\ second # 0 /\ SecondState(first, second, at, c)
             \/ third = 0 /\ second = 0 /\ ctx.prepend /\ PrependFirst(first, at, taken)
             \/ third = 0 /\ second = 0 /\ ~ctx.prepend /\ FirstState(first, at, c)

Gb18030Loop ==
    /\ enc = "gb18030"
    /\ \/ pc = "loop" /\ LoopEnds
       \/ pc = "loop" /\ at < End /\ room > 0 /\ PrependFirst(Byte(at), at + 1, ctx)
       \/ pc = "first" /\ PrependFirst(hold, at, ctx)

-----------------------------------------------------------------------------
(* ISO-2022-JP.  ctx.lead is iso->lead, prepand the byte to be read again. *)

Iso2022JpResume ==
    /\ enc = "iso_2022_jp" /\ pc = "resume"
    /\ \/ ctx.prepand # 0 /\ ResumeEnds
       \/ /\ ctx.prepand # 0 /\ at < End /\ room > 0 /\ Silent
          /\ Goto("prepand", ctx.prepand, at, [ctx EXCEPT !.prepand = 0])
       \/ ctx.prepand = 0 /\ at = End /\ Silent /\ Return("OK", at, ctx)
       \/ ctx.prepand = 0 /\ at < End /\ Silent /\ Loop(at, ctx)

Iso2022JpLoop ==
    /\ enc = "iso_2022_jp" /\ pc = "loop" /\ Silent
    /\ \/ room = 0 /\ Return("SMALL_BUFFER", at, ctx)
       \/ room > 0 /\ Goto("prepand", Byte(at), at + 1, ctx)

(* LXB_ENCODING_DECODE_ISO_2022_JP_OK and _CONTINUE: where a chunk ends.   *)
Ends(status, c) ==
    \/ at = End /\ Return(status, at, c)
    \/ at < End /\ Loop(at, c)

(* In the modes of one byte: an escape, a character or an error.           *)
OneByteChar ==
    LET b == hold IN
    CASE ctx.state = "ascii" -> IF b < \h80 /\ b \notin {\h0E, \h0F} THEN <<b>> ELSE Bad
      [] ctx.state = "roman" ->
            IF b = \h5C THEN <<\hA5>> ELSE IF b = \h7E THEN <<\h203E>>
            ELSE IF b < \h80 /\ b \notin {\h0E, \h0F} THEN <<b>> ELSE Bad
      [] ctx.state = "katakana" -> IF b \in \h21..\h5F THEN <<\hFF61 - \h21 + b>> ELSE Bad

Iso2022JpOneByte ==
    /\ enc = "iso_2022_jp" /\ pc = "prepand" /\ ctx.state \in {"ascii", "roman", "katakana"}
    /\ LET c == [ctx EXCEPT !.out_flag = FALSE] IN
       \/ hold = \h1B /\ Silent /\ Ends("CONTINUE", [ctx EXCEPT !.state = "escape_start"])
       \/ /\ hold # \h1B /\ OneByteChar # Bad
          /\ Put(<<OneByteChar>>) /\ Ends("OK", c)
       \/ /\ hold # \h1B /\ OneByteChar = Bad
          /\ Error(Ends("OK", c), at, [c EXCEPT !.have_error = TRUE])

(* A character of two bytes.                                               *)
Iso2022JpLead ==
    /\ enc = "iso_2022_jp" /\ pc = "prepand" /\ ctx.state = "lead"
    /\ LET c == [ctx EXCEPT !.out_flag = FALSE] IN
       \/ hold = \h1B /\ Silent /\ Ends("CONTINUE", [ctx EXCEPT !.state = "escape_start"])
       \/ /\ hold \in \h21..\h7E /\ Silent
          /\ Ends("CONTINUE", [c EXCEPT !.lead = hold, !.state = "trail"])
       \/ /\ hold \notin \h21..\h7E \cup {\h1B}
          /\ Error(Ends("OK", c), at, [c EXCEPT !.have_error = TRUE])

Iso2022JpTrail ==
    /\ enc = "iso_2022_jp" /\ pc = "prepand" /\ ctx.state = "trail"
    /\ LET code == <<ctx.lead, hold>>
           known == hold \in \h21..\h7E /\ code \notin Unmapped[enc]
           c == [ctx EXCEPT !.state = IF hold = \h1B THEN "escape_start" ELSE "lead"]
       IN
       \/ known /\ Put(<<code>>) /\ Ends("OK", c)
       \/ /\ ~known /\ hold = \h1B
          /\ Error(Ends("OK", c), at, [c EXCEPT !.have_error = TRUE])
       \/ /\ ~known /\ hold # \h1B
          /\ Error(Ends("OK", c), at, [c EXCEPT !.have_error = TRUE, !.prepand = 1])

Iso2022JpEscapeStart ==
    /\ enc = "iso_2022_jp" /\ pc = "prepand" /\ ctx.state = "escape_start"
    /\ LET c == [ctx EXCEPT !.out_flag = FALSE, !.state = ctx.out_state] IN
       \/ /\ hold \in {\h24, \h28} /\ Silent
          /\ Ends("CONTINUE", [ctx EXCEPT !.state = "escape", !.lead = hold])
       \/ /\ hold \notin {\h24, \h28}
          /\ Error(Loop(at - 1, c), at - 1, [c EXCEPT !.have_error = TRUE, !.prepand = 1])

(* The states an escape leads to; UNSET is "none".                         *)
StateOf(lead, b) ==
    CASE lead = \h28 /\ b = \h42 -> "ascii"
      [] lead = \h28 /\ b = \h4A -> "roman"
      [] lead = \h28 /\ b = \h49 -> "katakana"
      [] lead = \h24 /\ b \in {\h40, \h42} -> "lead"
      [] OTHER -> "none"

(* A refused escape that gives both of its bytes back to the text, also    *)
(* when the first of them came with the chunk before.                      *)
Iso2022JpEscapeBack ==
    /\ enc = "iso_2022_jp" /\ pc = "prepand" /\ ctx.state = "escape"
    /\ LET state == StateOf(ctx.lead, hold)
           back == [ctx EXCEPT !.out_flag = FALSE, !.state = ctx.out_state, !.lead = 0]
           c == [ctx EXCEPT !.state = state, !.out_state = state, !.lead = 0]
       IN
       \/ /\ state = "none"
          /\ Error(Loop(at - 2, back), at - 2, [back EXCEPT !.have_error = TRUE])
       \/ /\ state # "none" /\ ctx.out_flag
          /\ Error(Ends("OK", c), at, [c EXCEPT !.have_error = TRUE])
       \/ /\ state # "none" /\ ~ctx.out_flag /\ Silent
          /\ Ends("CONTINUE", [c EXCEPT !.out_flag = TRUE])

Iso2022JpEscape ==
    /\ enc = "iso_2022_jp" /\ pc = "prepand" /\ ctx.state = "escape"
    /\ LET state == StateOf(ctx.lead, hold)
           back == [ctx EXCEPT !.out_flag = FALSE, !.state = ctx.out_state, !.lead = 0]
           owed == [back EXCEPT !.prepand = ctx.lead]
           c == [ctx EXCEPT !.state = state, !.out_state = state, !.lead = 0]
       IN
       \/ /\ state = "none"
          /\ Error(IF room' = 0 THEN Return("SMALL_BUFFER", at - 1, owed)
                   ELSE Goto("prepand", ctx.lead, at - 1, back),
                   at - 1, [owed EXCEPT !.have_error = TRUE])
       \/ /\ state # "none" /\ ctx.out_flag
          /\ Error(Ends("OK", c), at, [c EXCEPT !.have_error = TRUE])
       \/ /\ state # "none" /\ ~ctx.out_flag /\ Silent
          /\ Ends("CONTINUE", [c EXCEPT !.out_flag = TRUE])

LongStep ==
    \/ Gb18030Resume \/ Gb18030Loop
    \/ Iso2022JpResume \/ Iso2022JpLoop \/ Iso2022JpOneByte \/ Iso2022JpLead
    \/ Iso2022JpTrail \/ Iso2022JpEscapeStart \/ Iso2022JpEscape
=============================================================================
