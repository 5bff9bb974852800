------------------------------ MODULE DecodePairs ------------------------------
(***************************************************************************)
(* The decoders of decode.c for the encodings of one byte and of two:      *)
(* lxb_encoding_decode_koi8_r and the others made with one macro,          *)
(* x_user_defined, big5, euc_kr, shift_jis and euc_jp.                     *)
(***************************************************************************)
EXTENDS DecodeBase

(* LXB_ENCODING_DECODE_SINGLE, which reads with a pointer of its own, hold *)
(* bytes in front of *data: `continue` takes it past a byte that stands    *)
(* for nothing and leaves *data where it is.  The byte is passed before    *)
(* the buffer is looked at: when it is full, the call returns behind a     *)
(* byte whose character is not written.                                    *)
SingleByte ==
    /\ enc = "single_byte" /\ pc = "loop"
    /\ LET p == at + hold IN
       \/ p = End /\ Silent /\ Return("OK", at, ctx)
       \/ /\ p < End /\ <<Byte(p)>> \in Unmapped[enc]
          /\ Error(Goto("loop", hold + 1, at, ctx), p, ctx)
       \/ /\ p < End /\ <<Byte(p)>> \notin Unmapped[enc] /\ room > 0
          /\ Write(<<Byte(p)>>, p + 1, ctx)
       \/ /\ p < End /\ <<Byte(p)>> \notin Unmapped[enc] /\ room = 0 /\ Silent
          /\ Return("SMALL_BUFFER", IF Byte(p) < \h80 THEN p ELSE p + 1, ctx)

(* lxb_encoding_decode_x_user_defined                                      *)
UserDefined ==
    /\ enc = "x_user_defined" /\ pc = "loop"
    /\ LoopEnds \/ (at < End /\ room > 0 /\ Write(<<Byte(at)>>, at + 1, ctx))

Pairs == {"big5", "euc_kr", "shift_jis"}

-----------------------------------------------------------------------------
(* The second byte of a pair, from the label lead_state on.                *)

TrailRange ==
    CASE enc = "big5" -> \h40..\h7E \cup \hA1..\hFE
      [] enc = "euc_kr" -> \h41..\hFE
      [] enc = "shift_jis" -> \h40..\h7E \cup \h80..\hFC

(* lead_state that writes the two characters of a code without counting.   *)
LeadStateUncounted(lead, a, c) ==
    LET code == <<lead, Byte(a)>>
        two == enc = "big5" /\ code \in DOMAIN Combined
    IN  \/ two /\ Put(<< <<Combined[code][1]>>, <<Combined[code][2]>> >>) /\ Loop(a + 1, c)
        \/ /\ ~two /\ code[2] \in TrailRange /\ code \notin Unmapped[enc]
           /\ Write(code, a + 1, c)
        \/ /\ ~two /\ (code[2] \notin TrailRange \/ code \in Unmapped[enc])
           /\ Failed(a + 1, c)

LeadState(lead, a, c) ==
    LET code == <<lead, Byte(a)>>
        two == enc = "big5" /\ code \in DOMAIN Combined
    IN  \/ /\ two /\ room < 2 /\ Silent
           /\ Return("SMALL_BUFFER", a + 1,
                     [c EXCEPT !.lead = Combined[code][1],
                               !.second_codepoint = <<Combined[code][2]>>])
        \/ /\ two /\ room >= 2
           /\ Put(<< <<Combined[code][1]>>, <<Combined[code][2]>> >>) /\ Loop(a + 1, c)
        \/ /\ ~two /\ code[2] \in TrailRange /\ code \notin Unmapped[enc]
           /\ Write(code, a + 1, c)
        \/ /\ ~two /\ (code[2] \notin TrailRange \/ code \in Unmapped[enc])
           /\ Failed(a + 1, c)

(* The head of a call: an error that is owed, the two characters that did  *)
(* not fit, or the first byte of a pair from the chunk before.             *)
PairEnter ==
    /\ enc \in Pairs \cup {"euc_jp"} /\ pc = "enter"
    /\ LET c == [ctx EXCEPT !.lead = 0, !.have_error = FALSE] IN
       \/ ctx.lead = 0 /\ Silent /\ Loop(at, ctx)
       \/ /\ ctx.lead # 0 /\ ctx.have_error
          /\ Error(Loop(at, c), at, [c EXCEPT !.lead = 1, !.have_error = TRUE])
       \/ ctx.lead # 0 /\ ~ctx.have_error /\ Silent /\ Goto("resume", 0, at, ctx)

(* The two characters wait for a buffer that has more than their room.     *)
PairResumeWaits ==
    /\ enc \in Pairs /\ pc = "resume"
    /\ \/ /\ ctx.second_codepoint # <<>> /\ room <= 2
          /\ Silent /\ Return("SMALL_BUFFER", at, ctx)
       \/ /\ ctx.second_codepoint # <<>> /\ room > 2
          /\ Put(<< <<ctx.lead>>, ctx.second_codepoint >>)
          /\ Loop(at, [ctx EXCEPT !.lead = 0, !.second_codepoint = <<>>])
       \/ ctx.second_codepoint = <<>> /\ ResumeEnds
       \/ /\ ctx.second_codepoint = <<>> /\ at < End /\ room > 0
          /\ LeadState(ctx.lead, at, [ctx EXCEPT !.lead = 0])

PairResume ==
    /\ enc \in Pairs /\ pc = "resume"
    /\ \/ /\ ctx.second_codepoint # <<>> /\ room < 2
          /\ Silent /\ Return("SMALL_BUFFER", at, ctx)
       \/ /\ ctx.second_codepoint # <<>> /\ room >= 2
          /\ Put(<< <<ctx.lead>>, ctx.second_codepoint >>)
          /\ Loop(at, [ctx EXCEPT !.lead = 0, !.second_codepoint = <<>>])
       \/ ctx.second_codepoint = <<>> /\ ResumeEnds
       \/ /\ ctx.second_codepoint = <<>> /\ at < End /\ room > 0
          /\ LeadState(ctx.lead, at, [ctx EXCEPT !.lead = 0])

(* The bytes that are characters by themselves, and what they are.         *)
Alone(b) == b < \h80 \/ (enc = "shift_jis" /\ (b = \h80 \/ b \in \hA1..\hDF))

AloneChar(b) == IF b > \h80 THEN <<\hFF61 - \hA1 + b>> ELSE <<b>>

LeadRange ==
    CASE enc \in {"big5", "euc_kr"} -> \h81..\hFE
      [] enc = "shift_jis" -> \h81..\h9F \cup {\hE0, \hFC}
      [] enc = "euc_jp" -> \hA1..\hFE \cup {\h8E, \h8F}

(* One turn of the loop, when it does not come to lead_state.              *)
Turn ==
    \/ LoopEnds
    \/ /\ at < End /\ room > 0
       /\ LET b == Byte(at) IN
          \/ Alone(b) /\ Write(AloneChar(b), at + 1, ctx)
          \/ /\ ~Alone(b) /\ b \notin LeadRange
             /\ Error(Loop(at + 1, ctx), at, ctx)
          \/ /\ ~Alone(b) /\ b \in LeadRange /\ at + 1 = End
             /\ Silent /\ Return("CONTINUE", at + 1, [ctx EXCEPT !.lead = b])

(* A turn that comes to lead_state: the second byte is in the chunk.       *)
Leads ==
    /\ at + 1 < End /\ room > 0
    /\ ~Alone(Byte(at)) /\ Byte(at) \in LeadRange

PairLoop ==
    /\ enc \in Pairs /\ pc = "loop"
    /\ Turn \/ (Leads /\ LeadState(Byte(at), at + 1, ctx))

-----------------------------------------------------------------------------
(* EUC-JP, whose lead 8F takes two more bytes.                             *)

High == \hA1..\hFE

(* lead_jis_state: byte a of the text is the last one of the code.         *)
LeadJisState(is_jis0212, lead, a, c) ==
    LET code == IF is_jis0212 THEN <<\h8F, lead, Byte(a)>> ELSE <<lead, Byte(a)>>
        known == lead \in High /\ Byte(a) \in High /\ code \notin Unmapped[enc]
    IN  \/ known /\ Write(code, a + 1, c)
        \/ ~known /\ Failed(a + 1, c)

EucJpLead(lead, a, c) ==
    LET b == Byte(a)
        longer == lead = \h8F /\ b \in High
    IN  \/ /\ lead = \h8E /\ b \in \hA1..\hDF
           /\ Write(<<\hFF61 - \hA1 + b>>, a + 1, c)
        \/ /\ longer /\ a + 1 = End
           /\ Silent
           /\ Return("CONTINUE", a + 1, [c EXCEPT !.lead = b, !.is_jis0212 = TRUE])
        \/ longer /\ a + 1 < End /\ LeadJisState(TRUE, b, a + 1, c)
        \/ ~longer /\ ~(lead = \h8E /\ b \in \hA1..\hDF) /\ LeadJisState(FALSE, lead, a, c)

EucJpResume ==
    /\ enc = "euc_jp" /\ pc = "resume"
    /\ \/ ResumeEnds
       \/ /\ at < End /\ room > 0
          /\ LET c == [ctx EXCEPT !.lead = 0, !.is_jis0212 = FALSE] IN
             \/ ctx.is_jis0212 /\ LeadJisState(TRUE, ctx.lead, at, c)
             \/ ~ctx.is_jis0212 /\ EucJpLead(ctx.lead, at, c)

EucJpLoop ==
    /\ enc = "euc_jp" /\ pc = "loop"
    /\ Turn \/ (Leads /\ EucJpLead(Byte(at), at + 1, ctx))

(* The decoders without a state begin with the loop.                       *)
StatelessEnter ==
    /\ enc \in {"single_byte", "x_user_defined"} /\ pc = "enter"
    /\ Silent /\ Loop(at, ctx)

PairStep ==
    \/ SingleByte \/ UserDefined \/ StatelessEnter
    \/ PairEnter \/ PairResume \/ PairLoop \/ EucJpResume \/ EucJpLoop
=============================================================================
