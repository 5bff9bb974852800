----------------------------- MODULE DecodeUnicode -----------------------------
(***************************************************************************)
(* lxb_encoding_decode_utf_8 and lxb_encoding_decode_utf_16 of decode.c.   *)
(* OwedError of DecodeBase is the head of both.                            *)
(***************************************************************************)
EXTENDS DecodeBase

(* LXB_ENCODING_DECODE_UTF_8_BOUNDARY: the second byte after E0, ED, F0    *)
(* and F4.  `need` and the codepoint travel in the local hold and in ctx.  *)
Boundary(lower, upper, need, a, c) ==
    \/ /\ Byte(a) \notin lower..upper
       /\ LET reset == [c EXCEPT !.lower = 0, !.need = 0]
          IN  Error(Loop(a, reset), a, [reset EXCEPT !.have_error = TRUE])
    \/ /\ Byte(a) \in lower..upper /\ Silent
       /\ Goto("decode", need - 1, a + 1, [c EXCEPT !.codepoint = @ \o <<Byte(a)>>])

(* Utf8Resume that does not forget the boundary it has looked at: a second *)
(* cut in the same character compares another byte with it.                *)
Utf8ResumeKeeps ==
    /\ enc = "utf_8" /\ pc = "resume"
    /\ \/ ctx.need = 0 /\ Silent /\ Loop(at, ctx)
       \/ ctx.need # 0 /\ ResumeEnds
       \/ /\ ctx.need # 0 /\ at < End /\ room > 0
          /\ LET c == [ctx EXCEPT !.need = 0] IN
             \/ ctx.lower = 0 /\ Silent /\ Goto("decode", ctx.need, at, c)
             \/ ctx.lower # 0 /\ Boundary(ctx.lower, ctx.upper, ctx.need, at, c)

(* A sequence begun in an earlier chunk.                                   *)
Utf8Resume ==
    /\ enc = "utf_8" /\ pc = "resume"
    /\ \/ ctx.need = 0 /\ Silent /\ Loop(at, ctx)
       \/ ctx.need # 0 /\ ResumeEnds
       \/ /\ ctx.need # 0 /\ at < End /\ room > 0
          /\ LET c == [ctx EXCEPT !.need = 0] IN
             \/ ctx.lower = 0 /\ Silent /\ Goto("decode", ctx.need, at, c)
             \/ /\ ctx.lower # 0
                /\ Boundary(ctx.lower, ctx.upper, ctx.need, at, [c EXCEPT !.lower = 0])

(* LXB_ENCODING_DECODE_UTF_8_BOUNDARY_SET: what the second byte has to be, *)
(* kept for the next chunk.                                                *)
BoundarySet(ch, c) ==
    CASE ch = \hE0 -> [c EXCEPT !.lower = \hA0, !.upper = \hBF]
      [] ch = \hF0 -> [c EXCEPT !.lower = \h90, !.upper = \hBF]
      [] ch = \hED -> [c EXCEPT !.lower = \h80, !.upper = \h9F]
      [] ch = \hF4 -> [c EXCEPT !.lower = \h80, !.upper = \h8F]
      [] OTHER -> c

Utf8Loop ==
    /\ enc = "utf_8" /\ pc = "loop"
    /\ \/ LoopEnds
       \/ /\ at < End /\ room > 0
          /\ LET ch == Byte(at)
                 need == IF ch < \hE0 THEN 1 ELSE IF ch < \hF0 THEN 2 ELSE 3
                 c == [ctx EXCEPT !.codepoint = <<ch>>]
                 bounds == BoundarySet(ch, ctx)
             IN
             \/ ch < \h80 /\ Write(<<ch>>, at + 1, ctx)
             \/ /\ ch \in \h80..\hC1 \/ ch >= \hF5
                /\ Error(Loop(at + 1, ctx), at, ctx)
             \/ /\ ch \in \hE0..\hF4 /\ at + 1 = End /\ Silent
                /\ Return("CONTINUE", at + 1, [BoundarySet(ch, c) EXCEPT !.need = need])
             \/ /\ ch \in {\hE0, \hED, \hF0, \hF4} /\ at + 1 < End
                /\ Boundary(bounds.lower, bounds.upper, need, at + 1, c)
             \/ /\ \/ ch \in \hC2..\hDF
                   \/ ch \in \hE1..\hF3 \ {\hED, \hF0} /\ at + 1 < End
                /\ Silent /\ Goto("decode", need, at + 1, c)

(* The label decode: the bytes 80..BF that are still needed.               *)
Utf8Decode ==
    /\ enc = "utf_8" /\ pc = "decode"
    /\ \/ /\ at = End /\ Silent
          /\ Return("CONTINUE", at, [ctx EXCEPT !.need = hold])
       \/ /\ at < End /\ Byte(at) \notin \h80..\hBF
          /\ Error(Loop(at, [ctx EXCEPT !.need = 0]), at,
                   [ctx EXCEPT !.need = 0, !.have_error = TRUE])
       \/ /\ at < End /\ Byte(at) \in \h80..\hBF
          /\ LET c == [ctx EXCEPT !.codepoint = @ \o <<Byte(at)>>] IN
             \/ hold = 1 /\ Write(c.codepoint, at + 1, c)
             \/ hold > 1 /\ Silent /\ Goto("decode", hold - 1, at + 1, c)

-----------------------------------------------------------------------------
(* UTF-16.  ctx.lead holds the first byte of a unit and one more, as zero  *)
(* is a byte; second_codepoint holds the first unit of a surrogate pair.   *)

Utf16 == {"utf_16be", "utf_16le"}

Utf16Resume ==
    /\ enc \in Utf16 /\ pc = "resume"
    /\ \/ ctx.lead = 0 /\ Silent /\ Loop(at, ctx)
       \/ ctx.lead # 0 /\ ResumeEnds
       \/ /\ ctx.lead # 0 /\ at < End /\ room > 0 /\ Silent
          /\ Goto("lead", ctx.lead - 1, at, [ctx EXCEPT !.lead = 0])

(* pair_state; the loop comes to it with room in the buffer, the first     *)
(* half of a pair without looking.                                         *)
Utf16Pair ==
    /\ enc \in Utf16 /\ pc \in {"loop", "pair"}
    /\ \/ pc = "loop" /\ LoopEnds
       \/ /\ at < End /\ (pc = "pair" \/ room > 0) /\ Silent
          /\ \/ at + 1 = End /\ Return("CONTINUE", at + 1, [ctx EXCEPT !.lead = Byte(at) + 1])
             \/ at + 1 < End /\ Goto("lead", Byte(at), at + 1, ctx)

(* lead_state: a unit is complete.                                         *)
Utf16Lead ==
    /\ enc \in Utf16 /\ pc = "lead"
    /\ LET unit == IF enc = "utf_16be" THEN <<hold, Byte(at)>> ELSE <<Byte(at), hold>>
           first == ctx.second_codepoint
           c == [ctx EXCEPT !.second_codepoint = <<>>]
           again == [c EXCEPT !.lead = hold + 1]
       IN
       \/ first # <<>> /\ unit[1] \in \hDC..\hDF /\ Write(first \o unit, at + 1, c)
       \/ /\ first # <<>> /\ unit[1] \notin \hDC..\hDF
          /\ Error(IF room' = 0 THEN Return("SMALL_BUFFER", at, again)
                   ELSE Goto("lead", hold, at, c),
                   at, [again EXCEPT !.have_error = TRUE])
       \/ /\ first = <<>> /\ unit[1] \in \hDC..\hDF
          /\ Error(Loop(at + 1, ctx), at + 1, [ctx EXCEPT !.have_error = TRUE])
       \/ /\ first = <<>> /\ unit[1] \in \hD8..\hDB /\ Silent
          /\ LET begun == [ctx EXCEPT !.second_codepoint = unit] IN
             \/ at + 1 = End /\ Return("CONTINUE", at + 1, begun)
             \/ at + 1 < End /\ Goto("pair", 0, at + 1, begun)
       \/ first = <<>> /\ unit[1] \notin \hD8..\hDF /\ Write(unit, at + 1, ctx)

UnicodeStep ==
    \/ Utf8Resume \/ Utf8Loop \/ Utf8Decode
    \/ Utf16Resume \/ Utf16Pair \/ Utf16Lead
=============================================================================
