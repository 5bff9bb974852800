------------------------------ MODULE DecodeBase ------------------------------
(***************************************************************************)
(* A decoder of lexbor/encoding and its caller.  The caller hands the text *)
(* over in chunks and the output buffer anew for each call; a call returns *)
(* SMALL_BUFFER to be called again with the same chunk, CONTINUE when the  *)
(* chunk ends inside a character, and OK.  What a character has begun with *)
(* is kept in ctx, the lxb_encoding_decode_t, from one call to the next.   *)
(*                                                                         *)
(* A step is one turn of a decoder's loop, or the way to its next label.   *)
(***************************************************************************)
EXTENDS Encodings, Functions

CONSTANTS
    Vocabularies,   \* for each encoding looked at, what its texts are made of:
                    \* a few bytes, and the longest text of them (the bound)
    Rooms,          \* how much an output buffer holds
    Hands(_, _, _, _),  \* whether the caller makes a call: the encoding, the length of
                        \* the replacement, the text with the new chunk, the buffer
    Stops(_, _)     \* whether the text may end here: the encoding, the text

Codecs == DOMAIN Vocabularies

(* Bytes are bytes, buffers hold no less than nothing, and Big5's codes of two *)
(* characters are a lead byte and a trail.                                     *)
ASSUME VocabulariesAssumption ==
    \A e \in Codecs : \A vocabulary \in Vocabularies[e] :
        vocabulary.bytes \subseteq 0..255 /\ vocabulary.most \in Nat
ASSUME RoomsAssumption == Rooms \subseteq Nat
ASSUME CombinedAssumption ==
    \A code \in DOMAIN Combined : Combined[code][1] \in 0..255 /\ Combined[code][2] \in Nat

VARIABLES
    enc,         \* ctx->encoding_data
    replace,     \* ctx->replace_len, 0 for a replace_to that is NULL
    text,        \* every byte handed over so far
    begin,       \* how many of them were handed over before this chunk
    at,          \* how many of them *data has passed
    out,         \* what has been written to the output buffers
    room,        \* buffer_length - buffer_used
    ctx,         \* the rest of lxb_encoding_decode_t
    answer,      \* what the last call returned; ctx->status is CONTINUE with it
    pc,          \* the label the running call is at, "caller" between calls
    hold         \* the local variable a step takes along

vars == <<enc, replace, text, begin, at, out, room, ctx, answer, pc, hold>>

(* The memset of lxb_encoding_decode_init; the union of the decoders' own  *)
(* state is one record, of which a decoder uses its part.                  *)
Cleared == [lead |-> 0, second_codepoint |-> <<>>, have_error |-> FALSE,
            is_jis0212 |-> FALSE,
            codepoint |-> <<>>, need |-> 0, lower |-> 0, upper |-> 0,
            second |-> 0, third |-> 0, prepend |-> FALSE,
            prepand |-> 0, state |-> "ascii", out_state |-> "ascii", out_flag |-> FALSE]

End == Len(text)

(* The byte behind the first a ones.                                       *)
Byte(a) == text[a + 1]

-----------------------------------------------------------------------------
(* What a step does, from the macros of decode.c.                          *)

Goto(label, byte, a, c) ==
    /\ pc' = label /\ hold' = byte /\ at' = a /\ ctx' = c
    /\ UNCHANGED <<enc, replace, text, begin, answer>>

Loop(a, c) == Goto("loop", 0, a, c)

Return(status, a, c) ==
    /\ pc' = "caller" /\ hold' = 0 /\ answer' = status /\ at' = a /\ ctx' = c
    /\ UNCHANGED <<enc, replace, text, begin>>

Silent == UNCHANGED <<out, room>>

Put(chars) == out' = out \o chars /\ room' = room - Len(chars)

(* APPEND_WO_CHECK; continue.                                              *)
Write(char, a, c) == Put(<<char>>) /\ Loop(a, c)

(* LXB_ENCODING_DECODE_ERROR_BEGIN .. END: the replacement characters and  *)
(* on, or back to the caller with what the block in between leaves.        *)
Error(next, full_at, full) ==
    \/ replace = 0 /\ Silent /\ Return("ERROR", at, ctx)
    \/ replace > room /\ Silent /\ Return("SMALL_BUFFER", full_at, full)
    \/ replace \in 1..room /\ Put([n \in 1..replace |-> Bad]) /\ next

(* LXB_ENCODING_DECODE_FAILED: the last byte is read again if it is ASCII. *)
Failed(a, c) ==
    LET back == IF Byte(a - 1) < \h80 THEN a - 1 ELSE a
    IN  Error(Loop(back, c), back, [c EXCEPT !.have_error = TRUE, !.lead = 1])

(* What begins every loop: the end of the chunk, LXB_ENCODING_DECODE_CHECK_OUT. *)
LoopEnds ==
    \/ at = End /\ Silent /\ Return("OK", at, ctx)
    \/ at < End /\ room = 0 /\ Silent /\ Return("SMALL_BUFFER", at, ctx)

(* The same when a character has been begun in an earlier chunk.           *)
ResumeEnds ==
    \/ at = End /\ Silent /\ Return("CONTINUE", at, ctx)
    \/ at < End /\ room = 0 /\ Silent /\ Return("SMALL_BUFFER", at, ctx)

(* The head of the decoders that write what an error still owes first.     *)
OwedError ==
    /\ pc = "enter"
    /\ enc \in {"utf_8", "utf_16be", "utf_16le", "gb18030", "iso_2022_jp"}
    /\ LET c == [ctx EXCEPT !.have_error = FALSE] IN
           \/ ~ctx.have_error /\ Silent /\ Goto("resume", 0, at, c)
           \/ ctx.have_error /\ Error(Goto("resume", 0, at, c), at, ctx)

-----------------------------------------------------------------------------
(* The caller, as in examples/lexbor/encoding/buffer/decode/decoder.c.     *)

Calls(bytes) ==
    /\ text' = text \o bytes
    /\ \E n \in Rooms : n >= replace /\ Hands(enc, replace, text', n) /\ room' = n
    /\ pc' = "enter"
    /\ UNCHANGED <<enc, replace, out, ctx, answer, hold>>

(* The next chunk, when the last one has been decoded: *data is set to its *)
(* beginning, wherever the last call has left it.                          *)
Feed ==
    /\ pc = "caller" /\ answer \in {"OK", "CONTINUE"}
    /\ begin' = End /\ at' = End
    /\ \E vocabulary \in Vocabularies[enc] :
           /\ Range(text) \subseteq vocabulary.bytes
           /\ \E n \in 1..(vocabulary.most - End) :
                  \E bytes \in [1..n -> vocabulary.bytes] : Calls(bytes)

(* do { decode } while (status == LXB_STATUS_SMALL_BUFFER)                 *)
Again ==
    /\ pc = "caller" /\ answer = "SMALL_BUFFER"
    /\ Calls(<<>>) /\ UNCHANGED <<begin, at>>

(* Finish that asks ctx.lead, where most decoders keep what they began.    *)
FinishLead ==
    /\ pc = "caller" /\ answer \in {"OK", "CONTINUE"} /\ Stops(enc, text)
    /\ \/ /\ answer = "CONTINUE" /\ replace > 0 /\ ctx.lead # 0
          /\ out' = out \o [n \in 1..replace |-> Bad]
       \/ /\ answer = "OK" \/ replace = 0 \/ ctx.lead = 0
          /\ UNCHANGED out
    /\ pc' = "done"
    /\ UNCHANGED <<enc, replace, text, begin, at, room, ctx, answer, hold>>

(* lxb_encoding_decode_finish, into a buffer with room for it.             *)
Finish ==
    /\ pc = "caller" /\ answer \in {"OK", "CONTINUE"} /\ Stops(enc, text)
    /\ \/ /\ answer = "CONTINUE" /\ replace > 0
          /\ ~(enc = "iso_2022_jp" /\ ctx.state = "ascii")
          /\ out' = out \o [n \in 1..replace |-> Bad]
       \/ /\ answer = "OK" \/ replace = 0 \/ (enc = "iso_2022_jp" /\ ctx.state = "ascii")
          /\ UNCHANGED out
    /\ pc' = "done"
    /\ UNCHANGED <<enc, replace, text, begin, at, room, ctx, answer, hold>>

Init ==
    /\ enc \in Codecs /\ replace \in {0, 1, 2}
    /\ text = <<>> /\ begin = 0 /\ at = 0
    /\ out = <<>> /\ room = 0
    /\ ctx = Cleared /\ answer = "OK" /\ pc = "caller" /\ hold = 0
=============================================================================
