-------------------------------- MODULE Decode --------------------------------
(***************************************************************************)
(* The decoders of lexbor/encoding/decode.c that write to a buffer, with   *)
(* the caller that feeds them a text in chunks and takes it out in pieces: *)
(* what comes out is what the whole text means, however it is cut.         *)
(***************************************************************************)
EXTENDS DecodePairs, DecodeUnicode, DecodeLong, SequencesExt

Next ==
    \/ Feed \/ Again \/ Finish
    \/ OwedError \/ PairStep \/ UnicodeStep \/ LongStep

(* The caller comes back as long as it is asked to, and calls return by    *)
(* themselves: they are plain loops over a chunk.                          *)
Spec == Init /\ [][Next]_vars /\ WF_vars(Next)

-----------------------------------------------------------------------------
Ended == pc = "done" \/ (pc = "caller" /\ answer = "ERROR")

(* The types of the state; a buffer never has less than no room, so none   *)
(* is written past its end.                                                *)
TypeOK ==
    /\ enc \in Codecs /\ replace \in {0, 1, 2}
    /\ text \in Seq(0..255) /\ room \in Nat
    /\ pc \in {"caller", "enter", "resume", "loop", "pair", "lead", "first",
               "decode", "prepand", "done"}
    /\ answer \in {"OK", "CONTINUE", "SMALL_BUFFER", "ERROR"}
    /\ hold \in Nat /\ (enc # "single_byte" => hold <= 255)
    /\ ctx.lead \in 0..256 /\ ctx.need \in 0..3

(* A decoder reads its chunk only: giving bytes back never takes the       *)
(* pointer in front of the chunk, to bytes the caller no longer holds, and *)
(* a byte that is looked at is there.  When a call has returned OK or      *)
(* CONTINUE the chunk has been read: what *data may still have in front of *)
(* it are bytes at the end of the chunk that stand for nothing in a        *)
(* one-byte encoding, and whose replacement has been written.              *)
InChunk ==
    /\ at \in begin..End
    /\ pc = "loop" /\ enc = "single_byte" => at + hold <= End
    /\ pc = "lead" \/ (pc = "loop" /\ enc = "iso_2022_jp") => at < End
    /\ pc = "caller" /\ answer \in {"OK", "CONTINUE"} =>
           \A a \in at..(End - 1) :
               enc = "single_byte" /\ replace > 0 /\ <<Byte(a)>> \in Unmapped[enc]

(* Wherever the text is cut into chunks, however small the buffers are and *)
(* wherever a call had to be taken up again: what has been written so far  *)
(* begins what the whole text means - nothing lost, doubled or swapped.    *)
OutputIsPrefix == IsPrefix(out, Decoded(enc, text, replace))

(* At the end the output is all that the text means: a character that was  *)
(* begun and never completed is reported by lxb_encoding_decode_finish,    *)
(* once, and no error is reported twice.                                   *)
OutputComplete == Ended => out = Decoded(enc, text, replace)

(* Calls end: none runs forever, and a caller that empties the buffer each *)
(* time is not told forever that it is too small.                          *)
CallsEnd == []<>(pc \in {"caller", "done"} /\ answer # "SMALL_BUFFER")
=============================================================================
