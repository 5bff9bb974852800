---------------------------- MODULE DecodeProofs ----------------------------
(***************************************************************************)
(* Proof that the decoders stay in the memory they are given, for every    *)
(* text, every way to cut it, every size of buffer and every index map.    *)
(***************************************************************************)
EXTENDS Decode, TLAPS, SequenceTheorems

Modes == {"ascii", "roman", "katakana", "lead"}
Escapes == {"escape_start", "escape"}

Fields ==
    {"lead", "second_codepoint", "have_error", "is_jis0212", "codepoint", "need",
     "lower", "upper", "second", "third", "prepend", "prepand", "state",
     "out_state", "out_flag"}

(* The types of the fields that decide where a decoder reads.              *)
CtxType(c) ==
    /\ DOMAIN c = Fields
    /\ c.lead \in 0..256 /\ c.need \in 0..3
    /\ c.second \in 0..255 /\ c.third \in 0..255 /\ c.prepand \in 0..255
    /\ c.state \in Modes \cup Escapes \cup {"trail"} /\ c.out_state \in Modes

(* What holds of the record: a byte that ISO-2022-JP reads again never     *)
(* meets an escape that has begun, for it would be given back to the text  *)
(* though it is not in it; GB18030 keeps no FF, for the same reason.       *)
CtxOK(c) ==
    /\ CtxType(c)
    /\ enc \notin Utf16 => c.lead # 256
    /\ enc # "iso_2022_jp" => c.prepand = 0
    /\ c.prepand # 0 => c.state \notin Escapes
    /\ enc = "gb18030" => c.lead # 255 /\ c.second # 255 /\ c.third # 255

Labels == {"caller", "enter", "resume", "loop", "pair", "lead", "first",
           "decode", "prepand", "done"}

(* A byte that a one-byte decoder has passed and whose replacement it has  *)
(* written, with *data left in front of it.                                *)
PassedOver(a) == enc = "single_byte" /\ replace > 0 /\ <<Byte(a)>> \in Unmapped[enc]

(* What *data still has in front of it when a chunk has been read.         *)
ReadFrom(a) == \A b \in a..(End - 1) : PassedOver(b)

(* The local variable: a byte, but in the one-byte decoders, whose own     *)
(* pointer is so far ahead of *data.                                       *)
Local(label, byte, a) ==
    \/ enc # "single_byte" /\ byte \in 0..255
    \/ /\ enc = "single_byte" /\ byte \in Nat /\ (label = "loop" \/ byte = 0)
       /\ a + byte <= End /\ \A b \in a..(a + byte - 1) : PassedOver(b)

(* What holds at a label with a local, a read position and a record.       *)
Where(label, byte, a, c) ==
    /\ a \in begin..End /\ CtxOK(c) /\ Local(label, byte, a) /\ label \in Labels
    /\ label \in {"lead", "pair"} => a < End
    /\ label = "prepand" /\ c.state \in Escapes => a > begin
    /\ label = "loop" /\ enc = "iso_2022_jp" => a < End
    /\ label \in {"loop", "prepand"} => c.prepand = 0
    /\ label = "first" => byte # 255
    /\ label = "decode" => byte \in 0..3

(* The labels at which a character is written without another look.        *)
Writing == {"pair", "lead", "first", "decode", "prepand"}

Fixed ==
    /\ enc \in Codecs /\ replace \in {0, 1, 2}
    /\ text \in Seq(0..255) /\ begin \in Nat /\ room \in Nat
    /\ answer \in {"OK", "CONTINUE", "SMALL_BUFFER", "ERROR"}

Inv ==
    /\ Fixed /\ Where(pc, hold, at, ctx)
    /\ pc \in Writing => room > 0
    /\ pc = "caller" /\ answer \in {"OK", "CONTINUE"} => ReadFrom(at)

-----------------------------------------------------------------------------
(* Steps.                                                                  *)

LEMMA InvProperties == Inv => TypeOK /\ InChunk
<1> SUFFICES ASSUME Inv PROVE TypeOK /\ InChunk
  OBVIOUS
<1>1. /\ hold \in Nat /\ (enc # "single_byte" => hold <= 255)
      /\ pc = "loop" /\ enc = "single_byte" => at + hold <= End
  BY DEF Inv, Where, Local
<1>2. pc = "caller" /\ answer \in {"OK", "CONTINUE"} =>
          \A a \in at..(End - 1) :
              enc = "single_byte" /\ replace > 0 /\ <<Byte(a)>> \in Unmapped[enc]
  BY DEF Inv, ReadFrom, PassedOver
<1> QED
  BY <1>1, <1>2 DEF Inv, Fixed, Where, CtxOK, CtxType, Labels, TypeOK, InChunk

LEMMA Positions ==
    ASSUME Inv
    PROVE  /\ End \in Nat /\ at \in Nat /\ begin \in Nat /\ begin <= at /\ at <= End
           /\ \A a \in 0..(End - 1) : Byte(a) \in 0..255
<1>1. text \in Seq(0..255) /\ End \in Nat /\ begin \in Nat /\ at \in begin..End
  BY DEF Inv, Fixed, Where, End
<1>2. ASSUME NEW a \in 0..(End - 1)
      PROVE  Byte(a) \in 0..255
  <2>1. a + 1 \in 1..Len(text)
    BY <1>1 DEF End
  <2> QED
    BY <1>1, <2>1, ElementOfSeq DEF Byte
<1> QED
  BY <1>1, <1>2

LEMMA Went ==
    ASSUME Inv, NEW label, NEW byte, NEW a, NEW c, Where(label, byte, a, c),
           Goto(label, byte, a, c), room' \in Nat, label \in Writing => room' > 0,
           label # "caller"
    PROVE  Inv'
<1>1. enc' = enc /\ replace' = replace /\ text' = text /\ begin' = begin
  BY DEF Goto
<1>2. Local(label, byte, a)'
  BY <1>1 DEF Where, Local, PassedOver, Byte, End
<1> QED
  BY <1>1, <1>2 DEF Inv, Fixed, Where, CtxOK, End, Goto, Labels

(* Nothing is passed over yet.                                             *)
LEMMA LocalZero ==
    ASSUME NEW label, NEW a \in Int, End \in Int, a <= End
    PROVE  Local(label, 0, a)
BY DEF Local

LEMMA ReturnedRead ==
    ASSUME Inv, NEW status \in {"OK", "CONTINUE", "SMALL_BUFFER", "ERROR"},
           NEW a \in begin..End, NEW c, CtxOK(c), Return(status, a, c), room' \in Nat,
           status \in {"OK", "CONTINUE"} => ReadFrom(a)
    PROVE  Inv'
<1>1. enc' = enc /\ replace' = replace /\ text' = text /\ begin' = begin
  BY DEF Return
<1>2. (ReadFrom(a) => ReadFrom(a)') /\ End \in Nat /\ begin \in Nat /\ End' = End
  BY <1>1, Positions DEF ReadFrom, PassedOver, Byte, End
<1>3. Local("caller", 0, a)
  BY <1>2, LocalZero
<1>4. Local("caller", 0, a)'
  BY <1>1, <1>3 DEF Local, PassedOver, Byte, End
<1>5. ReadFrom(a)' => ReadFrom(at)'
  BY DEF Return, ReadFrom, PassedOver, Byte, End
<1> QED
  BY <1>1, <1>2, <1>4, <1>5
     DEF Inv, Fixed, Where, CtxOK, CtxType, End, Return, Labels, Writing

LEMMA Returned ==
    ASSUME Inv, NEW status \in {"OK", "CONTINUE", "SMALL_BUFFER", "ERROR"},
           NEW a \in begin..End, NEW c, CtxOK(c), Return(status, a, c), room' \in Nat,
           status \in {"OK", "CONTINUE"} => a = End
    PROVE  Inv'
<1>1. status \in {"OK", "CONTINUE"} => ReadFrom(a)
  BY Positions DEF ReadFrom
<1> QED
  BY <1>1, ReturnedRead

(* The two ways a call returns with an error.                              *)
Refused(a, c) ==
    Silent /\ (Return("ERROR", at, ctx) \/ Return("SMALL_BUFFER", a, c))

LEMMA RefusedOK ==
    ASSUME Inv, NEW a \in begin..End, NEW c, CtxOK(c), Refused(a, c)
    PROVE  Inv'
<1>1. at \in begin..End /\ CtxOK(ctx) /\ room \in Nat
  BY DEF Inv, Fixed, Where
<1>2. room' \in Nat
  BY <1>1 DEF Refused, Silent
<1> QED
  BY <1>1, <1>2, Returned DEF Refused

(* The third: the replacement is written, and then the block goes on.      *)
Replaced == replace > 0 /\ replace <= room /\ Put([n \in 1..replace |-> Bad])

LEMMA ReplacedRoom ==
    ASSUME Inv, Replaced
    PROVE  room' \in Nat
<1>1. replace \in Nat /\ room \in Nat
  BY DEF Inv, Fixed
<1>2. Len([n \in 1..replace |-> Bad]) = replace
  BY <1>1
<1> QED
  BY <1>1, <1>2 DEF Replaced, Put

LEMMA PutOne ==
    ASSUME Inv, NEW char, Put(<<char>>), room > 0
    PROVE  room' \in Nat
<1>1. Len(<<char>>) = 1
  OBVIOUS
<1> QED
  BY <1>1 DEF Put, Inv, Fixed

LEMMA Looped ==
    ASSUME Inv, NEW a \in begin..End, NEW c, CtxOK(c), c.prepand = 0, Loop(a, c),
           room' \in Nat, enc # "iso_2022_jp" \/ a < End
    PROVE  Inv'
<1>1. Where("loop", 0, a, c)
  BY Positions, LocalZero DEF Where, Labels
<1> QED
  BY <1>1, Went, Goto("loop", 0, a, c) DEF Loop, Writing

LEMMA Written ==
    ASSUME Inv, room > 0, NEW char, NEW a \in begin..End, NEW c, CtxOK(c), c.prepand = 0,
           Write(char, a, c), enc # "iso_2022_jp" \/ a < End
    PROVE  Inv'
BY PutOne, Looped DEF Write

LEMMA ErrorLooped ==
    ASSUME Inv, NEW a \in begin..End, NEW c, CtxOK(c), c.prepand = 0,
           NEW b \in begin..End, NEW d, CtxOK(d), Error(Loop(a, c), b, d),
           enc # "iso_2022_jp" \/ a < End
    PROVE  Inv'
<1>1. Refused(b, d) \/ (Replaced /\ Loop(a, c))
  BY DEF Error, Refused, Replaced, Inv, Fixed
<1> QED
  BY <1>1, RefusedOK, ReplacedRoom, Looped

LEMMA LoopEndsOK ==
    ASSUME Inv, LoopEnds \/ ResumeEnds
    PROVE  Inv'
<1>1. at \in begin..End /\ CtxOK(ctx) /\ room \in Nat
  BY DEF Inv, Fixed, Where
<1> QED
  BY <1>1, Returned DEF LoopEnds, ResumeEnds, Silent
-----------------------------------------------------------------------------
(* The caller.                                                             *)

LEMMA InvInit == Init => Inv
<1> SUFFICES ASSUME Init PROVE Inv
  OBVIOUS
<1>1. Len(text) = 0 /\ text \in Seq(0..255)
  BY DEF Init
<1>2. CtxType(Cleared)
  BY DEF Cleared, CtxType, Fields, Modes, Escapes
<1>3. End = 0 /\ at = 0 /\ hold = 0 /\ ReadFrom(at) /\ Local(pc, hold, at)
  BY <1>1, LocalZero DEF Init, End, ReadFrom
<1> QED
  BY <1>1, <1>2, <1>3 DEF Init, Inv, Fixed, Where, CtxOK, Labels, Writing, Cleared, Escapes

LEMMA Called ==
    ASSUME Inv, pc = "caller", NEW bytes \in Seq(0..255), Calls(bytes),
           begin' \in Nat, at' \in begin'..End
    PROVE  Inv'
<1>1. /\ text' \in Seq(0..255) /\ Len(text') = Len(text) + Len(bytes)
      /\ Len(text) \in Nat /\ Len(bytes) \in Nat
  BY DEF Calls, Inv, Fixed
<1>2. at' \in begin'..End' /\ End' \in Nat
  BY <1>1, Positions DEF Calls, End
<1>3. room' \in Nat
  BY RoomsAssumption DEF Calls
<1>4. enc' = enc /\ hold' = hold /\ (enc = "single_byte" => hold = 0)
  BY DEF Calls, Inv, Where, Local
<1>5. Local(pc, hold, at)'
  BY <1>2, <1>4 DEF Calls, Inv, Where, Local
<1> QED
  BY <1>1, <1>2, <1>3, <1>5 DEF Calls, Inv, Fixed, Where, CtxOK, Labels, Writing

LEMMA InvFeed == ASSUME Inv, Feed PROVE Inv'
<1>1. begin' \in Nat /\ at' \in begin'..End /\ pc = "caller"
  BY Positions DEF Feed
<1>2. PICK vocabulary \in Vocabularies[enc] :
         \E n \in 1..(vocabulary.most - End) :
             \E bytes \in [1..n -> vocabulary.bytes] : Calls(bytes)
  BY DEF Feed
<1>3. vocabulary.bytes \subseteq 0..255 /\ vocabulary.most \in Nat
  BY VocabulariesAssumption DEF Inv, Fixed
<1>4. PICK n \in 1..(vocabulary.most - End) :
         \E bytes \in [1..n -> vocabulary.bytes] : Calls(bytes)
  BY <1>2
<1>5. PICK bytes \in [1..n -> vocabulary.bytes] : Calls(bytes)
  BY <1>4
<1>6. bytes \in Seq(0..255)
  <2>1. n \in Nat
    BY <1>3, Positions
  <2>2. bytes \in [1..n -> 0..255]
    BY <1>3
  <2> QED
    BY <2>1, <2>2
<1> QED
  BY <1>1, <1>5, <1>6, Called DEF Feed

LEMMA InvAgain == ASSUME Inv, Again PROVE Inv'
<1>1. <<>> \in Seq(0..255)
  OBVIOUS
<1> QED
  BY <1>1, Positions, Called DEF Again, Inv, Where

LEMMA InvFinish == ASSUME Inv, Finish PROVE Inv'
<1>1. Local(pc, hold, at)'
  BY DEF Finish, Inv, Where, Local, PassedOver, Byte, End
<1> QED
  BY <1>1 DEF Finish, Inv, Fixed, Where, CtxOK, Labels, Writing, End

LEMMA InvOwedError == ASSUME Inv, OwedError PROVE Inv'
<1> DEFINE c == [ctx EXCEPT !.have_error = FALSE]
<1>1. /\ at \in begin..End /\ CtxOK(ctx) /\ room \in Nat /\ replace \in {0, 1, 2}
  BY DEF Inv, Fixed, Where
<1>2. CtxOK(c)
  BY <1>1 DEF CtxOK, CtxType, Fields
<1>3. Where("resume", 0, at, c)
  BY <1>1, <1>2, Positions, LocalZero DEF Where, Labels
<1> HIDE DEF c
<1>4. ASSUME Goto("resume", 0, at, c), room' \in Nat
      PROVE  Inv'
  BY <1>3, <1>4, Went DEF Writing
<1>5. CASE Silent /\ Goto("resume", 0, at, c)
  BY <1>1, <1>4, <1>5 DEF Silent
<1>6. CASE Error(Goto("resume", 0, at, c), at, ctx)
  <2>1. Refused(at, ctx) \/ (Replaced /\ Goto("resume", 0, at, c))
    BY <1>1, <1>6 DEF Error, Refused, Replaced
  <2> QED
    BY <1>1, <1>4, <2>1, RefusedOK, ReplacedRoom
<1> QED
  BY <1>5, <1>6 DEF OwedError, c
-----------------------------------------------------------------------------
(* The decoders of one byte and of two.                                    *)

(* What every step starts from.                                            *)
LEMMA InvFacts ==
    ASSUME Inv
    PROVE  /\ begin \in Nat /\ End \in Nat /\ at \in begin..End /\ CtxOK(ctx)
           /\ room \in Nat /\ replace \in {0, 1, 2}
           /\ enc # "single_byte" => hold \in 0..255
           /\ pc \in {"loop", "prepand"} => ctx.prepand = 0
           /\ pc \in Writing => room > 0
BY Positions DEF Inv, Fixed, Where, Local

LEMMA FailedOK ==
    ASSUME Inv, NEW a \in (begin + 1)..End, NEW c, CtxOK(c), enc # "iso_2022_jp", c.prepand = 0, Failed(a, c)
    PROVE  Inv'
<1> DEFINE back == IF Byte(a - 1) < \h80 THEN a - 1 ELSE a
           d == [c EXCEPT !.have_error = TRUE, !.lead = 1]
<1>1. back \in begin..End
  BY InvFacts
<1>2. CtxOK(d)
  BY DEF CtxOK, CtxType, Fields
<1>3. Error(Loop(back, c), back, d)
  BY DEF Failed
<1> HIDE DEF back, d
<1> QED
  BY <1>1, <1>2, <1>3, ErrorLooped

LEMMA InvSingleByte == ASSUME Inv, SingleByte PROVE Inv'
<1>0. enc # "iso_2022_jp"
  BY DEF SingleByte
<1> DEFINE p == at + hold
<1>1. /\ enc = "single_byte" /\ pc = "loop" /\ hold \in Nat /\ p \in begin..End
      /\ \A b \in at..(p - 1) : PassedOver(b)
  BY Positions DEF SingleByte, Inv, Where, Local
<1>2. CASE p = End /\ Silent /\ Return("OK", at, ctx)
  <2>1. ReadFrom(at)
    BY <1>1, <1>2 DEF ReadFrom
  <2> QED
    BY <1>2, <2>1, InvFacts, ReturnedRead DEF Silent
<1>3. CASE /\ p < End /\ <<Byte(p)>> \in Unmapped[enc]
           /\ Error(Goto("loop", hold + 1, at, ctx), p, ctx)
  <2>1. Refused(p, ctx) \/ (Replaced /\ Goto("loop", hold + 1, at, ctx))
    BY <1>3, InvFacts DEF Error, Refused, Replaced
  <2>2. ASSUME Replaced
        PROVE  Local("loop", hold + 1, at)
    <3>1. PassedOver(p)
      BY <1>1, <1>3, <2>2 DEF Replaced, PassedOver
    <3>2. \A b \in at..(at + (hold + 1) - 1) : PassedOver(b)
      <4> TAKE b \in at..(at + (hold + 1) - 1)
      <4>1. b \in at..(p - 1) \/ b = p
        BY <1>1, InvFacts
      <4> QED
        BY <1>1, <3>1, <4>1
    <3>3. hold + 1 \in Nat /\ at + (hold + 1) <= End
      BY <1>1, <1>3, InvFacts
    <3> QED
      BY <1>1, <3>2, <3>3 DEF Local
  <2>3. Replaced => Where("loop", hold + 1, at, ctx)
    BY <1>1, <2>2, InvFacts DEF Where, Labels
  <2> HIDE DEF p
  <2> QED
    BY <1>1, <2>1, <2>3, InvFacts, RefusedOK, ReplacedRoom, Went DEF Writing
<1>4. CASE p < End /\ room > 0 /\ Write(<<Byte(p)>>, p + 1, ctx)
  <2>1. p + 1 \in begin..End
    BY <1>1, <1>4, InvFacts
  <2> HIDE DEF p
  <2> QED
    BY <1>0, <1>1, <1>4, <2>1, InvFacts, Written
<1>5. CASE /\ p < End /\ Silent
           /\ Return("SMALL_BUFFER", IF Byte(p) < \h80 THEN p ELSE p + 1, ctx)
  <2>1. (IF Byte(p) < \h80 THEN p ELSE p + 1) \in begin..End
    BY <1>1, <1>5, InvFacts
  <2> HIDE DEF p
  <2> QED
    BY <1>5, <2>1, InvFacts, Returned DEF Silent
<1> QED
  BY <1>2, <1>3, <1>4, <1>5 DEF SingleByte

LEMMA InvUserDefined == ASSUME Inv, UserDefined PROVE Inv'
<1>0. enc # "iso_2022_jp"
  BY DEF UserDefined
<1>1. CASE LoopEnds
  BY <1>1, LoopEndsOK
<1>2. CASE at < End /\ room > 0 /\ Write(<<Byte(at)>>, at + 1, ctx)
  BY <1>0, <1>2, InvFacts, Written DEF UserDefined
<1> QED
  BY <1>1, <1>2 DEF UserDefined

LEMMA InvStatelessEnter == ASSUME Inv, StatelessEnter PROVE Inv'
BY InvFacts, Looped DEF StatelessEnter, Silent, CtxOK

(* lead_state: byte a is in the chunk, and there is room for a character.  *)
LEMMA LeadStateOK ==
    ASSUME Inv, room > 0, NEW lead, NEW a \in begin..(End - 1),
           NEW c, CtxOK(c), enc # "iso_2022_jp", c.prepand = 0, LeadState(lead, a, c)
    PROVE  Inv'
<1> DEFINE code == <<lead, Byte(a)>>
           d == [c EXCEPT !.lead = Combined[code][1],
                          !.second_codepoint = <<Combined[code][2]>>]
<1>1. a \in begin..End /\ a + 1 \in begin..End /\ a + 1 \in (begin + 1)..End
  BY InvFacts
<1>2. CASE /\ enc = "big5" /\ code \in DOMAIN Combined
           /\ Silent /\ Return("SMALL_BUFFER", a + 1, d)
  <2>1. Combined[code][1] \in 0..255
    BY <1>2, CombinedAssumption
  <2>2. CtxOK(d)
    BY <1>2, <2>1 DEF CtxOK, CtxType, Fields, Utf16
  <2> HIDE DEF d
  <2> QED
    BY <1>1, <1>2, <2>2, InvFacts, Returned DEF Silent
<1>3. CASE /\ room >= 2 /\ Put(<< <<Combined[code][1]>>, <<Combined[code][2]>> >>)
           /\ Loop(a + 1, c)
  <2>1. room' \in Nat
    BY <1>3, InvFacts DEF Put
  <2> QED
    BY <1>1, <1>3, <2>1, Looped
<1>4. CASE Write(code, a + 1, c)
  BY <1>1, <1>4, Written
<1>5. CASE Failed(a + 1, c)
  BY <1>1, <1>5, FailedOK
<1> QED
  BY <1>2, <1>3, <1>4, <1>5 DEF LeadState

LEMMA InvPairEnter == ASSUME Inv, PairEnter PROVE Inv'
<1>0. enc # "iso_2022_jp"
  BY DEF PairEnter, Pairs
<1> DEFINE c == [ctx EXCEPT !.lead = 0, !.have_error = FALSE]
           d == [c EXCEPT !.lead = 1, !.have_error = TRUE]
<1>1. enc # "iso_2022_jp"
  BY DEF PairEnter, Pairs
<1>2. CtxOK(ctx) /\ CtxOK(c) /\ CtxOK(d) /\ ctx.prepand = 0 /\ c.prepand = 0
  BY <1>1, InvFacts DEF CtxOK, CtxType, Fields
<1> HIDE DEF c, d
<1>3. CASE Silent /\ Loop(at, ctx)
  BY <1>0, <1>2, <1>3, InvFacts, Looped DEF Silent
<1>4. CASE Error(Loop(at, c), at, d)
  BY <1>0, <1>2, <1>4, InvFacts, ErrorLooped
<1>5. CASE Silent /\ Goto("resume", 0, at, ctx)
  <2>1. Where("resume", 0, at, ctx)
    BY <1>2, InvFacts DEF Where, Local, Labels
  <2> QED
    BY <1>5, <2>1, InvFacts, Went DEF Silent, Writing
<1> QED
  BY <1>3, <1>4, <1>5 DEF PairEnter, c, d

LEMMA InvPairResume == ASSUME Inv, PairResume PROVE Inv'
<1>0. enc # "iso_2022_jp"
  BY DEF PairResume, Pairs
<1> DEFINE c == [ctx EXCEPT !.lead = 0]
           d == [ctx EXCEPT !.lead = 0, !.second_codepoint = <<>>]
<1>1. enc # "iso_2022_jp"
  BY DEF PairResume, Pairs
<1>2. CtxOK(ctx) /\ CtxOK(c) /\ CtxOK(d) /\ c.prepand = 0 /\ d.prepand = 0
  BY <1>1, InvFacts DEF CtxOK, CtxType, Fields
<1> HIDE DEF c, d
<1>3. CASE Silent /\ Return("SMALL_BUFFER", at, ctx)
  BY <1>2, <1>3, InvFacts, Returned DEF Silent
<1>4. CASE room >= 2 /\ Put(<< <<ctx.lead>>, ctx.second_codepoint >>) /\ Loop(at, d)
  <2>1. room' \in Nat
    BY <1>4, InvFacts DEF Put
  <2> QED
    BY <1>0, <1>2, <1>4, <2>1, InvFacts, Looped
<1>5. CASE ResumeEnds
  BY <1>5, LoopEndsOK
<1>6. CASE at < End /\ room > 0 /\ LeadState(ctx.lead, at, c)
  BY <1>0, <1>2, <1>6, InvFacts, LeadStateOK
<1> QED
  BY <1>3, <1>4, <1>5, <1>6 DEF PairResume, c, d

LEMMA TurnOK == ASSUME Inv, pc = "loop", enc \in Pairs \cup {"euc_jp"}, Turn PROVE Inv'
<1>0. enc # "iso_2022_jp"
  BY DEF Pairs
<1> DEFINE b == Byte(at)
           c == [ctx EXCEPT !.lead = b]
<1>1. CASE LoopEnds
  BY <1>1, LoopEndsOK
<1>2. CASE at < End /\ room > 0 /\ Write(AloneChar(b), at + 1, ctx)
  BY <1>0, <1>2, InvFacts, Written
<1>3. CASE at < End /\ Error(Loop(at + 1, ctx), at, ctx)
  BY <1>0, <1>3, InvFacts, ErrorLooped
<1>4. CASE at + 1 = End /\ Silent /\ Return("CONTINUE", at + 1, c)
  <2>1. b \in 0..255
    BY <1>4, InvFacts, Positions
  <2>2. CtxOK(c)
    BY <2>1, InvFacts DEF CtxOK, CtxType, Fields, Pairs, Utf16
  <2> HIDE DEF c
  <2> QED
    BY <1>4, <2>2, InvFacts, Returned DEF Silent
<1> QED
  BY <1>1, <1>2, <1>3, <1>4 DEF Turn

LEMMA InvPairLoop == ASSUME Inv, PairLoop PROVE Inv'
<1>0. enc # "iso_2022_jp"
  BY DEF PairLoop, Pairs
<1>1. CASE Turn
  BY <1>1, TurnOK DEF PairLoop
<1>2. CASE Leads /\ LeadState(Byte(at), at + 1, ctx)
  BY <1>0, <1>2, InvFacts, LeadStateOK DEF PairLoop, Leads
<1> QED
  BY <1>1, <1>2 DEF PairLoop

(* lead_jis_state in both of its forms.                                    *)
JisState(lead, a, c) == LeadJisState(TRUE, lead, a, c) \/ LeadJisState(FALSE, lead, a, c)

LEMMA JisStateOK ==
    ASSUME Inv, room > 0, NEW lead, NEW a \in begin..(End - 1),
           NEW c, CtxOK(c), enc # "iso_2022_jp", c.prepand = 0, JisState(lead, a, c)
    PROVE  Inv'
<1>1. a \in begin..End /\ a + 1 \in begin..End /\ a + 1 \in (begin + 1)..End
  BY InvFacts
<1>2. \/ Write(<<\h8F, lead, Byte(a)>>, a + 1, c)
      \/ Write(<<lead, Byte(a)>>, a + 1, c)
      \/ Failed(a + 1, c)
  BY DEF JisState, LeadJisState
<1> QED
  BY <1>1, <1>2, Written, FailedOK

LEMMA EucJpLeadOK ==
    ASSUME Inv, enc = "euc_jp", room > 0, NEW lead, NEW a \in begin..(End - 1),
           NEW c, CtxOK(c), c.prepand = 0, EucJpLead(lead, a, c)
    PROVE  Inv'
<1>0. enc # "iso_2022_jp"
  OBVIOUS
<1> DEFINE b == Byte(a)
           d == [c EXCEPT !.lead = b, !.is_jis0212 = TRUE]
<1>1. a \in begin..End /\ a + 1 \in begin..End /\ b \in 0..255
  BY InvFacts, Positions
<1>2. CtxOK(d)
  BY <1>1 DEF CtxOK, CtxType, Fields, Utf16
<1> HIDE DEF b, d
<1>3. CASE Write(<<\hFF61 - \hA1 + b>>, a + 1, c)
  BY <1>0, <1>1, <1>3, Written
<1>4. CASE a + 1 = End /\ Silent /\ Return("CONTINUE", a + 1, d)
  BY <1>1, <1>2, <1>4, InvFacts, Returned DEF Silent
<1>5. CASE a + 1 < End /\ JisState(b, a + 1, c)
  BY <1>0, <1>1, <1>5, InvFacts, JisStateOK
<1>6. CASE JisState(lead, a, c)
  BY <1>0, <1>6, JisStateOK
<1>7. \/ Write(<<\hFF61 - \hA1 + b>>, a + 1, c)
      \/ a + 1 = End /\ Silent /\ Return("CONTINUE", a + 1, d)
      \/ a + 1 < End /\ JisState(b, a + 1, c)
      \/ JisState(lead, a, c)
  BY DEF EucJpLead, JisState, LeadJisState, b, d
<1> QED
  BY <1>3, <1>4, <1>5, <1>6, <1>7

LEMMA InvEucJpResume == ASSUME Inv, EucJpResume PROVE Inv'
<1>0. enc # "iso_2022_jp"
  BY DEF EucJpResume
<1> DEFINE c == [ctx EXCEPT !.lead = 0, !.is_jis0212 = FALSE]
<1>1. CtxOK(c) /\ c.prepand = 0
  BY InvFacts DEF CtxOK, CtxType, Fields, EucJpResume
<1> HIDE DEF c
<1>2. CASE ResumeEnds
  BY <1>2, LoopEndsOK
<1>3. CASE at < End /\ room > 0 /\ JisState(ctx.lead, at, c)
  BY <1>0, <1>1, <1>3, InvFacts, JisStateOK
<1>4. CASE at < End /\ room > 0 /\ EucJpLead(ctx.lead, at, c)
  BY <1>0, <1>1, <1>4, InvFacts, EucJpLeadOK DEF EucJpResume
<1> QED
  BY <1>2, <1>3, <1>4 DEF EucJpResume, JisState, c

LEMMA InvEucJpLoop == ASSUME Inv, EucJpLoop PROVE Inv'
<1>0. enc # "iso_2022_jp"
  BY DEF EucJpLoop
<1>1. CASE Turn
  BY <1>1, TurnOK DEF EucJpLoop
<1>2. CASE Leads /\ EucJpLead(Byte(at), at + 1, ctx)
  BY <1>0, <1>2, InvFacts, EucJpLeadOK DEF EucJpLoop, Leads
<1> QED
  BY <1>1, <1>2 DEF EucJpLoop
-----------------------------------------------------------------------------
(* UTF-8 and UTF-16.                                                       *)

LEMMA BoundaryOK ==
    ASSUME Inv, enc = "utf_8", room > 0, NEW lower, NEW upper, NEW need \in 1..3,
           NEW a \in begin..(End - 1), NEW c, CtxOK(c), Boundary(lower, upper, need, a, c)
    PROVE  Inv'
<1>0. enc # "iso_2022_jp"
  OBVIOUS
<1> DEFINE reset == [c EXCEPT !.lower = 0, !.need = 0]
           owed == [reset EXCEPT !.have_error = TRUE]
           taken == [c EXCEPT !.codepoint = @ \o <<Byte(a)>>]
<1>1. a \in begin..End /\ a + 1 \in begin..End
  BY InvFacts
<1>2. /\ CtxOK(reset) /\ CtxOK(owed) /\ CtxOK(taken) /\ reset.prepand = 0
  BY DEF CtxOK, CtxType, Fields
<1> HIDE DEF reset, owed, taken
<1>3. CASE Error(Loop(a, reset), a, owed)
  BY <1>0, <1>1, <1>2, <1>3, ErrorLooped
<1>4. CASE Silent /\ Goto("decode", need - 1, a + 1, taken)
  <2>1. Where("decode", need - 1, a + 1, taken)
    BY <1>1, <1>2 DEF Where, Local, Labels
  <2> QED
    BY <1>4, <2>1, InvFacts, Went DEF Silent
<1> QED
  BY <1>3, <1>4 DEF Boundary, reset, owed, taken

LEMMA InvUtf8Resume == ASSUME Inv, Utf8Resume PROVE Inv'
<1>0. enc # "iso_2022_jp"
  BY DEF Utf8Resume
<1> DEFINE c == [ctx EXCEPT !.need = 0]
           d == [c EXCEPT !.lower = 0]
<1>1. /\ CtxOK(ctx) /\ CtxOK(c) /\ CtxOK(d) /\ ctx.prepand = 0
      /\ ctx.need \in 0..3 /\ enc = "utf_8"
  BY InvFacts DEF CtxOK, CtxType, Fields, Utf8Resume
<1> HIDE DEF c, d
<1>2. CASE Silent /\ Loop(at, ctx)
  BY <1>0, <1>1, <1>2, InvFacts, Looped DEF Silent
<1>3. CASE ResumeEnds
  BY <1>3, LoopEndsOK
<1>4. CASE at < End /\ room > 0 /\ Silent /\ Goto("decode", ctx.need, at, c)
  <2>1. Where("decode", ctx.need, at, c)
    BY <1>1, InvFacts DEF Where, Local, Labels
  <2> QED
    BY <1>4, <2>1, InvFacts, Went DEF Silent
<1>5. CASE /\ at < End /\ room > 0 /\ ctx.need # 0
           /\ Boundary(ctx.lower, ctx.upper, ctx.need, at, d)
  <2>1. ctx.need \in 1..3 /\ at \in begin..(End - 1)
    BY <1>1, <1>5, InvFacts
  <2> QED
    BY <1>1, <1>5, <2>1, InvFacts, BoundaryOK
<1> QED
  BY <1>2, <1>3, <1>4, <1>5 DEF Utf8Resume, c, d

LEMMA BoundarySetOK ==
    ASSUME NEW ch, NEW c, CtxOK(c)
    PROVE  CtxOK(BoundarySet(ch, c))
BY DEF BoundarySet, CtxOK, CtxType, Fields

LEMMA InvUtf8Loop == ASSUME Inv, Utf8Loop PROVE Inv'
<1>0. enc # "iso_2022_jp"
  BY DEF Utf8Loop
<1> DEFINE ch == Byte(at)
           need == IF ch < \hE0 THEN 1 ELSE IF ch < \hF0 THEN 2 ELSE 3
           c == [ctx EXCEPT !.codepoint = <<ch>>]
           bounds == BoundarySet(ch, ctx)
           begun == [BoundarySet(ch, c) EXCEPT !.need = need]
<1>1. /\ CtxOK(ctx) /\ ctx.prepand = 0 /\ CtxOK(c) /\ need \in 1..3 /\ enc = "utf_8"
  BY InvFacts DEF CtxOK, CtxType, Fields, Utf8Loop
<1>2. CtxOK(begun)
  <2> DEFINE bound == BoundarySet(ch, c)
  <2> HIDE DEF need
  <2>1. CtxOK(bound) /\ begun = [bound EXCEPT !.need = need]
    BY <1>1, BoundarySetOK
  <2> HIDE DEF bound, begun, ch, c
  <2> QED
    BY <1>1, <2>1 DEF CtxOK, CtxType, Fields
<1> HIDE DEF ch, need, c, bounds, begun
<1>3. CASE LoopEnds
  BY <1>3, LoopEndsOK
<1>4. CASE at < End /\ room > 0 /\ Write(<<ch>>, at + 1, ctx)
  BY <1>0, <1>1, <1>4, InvFacts, Written
<1>5. CASE at < End /\ Error(Loop(at + 1, ctx), at, ctx)
  BY <1>0, <1>1, <1>5, InvFacts, ErrorLooped
<1>6. CASE at + 1 = End /\ Silent /\ Return("CONTINUE", at + 1, begun)
  BY <1>2, <1>6, InvFacts, Returned DEF Silent
<1>7. CASE at + 1 < End /\ room > 0 /\ Boundary(bounds.lower, bounds.upper, need, at + 1, c)
  <2>1. at + 1 \in begin..(End - 1)
    BY <1>7, InvFacts
  <2> QED
    BY <1>1, <1>7, <2>1, BoundaryOK
<1>8. CASE at < End /\ room > 0 /\ Silent /\ Goto("decode", need, at + 1, c)
  <2>1. Where("decode", need, at + 1, c)
    BY <1>1, <1>8, InvFacts DEF Where, Local, Labels
  <2> QED
    BY <1>8, <2>1, InvFacts, Went DEF Silent
<1> QED
  BY <1>3, <1>4, <1>5, <1>6, <1>7, <1>8 DEF Utf8Loop, ch, need, c, bounds, begun

LEMMA InvUtf8Decode == ASSUME Inv, Utf8Decode PROVE Inv'
<1>0. enc # "iso_2022_jp"
  BY DEF Utf8Decode
<1> DEFINE waits == [ctx EXCEPT !.need = hold]
           reset == [ctx EXCEPT !.need = 0]
           owed == [ctx EXCEPT !.need = 0, !.have_error = TRUE]
           c == [ctx EXCEPT !.codepoint = @ \o <<Byte(at)>>]
<1>1. hold \in 0..3 /\ room > 0
  BY DEF Utf8Decode, Inv, Where, Writing
<1>2. /\ CtxOK(waits) /\ CtxOK(reset) /\ CtxOK(owed) /\ CtxOK(c)
      /\ c.prepand = 0 /\ reset.prepand = 0
  BY <1>1, InvFacts DEF CtxOK, CtxType, Fields, Utf8Decode
<1> HIDE DEF waits, reset, owed, c
<1>3. CASE at = End /\ Silent /\ Return("CONTINUE", at, waits)
  BY <1>2, <1>3, InvFacts, Returned DEF Silent
<1>4. CASE Error(Loop(at, reset), at, owed)
  BY <1>0, <1>2, <1>4, InvFacts, ErrorLooped
<1>5. CASE at < End /\ Write(c.codepoint, at + 1, c)
  BY <1>0, <1>1, <1>2, <1>5, InvFacts, Written
<1>6. CASE at < End /\ hold > 1 /\ Silent /\ Goto("decode", hold - 1, at + 1, c)
  <2>1. Where("decode", hold - 1, at + 1, c)
    BY <1>1, <1>2, <1>6, InvFacts DEF Where, Local, Labels, Utf8Decode
  <2> QED
    BY <1>1, <1>6, <2>1, InvFacts, Went DEF Silent
<1> QED
  BY <1>3, <1>4, <1>5, <1>6 DEF Utf8Decode, waits, reset, owed, c

LEMMA InvUtf16Resume == ASSUME Inv, Utf16Resume PROVE Inv'
<1>0. enc # "iso_2022_jp"
  BY DEF Utf16Resume, Utf16
<1> DEFINE c == [ctx EXCEPT !.lead = 0]
<1>1. /\ CtxOK(ctx) /\ CtxOK(c) /\ ctx.prepand = 0 /\ ctx.lead \in 0..256
  BY InvFacts DEF CtxOK, CtxType, Fields, Utf16Resume, Utf16
<1> HIDE DEF c
<1>2. CASE Silent /\ Loop(at, ctx)
  BY <1>0, <1>1, <1>2, InvFacts, Looped DEF Silent
<1>3. CASE ResumeEnds
  BY <1>3, LoopEndsOK
<1>4. CASE /\ ctx.lead # 0 /\ at < End /\ room > 0 /\ Silent
           /\ Goto("lead", ctx.lead - 1, at, c)
  <2>1. Where("lead", ctx.lead - 1, at, c)
    BY <1>1, <1>4, InvFacts DEF Where, Local, Labels, Utf16Resume, Utf16
  <2> QED
    BY <1>4, <2>1, InvFacts, Went DEF Silent
<1> QED
  BY <1>2, <1>3, <1>4 DEF Utf16Resume, c

LEMMA InvUtf16Pair == ASSUME Inv, Utf16Pair PROVE Inv'
<1> DEFINE c == [ctx EXCEPT !.lead = Byte(at) + 1]
<1>1. CASE LoopEnds
  BY <1>1, LoopEndsOK
<1>2. CASE at < End /\ room > 0 /\ at + 1 = End /\ Silent /\ Return("CONTINUE", at + 1, c)
  <2>1. Byte(at) \in 0..255
    BY <1>2, InvFacts, Positions
  <2>2. CtxOK(c)
    BY <2>1, InvFacts DEF CtxOK, CtxType, Fields, Utf16Pair, Utf16
  <2> HIDE DEF c
  <2> QED
    BY <1>2, <2>2, InvFacts, Returned DEF Silent
<1>3. CASE at + 1 < End /\ room > 0 /\ Silent /\ Goto("lead", Byte(at), at + 1, ctx)
  <2>1. Byte(at) \in 0..255
    BY <1>3, InvFacts, Positions
  <2>2. Where("lead", Byte(at), at + 1, ctx)
    BY <1>3, <2>1, InvFacts DEF Where, Local, Labels, Utf16Pair, Utf16
  <2> QED
    BY <1>3, <2>2, InvFacts, Went DEF Silent
<1> QED
  BY <1>1, <1>2, <1>3, InvFacts DEF Utf16Pair, Writing

LEMMA InvUtf16Lead == ASSUME Inv, Utf16Lead PROVE Inv'
<1>0. enc # "iso_2022_jp"
  BY DEF Utf16Lead, Utf16
<1> DEFINE unit == IF enc = "utf_16be" THEN <<hold, Byte(at)>> ELSE <<Byte(at), hold>>
           first == ctx.second_codepoint
           c == [ctx EXCEPT !.second_codepoint = <<>>]
           again == [c EXCEPT !.lead = hold + 1]
           owed == [again EXCEPT !.have_error = TRUE]
           late == [ctx EXCEPT !.have_error = TRUE]
           begun == [ctx EXCEPT !.second_codepoint = unit]
<1>1. room > 0 /\ at < End /\ hold \in 0..255 /\ enc \in Utf16
  BY InvFacts DEF Inv, Where, Utf16Lead, Utf16, Writing
<1>2. /\ CtxOK(ctx) /\ CtxOK(c) /\ CtxOK(again) /\ CtxOK(owed) /\ CtxOK(late) /\ CtxOK(begun)
      /\ c.prepand = 0 /\ ctx.prepand = 0
  BY <1>1, InvFacts DEF CtxOK, CtxType, Fields, Utf16
<1>3. at \in begin..End /\ at + 1 \in begin..End
  BY <1>1, InvFacts
<1> HIDE DEF c, again, owed, late, begun
<1>4. CASE Write(first \o unit, at + 1, c)
  BY <1>0, <1>1, <1>2, <1>3, <1>4, Written
<1>5. CASE Error(IF room' = 0 THEN Return("SMALL_BUFFER", at, again)
                 ELSE Goto("lead", hold, at, c), at, owed)
  <2>1. \/ Refused(at, owed)
        \/ Replaced /\ room' = 0 /\ Return("SMALL_BUFFER", at, again)
        \/ Replaced /\ room' # 0 /\ Goto("lead", hold, at, c)
    BY <1>5, InvFacts DEF Error, Refused, Replaced
  <2>2. Where("lead", hold, at, c)
    BY <1>1, <1>2, <1>3 DEF Where, Local, Labels, Utf16
  <2> QED
    BY <1>2, <1>3, <2>1, <2>2, RefusedOK, ReplacedRoom, Returned, Went
<1>6. CASE Error(Loop(at + 1, ctx), at + 1, late)
  BY <1>0, <1>2, <1>3, <1>6, ErrorLooped
<1>7. CASE at + 1 = End /\ Silent /\ Return("CONTINUE", at + 1, begun)
  BY <1>2, <1>3, <1>7, InvFacts, Returned DEF Silent
<1>8. CASE at + 1 < End /\ Silent /\ Goto("pair", 0, at + 1, begun)
  <2>1. Where("pair", 0, at + 1, begun)
    BY <1>2, <1>3, <1>8 DEF Where, Local, Labels
  <2> QED
    BY <1>1, <1>8, <2>1, InvFacts, Went DEF Silent
<1>9. CASE Write(unit, at + 1, ctx)
  BY <1>0, <1>1, <1>2, <1>3, <1>9, Written
<1> QED
  BY <1>4, <1>5, <1>6, <1>7, <1>8, <1>9
     DEF Utf16Lead, c, again, owed, late, begun
-----------------------------------------------------------------------------
(* GB18030.                                                                *)

(* A byte that GB18030 may keep.                                           *)
Kept == 0..254

LEMMA ThirdStateOK ==
    ASSUME Inv, enc = "gb18030", room > 0, NEW first \in Kept, NEW second \in Kept,
           NEW third \in Kept, NEW a \in begin..(End - 1), NEW c, CtxOK(c),
           ThirdState(first, second, third, a, c)
    PROVE  Inv'
<1> DEFINE p == [c EXCEPT !.prepend = TRUE]
           owed == [p EXCEPT !.lead = 1, !.second = second, !.third = third]
           error == [owed EXCEPT !.have_error = TRUE]
           full == [p EXCEPT !.lead = third]
           code == <<first, second, third, Byte(a)>>
<1>1. a \in begin..End /\ a + 1 \in begin..End
  BY InvFacts
<1>2. CtxOK(p) /\ CtxOK(owed) /\ CtxOK(error) /\ CtxOK(full) /\ c.prepand = 0
  BY DEF CtxOK, CtxType, Fields, Utf16, Kept
<1> HIDE DEF p, owed, error, full, code
<1>3. CASE Silent /\ Return("ERROR", at, ctx)
  BY <1>3, InvFacts, Returned DEF Silent
<1>4. CASE Silent /\ Return("SMALL_BUFFER", a, error)
  BY <1>1, <1>2, <1>4, InvFacts, Returned DEF Silent
<1>5. CASE Replaced /\ Return("SMALL_BUFFER", a, owed)
  BY <1>1, <1>2, <1>5, ReplacedRoom, Returned
<1>6. CASE /\ replace \in 1..(room - 1)
           /\ Put([n \in 1..replace |-> Bad] \o << <<second>> >>)
           /\ IF room' = 0 THEN Return("SMALL_BUFFER", a, full) ELSE Goto("first", third, a, p)
  <2>1. Len([n \in 1..replace |-> Bad] \o << <<second>> >>) = replace + 1
    <3>1. [n \in 1..replace |-> Bad] \in Seq({Bad}) /\ Len([n \in 1..replace |-> Bad]) = replace
      BY InvFacts
    <3> QED
      BY <3>1, InvFacts
  <2>2. room' \in Nat
    BY <1>6, <2>1, InvFacts DEF Put
  <2>3. Where("first", third, a, p)
    BY <1>1, <1>2 DEF Where, Local, Labels, Kept
  <2> QED
    BY <1>1, <1>2, <1>6, <2>2, <2>3, Returned, Went
<1>7. CASE Error(Loop(a + 1, c), a + 1, c)
  BY <1>1, <1>2, <1>7, ErrorLooped
<1>8. CASE Write(code, a + 1, c)
  BY <1>1, <1>2, <1>8, Written
<1>9. \/ Silent /\ Return("ERROR", at, ctx)
      \/ Silent /\ Return("SMALL_BUFFER", a, error)
      \/ Replaced /\ Return("SMALL_BUFFER", a, owed)
      \/ /\ replace \in 1..(room - 1)
         /\ Put([n \in 1..replace |-> Bad] \o << <<second>> >>)
         /\ IF room' = 0 THEN Return("SMALL_BUFFER", a, full) ELSE Goto("first", third, a, p)
      \/ Error(Loop(a + 1, c), a + 1, c)
      \/ Write(code, a + 1, c)
  BY InvFacts DEF ThirdState, Replaced, p, owed, error, full, code
<1> QED
  BY <1>3, <1>4, <1>5, <1>6, <1>7, <1>8, <1>9

LEMMA SecondStateOK ==
    ASSUME Inv, enc = "gb18030", room > 0, NEW first \in Kept, NEW second \in Kept,
           NEW a \in begin..(End - 1), NEW c, CtxOK(c), SecondState(first, second, a, c)
    PROVE  Inv'
<1> DEFINE third == Byte(a)
           p == [c EXCEPT !.prepend = TRUE, !.lead = second]
           error == [p EXCEPT !.have_error = TRUE]
           kept == [c EXCEPT !.lead = first, !.second = second, !.third = third]
<1>1. a \in begin..End /\ a + 1 \in begin..End
  BY InvFacts
<1>2. CtxOK(p) /\ CtxOK(error)
  BY DEF CtxOK, CtxType, Fields, Utf16, Kept
<1> HIDE DEF p, error
<1>3. CASE Error(IF room' = 0 THEN Return("SMALL_BUFFER", a, p) ELSE Goto("first", second, a, c),
                 a, error)
  <2>1. \/ Refused(a, error)
        \/ Replaced /\ room' = 0 /\ Return("SMALL_BUFFER", a, p)
        \/ Replaced /\ room' # 0 /\ Goto("first", second, a, c)
    BY <1>3, InvFacts DEF Error, Refused, Replaced
  <2>2. Where("first", second, a, c)
    BY <1>1 DEF Where, Local, Labels, Kept
  <2> QED
    BY <1>1, <1>2, <2>1, <2>2, RefusedOK, ReplacedRoom, Returned, Went
<1>4. CASE third \in Gb18030Lead /\ a + 1 = End /\ Silent /\ Return("CONTINUE", a + 1, kept)
  <2>1. CtxOK(kept)
    BY <1>4 DEF CtxOK, CtxType, Fields, Utf16, Kept, Gb18030Lead
  <2> HIDE DEF kept
  <2> QED
    BY <1>1, <1>4, <2>1, InvFacts, Returned DEF Silent
<1>5. CASE third \in Gb18030Lead /\ a + 1 < End /\ ThirdState(first, second, third, a + 1, c)
  <2>1. third \in Kept /\ a + 1 \in begin..(End - 1)
    BY <1>1, <1>5, InvFacts DEF Gb18030Lead, Kept
  <2> HIDE DEF third
  <2> QED
    BY <1>5, <2>1, ThirdStateOK
<1> QED
  BY <1>3, <1>4, <1>5 DEF SecondState, p, error

LEMMA FirstStateOK ==
    ASSUME Inv, enc = "gb18030", room > 0, NEW first \in Kept,
           NEW a \in begin..(End - 1), NEW c, CtxOK(c), FirstState(first, a, c)
    PROVE  Inv'
<1> DEFINE second == Byte(a)
           code == <<first, second>>
           back == IF second < \h80 THEN a ELSE a + 1
           error == [c EXCEPT !.have_error = TRUE]
           kept == [c EXCEPT !.lead = first, !.second = second]
<1>1. a \in begin..End /\ a + 1 \in begin..End /\ back \in begin..End
  BY InvFacts
<1>2. CtxOK(error) /\ c.prepand = 0
  BY DEF CtxOK, CtxType, Fields
<1> HIDE DEF back, error
<1>3. CASE Write(code, a + 1, c)
  BY <1>1, <1>2, <1>3, Written
<1>4. CASE Error(Loop(back, c), back, error)
  BY <1>1, <1>2, <1>4, ErrorLooped
<1>5. CASE second \in Digit /\ a + 1 = End /\ Silent /\ Return("CONTINUE", a + 1, kept)
  <2>1. CtxOK(kept)
    BY <1>5 DEF CtxOK, CtxType, Fields, Utf16, Kept, Digit
  <2> HIDE DEF kept
  <2> QED
    BY <1>1, <1>5, <2>1, InvFacts, Returned DEF Silent
<1>6. CASE second \in Digit /\ a + 1 < End /\ SecondState(first, second, a + 1, c)
  <2>1. second \in Kept /\ a + 1 \in begin..(End - 1)
    BY <1>1, <1>6, InvFacts DEF Digit, Kept
  <2> HIDE DEF second
  <2> QED
    BY <1>6, <2>1, SecondStateOK
<1> QED
  BY <1>3, <1>4, <1>5, <1>6 DEF FirstState, back, error

(* prepend_first gives back a byte that it cannot use: it must be one of   *)
(* the chunk, and not one that is read again.                              *)
LEMMA PrependFirstOK ==
    ASSUME Inv, enc = "gb18030", room > 0, NEW first \in 0..255, NEW a \in begin..End,
           first = 255 => a > begin, NEW c, CtxOK(c), PrependFirst(first, a, c)
    PROVE  Inv'
<1> DEFINE char == IF first = \h80 THEN <<\h20AC>> ELSE <<first>>
           kept == [c EXCEPT !.lead = first]
<1>1. c.prepand = 0
  BY DEF CtxOK
<1> HIDE DEF char
<1>2. CASE Write(char, a, c)
  BY <1>1, <1>2, Written
<1>3. CASE first = \hFF /\ Error(Loop(a, c), a - 1, c)
  BY <1>1, <1>3, InvFacts, ErrorLooped
<1>4. CASE first \in Gb18030Lead /\ a = End /\ Silent /\ Return("CONTINUE", a, kept)
  <2>1. CtxOK(kept)
    BY <1>4 DEF CtxOK, CtxType, Fields, Utf16, Gb18030Lead
  <2> HIDE DEF kept
  <2> QED
    BY <1>4, <2>1, InvFacts, Returned DEF Silent
<1>5. CASE first \in Gb18030Lead /\ a < End /\ FirstState(first, a, c)
  BY <1>5, InvFacts, FirstStateOK DEF Gb18030Lead, Kept
<1> QED
  BY <1>2, <1>3, <1>4, <1>5 DEF PrependFirst, char

LEMMA InvGb18030Resume == ASSUME Inv, Gb18030Resume PROVE Inv'
<1> DEFINE c == [ctx EXCEPT !.lead = 0, !.second = 0, !.third = 0]
           taken == [c EXCEPT !.prepend = FALSE]
           full == [c EXCEPT !.lead = ctx.third]
<1>1. /\ CtxOK(ctx) /\ CtxOK(c) /\ CtxOK(taken) /\ CtxOK(full)
      /\ ctx.lead \in Kept /\ ctx.second \in Kept /\ ctx.third \in Kept
      /\ ctx.prepand = 0 /\ enc = "gb18030"
  BY InvFacts DEF CtxOK, CtxType, Fields, Utf16, Kept, Gb18030Resume
<1> HIDE DEF c, taken, full
<1>2. CASE Silent /\ Loop(at, ctx)
  BY <1>1, <1>2, InvFacts, Looped DEF Silent
<1>3. CASE ResumeEnds
  BY <1>3, LoopEndsOK
<1>4. CASE /\ at < End /\ room > 0 /\ Put(<< <<ctx.second>> >>)
           /\ IF room' = 0 THEN Return("SMALL_BUFFER", at, full)
              ELSE Goto("first", ctx.third, at, taken)
  <2>1. room' \in Nat
    BY <1>4, PutOne
  <2>2. Where("first", ctx.third, at, taken)
    BY <1>1, InvFacts DEF Where, Local, Labels, Kept
  <2> QED
    BY <1>1, <1>4, <2>1, <2>2, InvFacts, Returned, Went
<1>5. CASE at < End /\ room > 0 /\ ThirdState(ctx.lead, ctx.second, ctx.third, at, c)
  BY <1>1, <1>5, InvFacts, ThirdStateOK
<1>6. CASE at < End /\ room > 0 /\ SecondState(ctx.lead, ctx.second, at, c)
  BY <1>1, <1>6, InvFacts, SecondStateOK
<1>7. CASE at < End /\ room > 0 /\ PrependFirst(ctx.lead, at, taken)
  BY <1>1, <1>7, InvFacts, PrependFirstOK DEF Kept
<1>8. CASE at < End /\ room > 0 /\ FirstState(ctx.lead, at, c)
  BY <1>1, <1>8, InvFacts, FirstStateOK
<1> QED
  BY <1>2, <1>3, <1>4, <1>5, <1>6, <1>7, <1>8 DEF Gb18030Resume, c, taken, full

LEMMA InvGb18030Loop == ASSUME Inv, Gb18030Loop PROVE Inv'
<1>1. CASE LoopEnds
  BY <1>1, LoopEndsOK
<1>2. CASE at < End /\ room > 0 /\ PrependFirst(Byte(at), at + 1, ctx)
  <2>1. Byte(at) \in 0..255
    BY <1>2, InvFacts, Positions
  <2>2. at + 1 \in begin..End /\ at + 1 > begin /\ CtxOK(ctx)
    BY <1>2, InvFacts
  <2>3. enc = "gb18030"
    BY DEF Gb18030Loop
  <2> QED
    BY <1>2, <2>1, <2>2, <2>3, PrependFirstOK
<1>3. CASE pc = "first" /\ PrependFirst(hold, at, ctx)
  <2>1. hold # 255 /\ room > 0
    BY <1>3 DEF Inv, Where, Writing
  <2> QED
    BY <1>3, <2>1, InvFacts, PrependFirstOK DEF Gb18030Loop
<1> QED
  BY <1>1, <1>2, <1>3 DEF Gb18030Loop
-----------------------------------------------------------------------------
(* ISO-2022-JP.                                                            *)

LEMMA EndsOK ==
    ASSUME Inv, NEW status \in {"OK", "CONTINUE"}, NEW c, CtxOK(c), c.prepand = 0,
           Ends(status, c), room' \in Nat
    PROVE  Inv'
<1>1. CASE at = End /\ Return(status, at, c)
  BY <1>1, InvFacts, Returned
<1>2. CASE at < End /\ Loop(at, c)
  BY <1>2, InvFacts, Looped
<1> QED
  BY <1>1, <1>2 DEF Ends

LEMMA ErrorEnds ==
    ASSUME Inv, NEW c, CtxOK(c), c.prepand = 0, NEW d, CtxOK(d),
           Error(Ends("OK", c), at, d)
    PROVE  Inv'
<1>1. Refused(at, d) \/ (Replaced /\ Ends("OK", c))
  BY InvFacts DEF Error, Refused, Replaced
<1> QED
  BY <1>1, InvFacts, RefusedOK, ReplacedRoom, EndsOK

LEMMA InvIso2022JpResume == ASSUME Inv, Iso2022JpResume PROVE Inv'
<1> DEFINE c == [ctx EXCEPT !.prepand = 0]
<1>1. /\ CtxOK(ctx) /\ CtxOK(c) /\ c.prepand = 0 /\ ctx.prepand \in 0..255
      /\ ctx.prepand # 0 => c.state \notin Escapes
  BY InvFacts DEF CtxOK, CtxType, Fields
<1> HIDE DEF c
<1>2. CASE ResumeEnds
  BY <1>2, LoopEndsOK
<1>3. CASE /\ ctx.prepand # 0 /\ at < End /\ room > 0 /\ Silent
           /\ Goto("prepand", ctx.prepand, at, c)
  <2>1. Where("prepand", ctx.prepand, at, c)
    BY <1>1, <1>3, InvFacts DEF Where, Local, Labels, Iso2022JpResume
  <2> QED
    BY <1>3, <2>1, InvFacts, Went DEF Silent
<1>4. CASE at = End /\ Silent /\ Return("OK", at, ctx)
  BY <1>4, InvFacts, Returned DEF Silent
<1>5. CASE ctx.prepand = 0 /\ at < End /\ Silent /\ Loop(at, ctx)
  BY <1>5, InvFacts, Looped DEF Silent
<1> QED
  BY <1>2, <1>3, <1>4, <1>5 DEF Iso2022JpResume, c

LEMMA InvIso2022JpLoop == ASSUME Inv, Iso2022JpLoop PROVE Inv'
<1>1. at < End
  BY DEF Iso2022JpLoop, Inv, Where
<1>2. CASE Silent /\ Return("SMALL_BUFFER", at, ctx)
  BY <1>2, InvFacts, Returned DEF Silent
<1>3. CASE room > 0 /\ Silent /\ Goto("prepand", Byte(at), at + 1, ctx)
  <2>1. Byte(at) \in 0..255
    BY <1>1, InvFacts, Positions
  <2>2. Where("prepand", Byte(at), at + 1, ctx)
    BY <1>1, <2>1, InvFacts DEF Where, Local, Labels, Iso2022JpLoop
  <2> QED
    BY <1>3, <2>2, InvFacts, Went DEF Silent
<1> QED
  BY <1>2, <1>3 DEF Iso2022JpLoop

LEMMA PrepandFacts ==
    ASSUME Inv, pc = "prepand"
    PROVE  /\ CtxOK(ctx) /\ ctx.prepand = 0 /\ room > 0 /\ hold \in 0..255
           /\ ctx.state \in Escapes => at - 1 \in begin..End /\ at - 1 < End
BY InvFacts DEF Inv, Where, Local, Writing

LEMMA InvIso2022JpOneByte == ASSUME Inv, Iso2022JpOneByte PROVE Inv'
<1> DEFINE c == [ctx EXCEPT !.out_flag = FALSE]
           d == [c EXCEPT !.have_error = TRUE]
           begun == [ctx EXCEPT !.state = "escape_start"]
<1>1. /\ CtxOK(c) /\ CtxOK(d) /\ CtxOK(begun) /\ room > 0
      /\ c.prepand = 0 /\ begun.prepand = 0
  BY PrepandFacts DEF CtxOK, CtxType, Fields, Escapes, Iso2022JpOneByte
<1> HIDE DEF c, d, begun
<1>2. CASE Silent /\ Ends("CONTINUE", begun)
  BY <1>1, <1>2, InvFacts, EndsOK DEF Silent
<1>3. CASE Put(<<OneByteChar>>) /\ Ends("OK", c)
  BY <1>1, <1>3, PutOne, EndsOK
<1>4. CASE Error(Ends("OK", c), at, d)
  BY <1>1, <1>4, ErrorEnds
<1> QED
  BY <1>2, <1>3, <1>4 DEF Iso2022JpOneByte, c, d, begun

LEMMA InvIso2022JpLead == ASSUME Inv, Iso2022JpLead PROVE Inv'
<1> DEFINE c == [ctx EXCEPT !.out_flag = FALSE]
           d == [c EXCEPT !.have_error = TRUE]
           begun == [ctx EXCEPT !.state = "escape_start"]
           lead == [c EXCEPT !.lead = hold, !.state = "trail"]
<1>1. /\ CtxOK(c) /\ CtxOK(d) /\ CtxOK(begun) /\ CtxOK(lead)
      /\ c.prepand = 0 /\ begun.prepand = 0 /\ lead.prepand = 0
  BY PrepandFacts DEF CtxOK, CtxType, Fields, Escapes, Utf16, Iso2022JpLead
<1> HIDE DEF c, d, begun, lead
<1>2. CASE Silent /\ Ends("CONTINUE", begun)
  BY <1>1, <1>2, InvFacts, EndsOK DEF Silent
<1>3. CASE Silent /\ Ends("CONTINUE", lead)
  BY <1>1, <1>3, InvFacts, EndsOK DEF Silent
<1>4. CASE Error(Ends("OK", c), at, d)
  BY <1>1, <1>4, ErrorEnds
<1> QED
  BY <1>2, <1>3, <1>4 DEF Iso2022JpLead, c, d, begun, lead

LEMMA InvIso2022JpTrail == ASSUME Inv, Iso2022JpTrail PROVE Inv'
<1> DEFINE code == <<ctx.lead, hold>>
           c == [ctx EXCEPT !.state = IF hold = \h1B THEN "escape_start" ELSE "lead"]
           d == [c EXCEPT !.have_error = TRUE]
           owed == [c EXCEPT !.have_error = TRUE, !.prepand = 1]
<1>1. CtxOK(c) /\ CtxOK(d) /\ room > 0 /\ c.prepand = 0
  BY PrepandFacts DEF CtxOK, CtxType, Fields, Modes, Escapes, Iso2022JpTrail
<1>2. hold # \h1B => CtxOK(owed)
  BY PrepandFacts DEF CtxOK, CtxType, Fields, Modes, Escapes, Iso2022JpTrail
<1> HIDE DEF code, c, d, owed
<1>3. CASE Put(<<code>>) /\ Ends("OK", c)
  BY <1>1, <1>3, PutOne, EndsOK
<1>4. CASE Error(Ends("OK", c), at, d)
  BY <1>1, <1>4, ErrorEnds
<1>5. CASE hold # \h1B /\ Error(Ends("OK", c), at, owed)
  BY <1>1, <1>2, <1>5, ErrorEnds
<1> QED
  BY <1>3, <1>4, <1>5 DEF Iso2022JpTrail, code, c, d, owed

LEMMA InvIso2022JpEscapeStart == ASSUME Inv, Iso2022JpEscapeStart PROVE Inv'
<1> DEFINE c == [ctx EXCEPT !.out_flag = FALSE, !.state = ctx.out_state]
           owed == [c EXCEPT !.have_error = TRUE, !.prepand = 1]
           begun == [ctx EXCEPT !.state = "escape", !.lead = hold]
<1>1. /\ CtxOK(c) /\ CtxOK(owed) /\ CtxOK(begun)
      /\ c.prepand = 0 /\ begun.prepand = 0
  BY PrepandFacts DEF CtxOK, CtxType, Fields, Modes, Escapes, Utf16, Iso2022JpEscapeStart
<1>2. at - 1 \in begin..End /\ at - 1 < End
  BY PrepandFacts DEF Escapes, Iso2022JpEscapeStart
<1> HIDE DEF c, owed, begun
<1>3. CASE Silent /\ Ends("CONTINUE", begun)
  BY <1>1, <1>3, InvFacts, EndsOK DEF Silent
<1>4. CASE Error(Loop(at - 1, c), at - 1, owed)
  BY <1>1, <1>2, <1>4, ErrorLooped
<1> QED
  BY <1>3, <1>4 DEF Iso2022JpEscapeStart, c, owed, begun

LEMMA InvIso2022JpEscape == ASSUME Inv, Iso2022JpEscape PROVE Inv'
<1> DEFINE state == StateOf(ctx.lead, hold)
           back == [ctx EXCEPT !.out_flag = FALSE, !.state = ctx.out_state, !.lead = 0]
           owed == [back EXCEPT !.prepand = ctx.lead]
           error == [owed EXCEPT !.have_error = TRUE]
           c == [ctx EXCEPT !.state = state, !.out_state = state, !.lead = 0]
           d == [c EXCEPT !.have_error = TRUE]
           switched == [c EXCEPT !.out_flag = TRUE]
<1>1. /\ CtxOK(back) /\ CtxOK(owed) /\ CtxOK(error)
      /\ back.prepand = 0 /\ back.state \notin Escapes /\ ctx.lead \in 0..255
  BY PrepandFacts DEF CtxOK, CtxType, Fields, Modes, Escapes, Utf16, Iso2022JpEscape
<1>2. state # "none" => state \in Modes
  BY DEF StateOf, Modes
<1>3. state # "none" => CtxOK(c) /\ CtxOK(d) /\ CtxOK(switched) /\ c.prepand = 0 /\ switched.prepand = 0
  <2> HIDE DEF state
  <2> QED
    BY <1>2, PrepandFacts DEF CtxOK, CtxType, Fields, Modes, Escapes, Utf16, Iso2022JpEscape
<1>4. at - 1 \in begin..End /\ at - 1 < End
  BY PrepandFacts DEF Escapes, Iso2022JpEscape
<1> HIDE DEF state, back, owed, error, c, d, switched
<1>5. CASE Error(IF room' = 0 THEN Return("SMALL_BUFFER", at - 1, owed)
                 ELSE Goto("prepand", ctx.lead, at - 1, back), at - 1, error)
  <2>1. \/ Refused(at - 1, error)
        \/ Replaced /\ room' = 0 /\ Return("SMALL_BUFFER", at - 1, owed)
        \/ Replaced /\ room' # 0 /\ Goto("prepand", ctx.lead, at - 1, back)
    BY <1>5, InvFacts DEF Error, Refused, Replaced
  <2>2. Where("prepand", ctx.lead, at - 1, back)
    BY <1>1, <1>4 DEF Where, Local, Labels, Iso2022JpEscape
  <2> QED
    BY <1>1, <1>4, <2>1, <2>2, RefusedOK, ReplacedRoom, Returned, Went
<1>6. CASE state # "none" /\ Error(Ends("OK", c), at, d)
  BY <1>3, <1>6, ErrorEnds
<1>7. CASE state # "none" /\ Silent /\ Ends("CONTINUE", switched)
  BY <1>3, <1>7, InvFacts, EndsOK DEF Silent
<1> QED
  BY <1>5, <1>6, <1>7
     DEF Iso2022JpEscape, state, back, owed, error, c, d, switched
-----------------------------------------------------------------------------
(* The theorems.                                                           *)

LEMMA InvNext == ASSUME Inv, [Next]_vars PROVE Inv'
<1>1. CASE UNCHANGED vars
  <2>1. (Local(pc, hold, at) => Local(pc, hold, at)') /\ (ReadFrom(at) => ReadFrom(at)')
    BY <1>1 DEF vars, Local, ReadFrom, PassedOver, Byte, End
  <2> QED
    BY <1>1, <2>1 DEF vars, Inv, Fixed, Where, CtxOK, End
<1>2. CASE Feed \/ Again \/ Finish \/ OwedError
  BY <1>2, InvFeed, InvAgain, InvFinish, InvOwedError
<1>3. CASE PairStep
  BY <1>3, InvSingleByte, InvUserDefined, InvStatelessEnter, InvPairEnter,
     InvPairResume, InvPairLoop, InvEucJpResume, InvEucJpLoop DEF PairStep
<1>4. CASE UnicodeStep
  BY <1>4, InvUtf8Resume, InvUtf8Loop, InvUtf8Decode, InvUtf16Resume, InvUtf16Pair,
     InvUtf16Lead DEF UnicodeStep
<1>5. CASE LongStep
  BY <1>5, InvGb18030Resume, InvGb18030Loop, InvIso2022JpResume, InvIso2022JpLoop,
     InvIso2022JpOneByte, InvIso2022JpLead, InvIso2022JpTrail,
     InvIso2022JpEscapeStart, InvIso2022JpEscape DEF LongStep
<1> QED
  BY <1>1, <1>2, <1>3, <1>4, <1>5 DEF Next

(* For every text over bytes, every way to cut it into chunks and every    *)
(* index map: no decoder reads in front of its chunk or behind it, and     *)
(* each has read all of it when it says so, though *data may be left in    *)
(* front of bytes at its end that a one-byte decoder has replaced.         *)
THEOREM DecodersReadTheirChunk == Spec => []InChunk
<1>1. Inv /\ [Next]_vars => Inv'
  BY InvNext
<1> QED
  BY <1>1, InvInit, InvProperties, PTL DEF Spec

(* And for every size of the output buffers: none is written past its end. *)
THEOREM DecodersWriteTheirBuffer == Spec => []TypeOK
<1>1. Inv /\ [Next]_vars => Inv'
  BY InvNext
<1> QED
  BY <1>1, InvInit, InvProperties, PTL DEF Spec
=============================================================================
