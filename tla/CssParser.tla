----------------------------- MODULE CssParser -----------------------------
(***************************************************************************)
(* The CSS syntax parser: the phases of css/syntax/parser.c and the states *)
(* they feed. A phase looks at the next token and passes it on, or hides   *)
(* it behind an END token when it is none of the rule's business; a state  *)
(* gets what is passed on and consumes it. Rules in progress are on a      *)
(* stack, the last in charge; the brackets open in all of them share one   *)
(* stack of types, and every rule counts its own (deep).                   *)
(*                                                                         *)
(* CssSyntax says what a text of tokens means. Here a rule's phase, or its *)
(* state when a token is given, is one action.                             *)
(***************************************************************************)
EXTENDS CssSyntax, SequencesExt

CONSTANT Texts      \* what is parsed: <<entry, tokens>>

VARIABLES
    entry, text,    \* what is parsed
    pos,            \* the next token
    rules,          \* the stack; below the first rule there is an empty one
    types,          \* the closing brackets that are due
    value_end,      \* where the value of the declaration ends, 0 as long as
                    \* that is not known
    given,          \* what the phase passed to the state: "none" | "token" | "end"
    loop

vars == <<entry, text, pos, rules, types, value_end, given, loop>>

-----------------------------------------------------------------------------
(* Rules.                                                                  *)

Rule(kind, phase, state, context, block_end, nested) ==
    [kind |-> kind, phase |-> phase, state |-> state, context |-> context, context_old |-> NULL,
     block_end |-> block_end, nested |-> nested, returned |-> NULL, skip_consume |-> FALSE,
     important |-> FALSE, failed |-> FALSE, deep |-> 0, offset |-> 0, begin |-> 0]

Base == Rule("base", "none", "none", NULL, NULL, FALSE)
ListRulesRule == Rule("list_rules", "list_rules", "blank", <<>>, NULL, FALSE)
BlockRule == Rule("block", "block", "blank", <<>>, NULL, FALSE)
QualifiedRuleRule(block_end, nested) ==
    Rule("qualified", "qualified_rule", "qualified_prelude",
         [bad |-> FALSE, prelude |-> <<0, 0>>], block_end, nested)
AtRuleRule(name, block_end, nested) ==
    Rule("at", "at_rule", IF text[name] = "@font-face" THEN "font_face_prelude" ELSE "at_prelude",
         [name |-> name, prelude |-> <<0, 0>>], block_end, nested)
DeclarationsRule(phase, block_end, nested) ==
    Rule("declarations", phase, "blank", <<>>, block_end, nested)

Top == Last(rules)
Token == Tok(text, pos)
\* Mutant of Offset: a token that is given again is looked at again.
OffsetBefore(i) == i
\* Where the phase has looked up to, so that it does not look again.
Offset(i) == IF Tok(text, i) = "eof" THEN i ELSE i + 1

In(phase) == loop /\ given = "none" /\ Top.phase = phase
InState(state) == loop /\ given # "none" /\ Top.state = state
Given == IF given = "end" THEN "end" ELSE Token

\* The rule in charge is r from here on.
Go(r, i, what) ==
    /\ rules' = Append(Front(rules), r)
    /\ pos' = i
    /\ given' = what
    /\ UNCHANGED <<entry, text, types, value_end, loop>>

\* r waits for child. The phase of child is next.
Push(r, child, i) ==
    /\ rules' = Front(rules) \o <<r, child>>
    /\ pos' = i
    /\ given' = "none"
    /\ UNCHANGED <<entry, text, types, value_end, loop>>

Success(r) == [r EXCEPT !.state = "success"]
FailedState == [at |-> "skip", qualified |-> "skip", declarations |-> "declarations_bad",
                list_rules |-> "failed", block |-> "failed"]
Failed(r) == [r EXCEPT !.state = FailedState[r.kind], !.failed = TRUE]
Locked(r) == [r EXCEPT !.skip_consume = TRUE]
Unlocked(r) == [r EXCEPT !.skip_consume = FALSE]

\* What the rule below does with what the one in charge made.
Back(r, result) ==
    LET b == [r EXCEPT !.returned = result]
    IN  CASE r.kind = "base"       -> [b EXCEPT !.state = "stop"]
          [] r.kind = "list_rules" -> Locked([b EXCEPT !.phase = "list_rules", !.state = "next"])
          [] r.kind = "block"      -> Locked([b EXCEPT !.phase = "block", !.state = "next"])
          [] OTHER                 -> [b EXCEPT !.phase = "end", !.state = "blank"]
CallBack(result, i) ==
    /\ rules' = Append(Front(Front(rules)), Back(Last(Front(rules)), result))
    /\ pos' = i
    /\ given' = "token"
    /\ UNCHANGED <<entry, text, types, value_end, loop>>

\* Bracket t for rule r.
Closes(r, t) == r.deep # 0 /\ Last(types) = t
Deep(r, t) == CASE t \in DOMAIN Closer -> r.deep + 1
                [] Closes(r, t)        -> r.deep - 1
                [] OTHER               -> r.deep
Types(r, t) == CASE t \in DOMAIN Closer -> Append(types, Closer[t])
                 [] Closes(r, t)        -> Front(types)
                 [] OTHER               -> types

-----------------------------------------------------------------------------
(* Phases: the list of rules.                                              *)

ListRules ==
    /\ In("list_rules")
    /\ IF Top.offset > pos THEN Go(Top, pos, "token")
       ELSE LET i == Past(text, pos, {" "})
                r == Locked([Top EXCEPT !.offset = Offset(i)])
            IN  CASE Tok(text, i) = "eof"       -> Go([r EXCEPT !.phase = "end"], i, "end")
                  [] Tok(text, i) \in AtKeyword ->
                        Go([r EXCEPT !.phase = "list_rules_at"], i, "token")
                  [] OTHER -> Go([r EXCEPT !.phase = "list_rules_qualified"], i, "token")

\* The name and a space behind it are consumed.
AtBegin(nested) ==
    Push(Unlocked(Top), AtRuleRule(pos, Top.block_end, nested), PastSpace(text, pos + 1))

ListRulesAt == In("list_rules_at") /\ AtBegin(FALSE)

ListRulesQualified ==
    /\ In("list_rules_qualified")
    /\ Push(Unlocked(Top), QualifiedRuleRule(Top.block_end, FALSE), pos)

-----------------------------------------------------------------------------
(* Phases: the prelude of an at-rule or of a qualified rule.               *)

PreludeEnd == [at |-> "at_prelude_end", qualified |-> "qualified_prelude_end"]
PreludeBlock == [at |-> "at_block", qualified |-> "qualified_rule_block"]

\* The prelude is over, phase is next: END.
PreludeOver(r, phase) == Go(Locked([r EXCEPT !.phase = phase]), pos, "end")

PreludeToken(r) ==
    CASE \/ Token = "eof"
         \/ Token = r.block_end /\ r.deep = 0
         \/ Token = "}" /\ r.deep = 0 /\ r.nested ->
            PreludeOver(r, PreludeEnd[r.kind])
      [] Token = "{" /\ r.deep = 0 -> PreludeOver(r, PreludeBlock[r.kind])
      [] Token = ";" /\ r.deep = 0 /\ r.kind = "at" ->
            PreludeOver(r, "at_prelude_end_consume_token")
      [] OTHER ->
            /\ types' = Types(r, Token)
            /\ rules' = Append(Front(rules), [r EXCEPT !.deep = Deep(r, Token)])
            /\ given' = "token"
            /\ UNCHANGED <<entry, text, pos, value_end, loop>>

PreludeRule(phase) ==
    /\ In(phase)
    /\ IF Top.offset > pos THEN Go(Top, pos, "token")
       ELSE PreludeToken([Top EXCEPT !.offset = Offset(pos)])

AtRulePhase == PreludeRule("at_rule")
QualifiedRulePhase == PreludeRule("qualified_rule")

\* The callback at the end of the prelude: a qualified rule that failed goes on
\* as a bad one.
Prelude(r) == IF r.kind = "at"
              THEN [r EXCEPT !.context.prelude[2] = pos]
              ELSE [r EXCEPT !.context.prelude[2] = pos, !.context.bad = r.failed]

PreludeEndPhase(phase) ==
    In(phase) /\ Go(Success([Prelude(Top) EXCEPT !.phase = "end"]), pos, "none")
AtPreludeEnd == PreludeEndPhase("at_prelude_end")
QualifiedPreludeEnd == PreludeEndPhase("qualified_prelude_end")

AtPreludeEndConsumeToken ==
    /\ In("at_prelude_end_consume_token")
    /\ Go([Prelude(Top) EXCEPT !.phase = "end_consume_token"], pos, "none")

\* The callback of @namespace fails the rule: it has no block.
BlockBegin(phase) ==
    LET r == Unlocked(Prelude(Top)) IN
    /\ In(phase)
    /\ Push([r EXCEPT !.failed = @ \/ (r.kind = "at" /\ text[r.context.name] = "@namespace")],
            BlockRule, pos + 1)
AtBlock == BlockBegin("at_block")
QualifiedRuleBlock == BlockBegin("qualified_rule_block")

-----------------------------------------------------------------------------
(* Phases: the block.                                                      *)

Block ==
    /\ In("block")
    /\ IF Top.offset > pos THEN Go(Top, pos, "token")
       ELSE LET i == Past(text, pos, {" ", ";"})
                phase == CASE Tok(text, i) = "}"             -> "end_consume_token"
                           [] Tok(text, i) = "eof"           -> "end"
                           [] Tok(text, i) \in AtKeyword     -> "block_at"
                           [] NamesDeclaration(text, i)      -> "block_declarations"
                           [] OTHER                          -> "block_qualified"
            IN  Go(Locked([Top EXCEPT !.offset = Offset(i), !.phase = phase]), i, "end")

BlockAt == In("block_at") /\ AtBegin(TRUE)

BlockDeclarations ==
    /\ In("block_declarations")
    /\ Push(Unlocked(Top), DeclarationsRule("declarations_begin", "}", TRUE), pos)

BlockQualified ==
    /\ In("block_qualified")
    /\ Push(Unlocked(Top), QualifiedRuleRule(";", TRUE), pos)

-----------------------------------------------------------------------------
(* Phases: declarations.                                                   *)

\* What is no declaration begins at i.
Junk(r, i) ==
    /\ rules' = Append(Front(rules),
                       [r EXCEPT !.phase = "declarations_drop", !.state = "declarations_bad",
                                 !.begin = i, !.context = NULL, !.failed = TRUE])
    /\ value_end' = 0
    /\ pos' = i
    /\ given' = "none"
    /\ UNCHANGED <<entry, text, types, loop>>

\* The declaration named at i, and the state that reads its value.
Named(r, i) ==
    [r EXCEPT !.phase = "declarations_name",
              !.state = IF text[i] \in Property THEN "property" ELSE "custom",
              !.context = [name |-> i, value |-> <<0, 0>>, important |-> FALSE, text |-> <<>>,
                           type |-> IF text[i] \in Property THEN "property" ELSE "custom"]]

Begun(r, i) == Go(Unlocked([Named(r, i) EXCEPT !.context_old = r.context]), i + 1, "none")

DeclarationsValidate ==
    LET i == Past(text, pos, {" ", ";"})
        r == [Top EXCEPT !.context_old = Top.context]
    IN  /\ In("declarations_validate")
        /\ CASE NamesDeclaration(text, i) -> Begun(Top, i)
             [] Tok(text, i) = "eof"      -> Go([r EXCEPT !.phase = "declarations_end"], i, "none")
             [] OTHER                     -> Junk(r, i)

DeclarationsBegin == In("declarations_begin") /\ Begun(Top, pos)

DeclarationsName ==
    LET i == PastSpace(text, PastSpace(text, pos) + 1) IN
    /\ In("declarations_name")
    /\ rules' = Append(Front(rules), [Top EXCEPT !.begin = i, !.phase = "declarations_value"])
    /\ value_end' = 0
    /\ pos' = i
    /\ UNCHANGED <<entry, text, types, given, loop>>

\* What may follow a value, and "!important" before that.
Ending(r, i) == Tok(text, i) \in {";", "eof"} \cup ({"}"} \cap {r.block_end})
ImportantAt(r, i) == /\ Tok(text, i) = "!"
                     /\ Tok(text, i + 1) = "important"
                     /\ Ending(r, PastSpace(text, i + 2))
\* The space at i is the last thing before that. The end of the text is not looked for.
SpaceEnds(r, i) == \/ (Tok(text, i + 1) # "eof" /\ Ending(r, i + 1))
                   \/ ImportantAt(r, i + 1)

\* Token i of a value, the value ending at v: nothing is hidden from the state
\* but what ends the declaration.
ValueToken(rule, i, v) ==
    LET r == [rule EXCEPT !.offset = Offset(i)]
        t == Tok(text, i)
        over == t = "eof" \/ (t = r.block_end /\ r.deep = 0)
        next == t = ";" /\ r.deep = 0
    IN  /\ rules' = Append(Front(rules),
                CASE over  -> Locked([r EXCEPT !.phase = "declaration_end"])
                  [] next  -> [r EXCEPT !.phase = "declarations_next"]
                  [] OTHER -> [r EXCEPT !.deep = Deep(r, t)])
        /\ value_end' = IF (over \/ next) /\ v = 0 THEN i ELSE v
        /\ types' = IF over \/ next THEN types ELSE Types(r, t)
        /\ pos' = IF next THEN i + 1 ELSE i
        /\ given' = IF over \/ next THEN "end" ELSE "token"
        /\ UNCHANGED <<entry, text, loop>>

DeclarationsValue ==
    LET important == [Top EXCEPT !.important = TRUE] IN
    /\ In("declarations_value")
    /\ CASE Top.offset > pos -> Go(Top, pos, "token")
         [] Top.offset <= pos /\ Token = " " /\ Top.deep = 0 /\ SpaceEnds(Top, pos) ->
               IF Tok(text, pos + 1) = "!"
               THEN ValueToken(important, PastSpace(text, pos + 3), pos)
               ELSE ValueToken(Top, pos + 1, pos)
         [] Top.offset <= pos /\ ImportantAt(Top, pos) ->
               ValueToken(important, PastSpace(text, pos + 2), pos)
         [] OTHER -> ValueToken(Top, pos, value_end)

DeclarationsDrop ==
    /\ In("declarations_drop")
    /\ IF Top.offset > pos THEN Go(Top, pos, "token") ELSE ValueToken(Top, pos, value_end)

\* END again until the state has had enough.
HideAgain(r) == Go(Locked(r), pos, "end")

\* The callback at the end of a declaration appends it to the list.
DeclarationDone(r) ==
    [r EXCEPT !.context_old = Append(@, [r.context EXCEPT
        !.value = <<r.begin, value_end>>,
        !.important = r.important,
        !.type = IF r.failed THEN "undef" ELSE @])]

Fresh(r) == Unlocked([r EXCEPT !.important = FALSE, !.failed = FALSE])

\* The way to declarations_drop is an early return: the flags stay.
DeclarationsNext ==
    LET i == Past(text, pos, {" ", ";"})
        r == DeclarationDone(Top)
    IN  /\ In("declarations_next")
        /\ CASE Top.state # "success" -> HideAgain(Top)
             [] Top.state = "success" /\ NamesDeclaration(text, i) ->
                   Go(Named(Fresh(r), i), i + 1, "none")
             [] /\ Top.state = "success"
                /\ ~NamesDeclaration(text, i)
                /\ \/ Tok(text, i) = "eof"
                   \/ Top.nested ->
                   Go([Fresh(r) EXCEPT !.phase = "declarations_end"], i, "none")
             [] OTHER -> Junk(r, i)

DeclarationEnd ==
    /\ In("declaration_end")
    /\ IF Top.state # "success" THEN HideAgain(Top)
       ELSE CallBack(DeclarationList(DeclarationDone(Top).context_old), pos)

DeclarationsEnd ==
    In("declarations_end") /\ CallBack(DeclarationList(Top.context_old), pos)

-----------------------------------------------------------------------------
(* Phases: the end of a rule.                                              *)

\* The callbacks at the end of the rules.
AtUndef(r) == CASE text[r.context.name] = "@media"  -> r.failed \/ r.returned = NULL
                [] text[r.context.name] \in {"@font-face", "@namespace"} -> r.failed
                [] OTHER -> FALSE
\* @namespace keeps its block only when it is undefined.
AtResult(r) == [kind |-> "at", name |-> text[r.context.name], prelude |-> r.context.prelude,
                block |-> r.returned, undef |-> AtUndef(r)]
Result(r) == CASE r.kind = "at"        -> AtResult(r)
               [] r.kind = "qualified" -> StyleRuleOf(r.context.bad, r.context.prelude, r.returned)
               [] OTHER                -> r.context

EndPhase(phase, i) ==
    /\ In(phase)
    /\ IF Top.state # "success" THEN HideAgain(Top) ELSE CallBack(Result(Top), i)
End == EndPhase("end", pos)
EndConsumeToken == EndPhase("end_consume_token", pos + 1)

-----------------------------------------------------------------------------
(* States.                                                                 *)

Consumed == IF Top.skip_consume THEN pos ELSE pos + 1

Blank == InState("blank") /\ Go(Success(Top), pos, "none")

SuccessState ==
    /\ InState("success")
    /\ CASE Given = "end" -> Go(Top, pos, "none")
         [] Given = " "   -> Go(Top, Consumed, "none")
         [] OTHER         -> Go(Failed(Top), pos, "none")

\* The list or the block gets what the rule above it made.
NextState ==
    InState("next") /\ Go(Success([Top EXCEPT !.context = Append(@, Top.returned)]), pos, "none")

Stop ==
    /\ InState("stop")
    /\ loop' = FALSE
    /\ given' = "none"
    /\ UNCHANGED <<entry, text, pos, rules, types, value_end>>

\* Mutant of SkipFor: END is skipped like a token.
SkipEnd(r) == Go(r, Consumed, "none")
\* All that is given is skipped, up to END.
SkipFor(r) == IF Given = "end" THEN Go(Success(r), pos, "none") ELSE Go(r, Consumed, "none")
Skip == InState("skip") /\ SkipFor(Top)

PreludeFrom == [Top EXCEPT !.context.prelude[1] = pos]
AtPrelude == InState("at_prelude") /\ SkipFor([PreludeFrom EXCEPT !.state = "skip"])
FontFacePrelude ==
    /\ InState("font_face_prelude")
    /\ Go(IF Given = "end" THEN Success(PreludeFrom) ELSE Failed(PreludeFrom), pos, "none")

QualifiedPrelude ==
    InState("qualified_prelude") /\ Go([PreludeFrom EXCEPT !.state = "compound"], pos, given)

\* A selector: types, with space between them.
Compound ==
    /\ InState("compound")
    /\ CASE Given \in Ident -> Go([Top EXCEPT !.state = "complex_end"], Consumed, "none")
         [] Given = " "     -> Go(Top, Consumed, "none")
         [] OTHER           -> Go(Failed(Top), pos, "none")
ComplexEnd ==
    /\ InState("complex_end")
    /\ CASE Given = " "   -> Go([Top EXCEPT !.state = "descendant"], Consumed, "none")
         [] Given = "end" -> Go(Success(Top), pos, "none")
         [] OTHER         -> Go(Failed(Top), pos, "none")
Descendant ==
    /\ InState("descendant")
    /\ IF Given = "end" THEN Go(Success(Top), pos, "none")
       ELSE Go([Top EXCEPT !.state = "compound"], pos, "none")

\* The value of a property that takes one keyword.
PropertyState ==
    /\ InState("property")
    /\ IF Given \in Keyword THEN Go(Success(Top), Consumed, "none")
       ELSE Go(Failed(Top), pos, "none")

CustomState ==
    /\ InState("custom")
    /\ IF Given = "end" THEN Go(Success(Top), pos, "none")
       ELSE Go([Top EXCEPT !.context.text = Append(@, pos)], Consumed, "none")

\* What has no name gets a declaration of its own.
DeclarationsBad ==
    /\ InState("declarations_bad")
    /\ SkipFor(IF Top.context # NULL THEN Top
               ELSE [Top EXCEPT !.context = [name |-> 0, value |-> <<0, 0>>, important |-> FALSE,
                                             text |-> <<>>, type |-> "undef"]])

-----------------------------------------------------------------------------

Init ==
    /\ \E t \in Texts : entry = t[1] /\ text = t[2]
    /\ pos = 1
    /\ rules = <<Base, IF entry = "stylesheet" THEN ListRulesRule
                       ELSE DeclarationsRule("declarations_validate", NULL, FALSE)>>
    /\ types = <<>>
    /\ value_end = 0
    /\ given = "none"
    /\ loop = TRUE

Phase ==
    \/ ListRules \/ ListRulesAt \/ ListRulesQualified
    \/ AtRulePhase \/ AtBlock \/ AtPreludeEnd \/ AtPreludeEndConsumeToken
    \/ QualifiedRulePhase \/ QualifiedRuleBlock \/ QualifiedPreludeEnd
    \/ Block \/ BlockAt \/ BlockDeclarations \/ BlockQualified
    \/ DeclarationsValidate \/ DeclarationsBegin \/ DeclarationsName \/ DeclarationsValue
    \/ DeclarationsDrop \/ DeclarationsNext \/ DeclarationEnd \/ DeclarationsEnd
    \/ End \/ EndConsumeToken

State ==
    \/ Blank \/ SuccessState \/ NextState \/ Stop \/ Skip
    \/ AtPrelude \/ FontFacePrelude
    \/ QualifiedPrelude \/ Compound \/ ComplexEnd \/ Descendant
    \/ PropertyState \/ CustomState \/ DeclarationsBad

Next == Phase \/ State

Spec == Init /\ [][Next]_vars /\ WF_vars(Next)

-----------------------------------------------------------------------------
(* Properties.                                                             *)

\* What the parser makes of a text is what its grammar says: no token is read by
\* two rules or by none, brackets are those of the rule that counts them, and
\* !important and failure stay with their declaration (lxb_css_syntax_parser_run).
RulesAsSpecified == ~loop => rules[1].returned = Meaning(text, entry)

\* The parser gets to the end of every text: no state waits for a token that its
\* phase goes on hiding, and none goes round on a token that it may not consume.
ParseEnds == <>~loop
=============================================================================
