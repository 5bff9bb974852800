------------------------------ MODULE MCStyle ------------------------------
(* Two nested elements and a <style>; two stylesheets of the program and up *)
(* to two of the <style>; rules of equal and of different weight, one that  *)
(* needs an ancestor, one that is important; a style attribute that has its *)
(* declaration twice.                                                       *)
EXTENDS Style

CONSTANTS outer, inner, styletag, sheetA, sheetB, sheet1, sheet2, width

MCElements == <<outer, inner, styletag>>
MCTagSheets == <<sheet1, sheet2>>

Plain == <<[prop |-> width, important |-> FALSE]>>
Important == <<[prop |-> width, important |-> TRUE]>>

Ru(to, under, sp, decls) == [to |-> to, under |-> under, sp |-> sp, decls |-> decls]

TagRules == <<Ru({inner}, NULL, 1, Plain)>>

MCRules ==
    [s \in Sheet |->
        CASE s = sheetA -> <<Ru({outer, inner}, NULL, 1, Plain),
                             Ru({inner}, outer, 2, Plain)>>
          [] s = sheetB -> <<Ru({inner}, NULL, 1, Important)>>
          [] OTHER      -> TagRules]

\* The instance is one that the theorem about CascadeCurrent covers.
ASSUME MCTagUnstyled == TagUnstyled

MCTexts == {Plain \o Plain, Important, <<>>}

=============================================================================
