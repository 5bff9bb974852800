----------------------------- MODULE MCDomTree -----------------------------
(* Instances of DomTreeRefine for TLC: the cfg picks the nodes.            *)
EXTENDS DomTreeRefine, TLC

CONSTANTS doc, dtd, el1, el2, txt, cmt, frag

MCNodeType ==
    [n \in Node |-> CASE n = doc -> "document"
                      [] n = dtd -> "doctype"
                      [] n = txt -> "text"
                      [] n = cmt -> "comment"
                      [] n = frag -> "fragment"
                      [] OTHER -> "element"]
=============================================================================
