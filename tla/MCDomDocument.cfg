SPECIFICATION SpecValidated
CONSTANTS
    NULL = NULL
    doc = doc  dtd = dtd  el1 = el1  el2 = el2  txt = txt  cmt = cmt  frag = frag
    Node = {doc, dtd, el1, el2, cmt, frag}
    NodeType <- MCNodeType
    EventsOn = FALSE
INVARIANT DocumentsWellFormed
