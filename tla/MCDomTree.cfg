SPECIFICATION Spec
CONSTANTS
    NULL = NULL
    doc = doc  dtd = dtd  el1 = el1  el2 = el2  txt = txt  cmt = cmt  frag = frag
    Node = {el1, el2, txt, frag}
    NodeType <- MCNodeType
    EventsOn = TRUE
INVARIANTS TypeOK TreeLinked NoDangling
PROPERTIES NotifiesMoves JobsEnd ImplementsForest
