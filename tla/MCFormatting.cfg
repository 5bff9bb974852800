SPECIFICATION Spec
CONSTANTS
    Node <- Nodes
    Vocabulary <- Documents
    Marker = Marker
    NULL = NULL
INVARIANTS TypeOK OpenNested AtMostThreeEqual
PROPERTIES AllReopened OnlyTheElementLeaves
VIEW Shape
