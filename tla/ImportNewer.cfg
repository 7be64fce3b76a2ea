\* An import over the state file of a newer WellBoard.
CONSTANTS
    w1 = w1  w2 = w2  h1 = h1  h2 = h2  h3 = h3  v1 = v1  v2 = v2
    Writers = {w1, w2}
    Docs <- MCDocs
    States <- MCStates
    Ids = {h1, h2, h3}
    Templates = {v1, v2}
    Broken = Broken
    Shipped = Shipped
    NoTemplate = NoTemplate
    Missing = Missing
    Torn = Torn
    NoDoc = NoDoc
SPECIFICATION Spec
PROPERTY NewerKept
