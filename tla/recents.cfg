\* Lists of two, up to four saves.
CONSTANTS
    NoText = NoText
    h1 = h1
    h2 = h2
    u = u
    p1 = p1
    p2 = p2
    d = d
    Texts <- MCTexts
    Ports <- MCPorts
    Inputs <- MCInputs
    MaxCount = 2
    MaxSaves = 4
SPECIFICATION Spec
INVARIANTS
    TypeOK
    StoresMostRecent
    ShowsStored
    CardsConnect
