SPECIFICATION Spec
CONSTANTS
    Width = 10
    Padding = 1
    Places <- MCPlaces
    Zooms <- MCZooms
    Pans <- MCPans
    Sizes <- MCSizes
    MaxFrames = 1
    MaxSends = 2
INVARIANTS
    TypeOK
    ClicksArePaired
    ScrollIsConserved
    AimIsNear
PROPERTY
    SendsEnd
CHECK_DEADLOCK FALSE
