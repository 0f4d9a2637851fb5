SPECIFICATION Spec
CONSTANTS
    Ids <- MCIds
    Bindable <- MCBindable
    MaxStub = 3
    Careless = FALSE
    MaxDepth = 2
    MaxPutOff = 3
INVARIANTS
    TypeOK
    WhatWasAskedFor
PROPERTY RoundsAreWhole
