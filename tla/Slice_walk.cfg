CONSTANTS
    Half <- MCHalf
    Omitted = Omitted
    Shapes <- MCShapes
    Slices <- MCSlices
SPECIFICATION Spec
INVARIANT TypeOK
INVARIANT ReadsConfined
INVARIANT FillsAllocation
INVARIANT SelectsAsWritten
INVARIANT RegularAccepted
