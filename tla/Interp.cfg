CONSTANTS
    NaN = NaN
    Unit = 2
    Half = 4
    Floats <- MCFloats
    Inputs <- MCInputs
    Bases <- MCBases
    Targets <- MCTargets
    DataTypes = {"float", "double", "int", "other"}
    Ranks = {0, 1}
SPECIFICATION InterpSpec
INVARIANTS
    InterpTypeOK
    ValuesKept
    WrittenAsFloatAccepted
    Encloses
    OutsideOnlyForNaN
    Interpolates
