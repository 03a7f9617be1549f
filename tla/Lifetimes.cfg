CONSTANTS
    None = None
    NoPointer = NoPointer
    Buffers = {1, 2, 3, 4, 5, 6, 7, 8, 9}
    Slots <- MCSlots
    Keys <- MCKeys
    MaxSize = 1
    Functions = {"python_fit", "fit", "aux"}
    PythonFunctions = {"python_fit"}
    Name <- MCName
    Customs <- MCCustoms
    FunctionOf <- MCFunctionOf
    MaxFunctions <- MCFunctions
    Names <- MCNames
    Requests <- MCRequests
    Mapping <- MCMapping
    Shared <- MCShared
    Caching = TRUE
    Libraries <- MCLibraries
    Bindings = {"python", "rust"}
    MaxOps = 2
SPECIFICATION LifetimeSpec
INVARIANTS
    LifetimeTypeOK
    OwnedOnce
    NothingLost
    RawPointersLive
    HeldApart
    ConvertedStaysLocal
    LentAlive
    CallsNamedFunction
