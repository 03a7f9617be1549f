CONSTANTS
    None = None
    Threads = {t1}
    Exclusive = TRUE
    Api = {"init", "reset", "map", "register_data_source", "register_factory",
           "unregister_data_source"}
    Faults = {"files", "source", "slice", "combine"}
    MaxOps = 4
    Exps <- MCExps
    Groups = {"mag", "aux"}
    Names <- TreeNames
    Sources <- MCSources
    Factories <- MCFactories
    Args <- TreeArgs
    Vars <- MCVars
    Indices = "indices"
    Values <- MCValues
    PartitionVars <- MCPartitionVars
    GroupList <- TreeGroups
    NameOrder <- TreeOrder
    Mapping <- TreeMapping
    Globals <- TreeGlobals
    ArgVar <- TreeArgVar
    Texts <- MCTexts
    ArgText <- TreeArgText
    Spelled <- MCSpelled
    StackLimit = 13
    Requests <- TreeRequests
    Configs <- LateConfigs
SPECIFICATION Spec
INVARIANT LoadedComplete
INVARIANT CountsCoverStore
INVARIANT ResultComplete
INVARIANT RecursesOnlyInCycles
PROPERTY ImplementsService
