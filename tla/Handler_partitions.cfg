CONSTANTS
    None = None
    Threads = {t1}
    Exclusive = TRUE
    Api = {"init", "map", "register_data_source"}
    Faults = {}
    MaxOps = 3
    Exps <- MCExps
    Groups = {"mag", "aux"}
    Names <- TreeNames
    Sources <- MCSources
    Factories <- MCFactories
    Args <- TreeArgs
    Vars <- MCVars
    Indices = "indices"
    Values <- MCValues
    PartitionVars <- MCPartitionVars
    GroupList <- MagOnly
    NameOrder <- TreeOrder
    Mapping <- TreeMapping
    Globals <- TreeGlobals
    ArgVar <- TreeArgVar
    Texts <- MCTexts
    ArgText <- TreeArgText
    Spelled <- MCSpelled
    StackLimit = 13
    Requests <- TreeRequests
    Configs <- CachedConfigs
SPECIFICATION Spec
INVARIANT EveryPartitionServed
