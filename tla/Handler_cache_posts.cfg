CONSTANTS
    None = None
    Threads = {t1}
    Exclusive = TRUE
    Api = {"init", "map", "register_data_source"}
    Faults = {}
    MaxOps = 4
    Exps <- MCExps
    Groups = {"mag"}
    Names <- ShareNames
    Sources <- MCSources
    Factories <- MCFactories
    Args <- ShareArgs
    Vars <- MCVars
    Indices = "indices"
    Values <- MCValues
    PartitionVars <- MCPartitionVars
    GroupList <- ShareGroups
    NameOrder <- ShareOrder
    Mapping <- ShareMapping
    Globals <- ShareGlobals
    ArgVar <- ShareArgVar
    Texts <- MCTexts
    ArgText <- ShareArgText
    Spelled <- MCSpelled
    StackLimit = 7
    Requests <- SiblingRequests
    Configs <- CachedConfigs
SPECIFICATION Spec
INVARIANT TransformedOnce
