CONSTANTS
    None = None
    Threads = {t1}
    Exclusive = TRUE
    Api = {"init", "map"}
    Faults = {}
    MaxOps = 3
    Exps <- MCExps
    Groups = {"mag"}
    Names <- TwoNames
    Sources <- MCSources
    Factories <- MCFactories
    Args <- ShareArgs
    Vars <- MCVars
    Indices = "indices"
    Values <- MCValues
    PartitionVars <- MCPartitionVars
    GroupList <- ShareGroups
    NameOrder <- TwoOrder
    Mapping <- TwoMapping
    Globals <- ShareGlobals
    ArgVar <- ShareArgVar
    Texts <- MCTexts
    ArgText <- ShareArgText
    Spelled <- MCSpelled
    StackLimit = 2
    Requests <- TwoRequests
    Configs <- CachedConfigs
SPECIFICATION TwoSpec
INVARIANT AnswersFromOwnSources
