CONSTANTS
    None = None
    Threads = {t1, t2}
    Exclusive = FALSE
    Api = {"init", "map", "register_data_source"}
    Faults = {"files", "source", "slice", "combine"}
    MaxOps = 4
    Exps <- MCExps
    Groups = {"mag"}
    Names <- ShareNames
    Sources <- MCSources
    Factories <- MCFactories
    Args <- ShareArgs
    Vars <- MCVars
    Indices = "indices"
    Values <- MCValues
    PartitionVars <- MCPartitionVars
    GroupList <- ShareGroups
    NameOrder <- ShareOrder
    Mapping <- ShareMapping
    Globals <- ShareGlobals
    ArgVar <- ShareArgVar
    Texts <- MCTexts
    ArgText <- ShareArgText
    Spelled <- MCSpelled
    StackLimit = 7
    Requests <- ShareRequests
    Configs <- BothConfigs
SPECIFICATION FairSpec
INVARIANT TypeOK
INVARIANT ReferencesValid
INVARIANT MappingCacheWhole
INVARIANT CacheKeyFaithful
INVARIANT FetchesLiveSource
INVARIANT FetchedWithOwnAttributes
PROPERTY EntriesStable
PROPERTY EveryCallReturns
