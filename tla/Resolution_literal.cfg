SPECIFICATION ResolutionSpec
CONSTANTS
    None = None
    Hash = Hash
    shot = shot
    machine = machine
    below = below
    above = above
    near = near
    exact = exact
    nested = nested
    other = other
    mast = mast
    old = old
    notes = notes
    coil = coil
    flux = flux
    Half <- McHalf
    MaxIndex <- McMaxIndex
    Keys <- McKeys
    Texts <- McTexts
    Leading <- McLeading
    Tree <- McTree
    Names <- McNames
    Attributes <- McAttributes
    Requests <- McRequests
    Experiments <- McExperiments
    PartitionsOf <- McPartitionsOf
    Groups <- McGroups
    GroupsOf <- McGroupsOf
    MappingsIn <- McMappingsIn
INVARIANT
    LiteralNameFound
