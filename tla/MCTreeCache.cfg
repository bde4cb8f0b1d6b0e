CONSTANTS
    Token <- MCTokens
    Bit <- MCBits
    Filters <- MCFilters
    MaxLeaf = 4
    NoFile = NoFile
    Torn = Torn
    Noise = Noise
    NoToken = NoToken
SPECIFICATION Spec
ACTION_CONSTRAINT DrawLeastToken
VIEW UpToTokenNames
CHECK_DEADLOCK FALSE
INVARIANT TypeOK
INVARIANT TreeShape
INVARIANT ValidMetaIsAcceptable
INVARIANT MetaMatchesMemory
INVARIANT FilesMatchTree
INVARIANT CleanNodesAreCurrent
INVARIANT MergeReadsCompleteFiles
INVARIANT CleanRootIsUnionOfLeaves
PROPERTY AbsSpec
