SPECIFICATION Spec
CONSTANTS
    p0 = p0
    p1 = p1
    p2 = p2
    p3 = p3
    f1 = f1
    f2 = f2
    x1 = x1
    x2 = x2
    x3 = x3
    op = op
    i1 = i1
    i2 = i2
    i3 = i3
    i4 = i4
    i5 = i5
    clear = clear
    alike = alike
    other = other
    Stranger = Stranger
    NoProduct = NoProduct
    Unreadable = Unreadable
    Stored = Stored
    ByProductId <- MCByProductId
    Picture = {i1, i2, i3, i4, i5}
    Image <- MCImage
    Similarity <- MCSimilarity
    MatchThreshold = 62
    MarginThreshold = 6
    MaxCandidates = 2
    DefaultProductIds <- MCDefaultProductIds
    ScriptedStatus = "AMBIGUOUS"
    ScriptedProduct = NoProduct
    InitCatalogue <- MCCatalogue
    InitFiles <- MCFiles
    InitIndexed = {p1}
    Req <- IndexingReq
    CallsOf <- IndexingCalls
    Before <- IndexingBefore
INVARIANTS
    TypeOK
    KnownProductsAreFound
    OnlyEnabledProductsNamed
    IndexingsAreWhole
PROPERTY
    MatchesAreClear
