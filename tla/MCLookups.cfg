SPECIFICATION LookupsSpec
CONSTANTS
    Chains <- SomeChains
    Addresses = {addr1, addr2}
    MaxItems = 1
    MaxDocs = 2
    chunk_size = 1
    Flags = {TRUE, FALSE}
    victim = victimAddr
    threat = threatAddr
    People = {victimAddr, threatAddr, exchangeAddr}
    Exchanges = {exchangeAddr}
    Hashes = {hash1, hash2}
    MaxTransfers = 3
    MaxDepth = 3
    MaxRows = 3
    Counts <- Thresholds
    NoValue = NoValue
INVARIANTS
    LookupsTypesOK
    UnannotatedTakesAll
    NewestAnnotationIsShown
    ExchangesEndTheTrail
    TracesAreWhole
    VictimsTransfersByVendor
    RecommendationFits
SYMMETRY HashSymmetry
CHECK_DEADLOCK FALSE
