SPECIFICATION ReportsSpec
CONSTANTS
    Users = {u1, u2}
    Labels = {l1, l2}
    Ops = {p1, p2, p3}
    None = None
    Requests = {req1, req2, req3}
    Paths = {req3}
    MaxDepth = 2
    Readers = {reader1}
    Root = rootAddr
    Others = {addr1, addr2, addr3}
    MaxItems = 4
    Cutoff = 2
    Kinds = {"eth", "other", "ethtracer", "tracer", "coinpath", "btc", "ethpath", "btcpath"}
    Hashes = {hash1, hash2}
    Amounts = {1, 2}
    MaxNodes = 2
    Tokens = {"BTC", "ETH"}
    MaxEntries = 2
    SampleSize = 2
INVARIANTS
    TypesOK
    DuplicatesNeedOverlap
    TransactionsFindTheirRequest
    
    DepthsAreHops
    
    TotalsAgree
PROPERTIES
    LabelsStayPut
SYMMETRY ReportsSymmetry
CHECK_DEADLOCK FALSE
