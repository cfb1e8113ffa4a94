SPECIFICATION FairServerSpec
CONSTANTS
    MaxLines = 4
    Unparsed = {}
    MaxSize = 4
    BatchSize = 3
    MaxRetries = 1
    Burst = 1
    Codes = {201, 400, 401, 403, 422, 429, 503}
    MaxRestarts = 1
    Incomplete = {2}
    IllTyped = {3}
    Unstorable = {1}
    MaxBatch = 2
    MaxRequests = 1
    MaxCopies = 1
INVARIANTS
    BlockedByPoison
    OnlyFirstBatchStored
PROPERTIES
    RefinesAgentDelivery
    FirstBatchEventuallyStored
