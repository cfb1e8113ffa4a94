SPECIFICATION ServerSpec
CONSTANTS
    MaxLines = 3
    Unparsed = {}
    MaxSize = 3
    BatchSize = 2
    MaxRetries = 1
    Burst = 1
    Codes = {201, 400, 401, 403, 422, 429, 503}
    MaxRestarts = 1
    Incomplete = {2}
    IllTyped = {}
    Unstorable = {}
    MaxBatch = 2
    MaxRequests = 2
    MaxCopies = 1
PROPERTIES
    AcceptedIsSuccess
