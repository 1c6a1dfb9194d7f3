SPECIFICATION FairMediaSpec
CONSTANTS
    h1 = h1
    h2 = h2
    c1 = c1
    NoRow = NoRow
    NoWorker = NoWorker
    NoRequest = NoRequest
    MaxClosing = 0
    MaxEvent = 2
    MaxGeneration = 0
    MaxUploads = 2
    Lifecycle = {"privacy"}
    Request <- MCRequest
    Worker <- MCWorker
    Purger <- MCPurgers
    Row <- TwoEventRow
    Content <- MCOther
PROPERTIES
    ImplementsCustody
    AbandonedCopiesArePurged
    PrivacyRequestCompletes
CHECK_DEADLOCK FALSE
