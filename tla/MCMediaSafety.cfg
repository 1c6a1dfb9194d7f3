SPECIFICATION MediaSpec
CONSTANTS
    h1 = h1
    h2 = h2
    c1 = c1
    NoRow = NoRow
    NoWorker = NoWorker
    NoRequest = NoRequest
    MaxClosing = 0
    MaxEvent = 3
    MaxGeneration = 1
    MaxUploads = 1
    Lifecycle = {"privacy", "bad_source", "workspace"}
    Request <- MCRequests
    Worker <- MCWorkers
    Purger <- MCPurgers
    Row <- ThreeEventRows
    Content <- MCBoth
SYMMETRY MCSymmetry
CONSTRAINT MediaCorners
INVARIANTS
    MediaTypeOK
    VisibleIsVerified
    LatestMediaVisible
    PurgedStaysErased
    PrivacyRequestErases
CHECK_DEADLOCK FALSE
