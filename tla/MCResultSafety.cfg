SPECIFICATION ResultSpec
CONSTANTS
    r1 = r1
    r2 = r2
    sess = sess
    Request = {r1, r2}
    NoRequest = NoRequest
    NoPayload = NoPayload
    NoSession = NoSession
    NoCore = NoCore
    MaxAttempt = 2
    Lifecycle = {"revoke", "close", "workspace", "reopen", "privacy"}
    Payload <- AllResults
SYMMETRY RequestSymmetry
CONSTRAINT OneOrManyResults
INVARIANTS
    ResultTypeOK
    NothingLiveAfterShutdown
    NoTextAfterDeletion
    ProcessedIsStored
    RoundShowsLatestResult
PROPERTIES
    RevocationFreezesOutcome
    ImplementsReservation
