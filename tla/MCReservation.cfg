SPECIFICATION FairSpec
CONSTANTS
    r1 = r1
    r2 = r2
    sessA = sessA
    sessB = sessB
    Request = {r1, r2}
    NoRequest = NoRequest
    NoPayload = NoPayload
    NoSession = NoSession
    Payload <- RivalPayloads
INVARIANTS
    TypeOK
    HeadLedgerAgreement
    OneRuntimeSession
PROPERTIES
    LostOwnerIsFenced
    ImplementsStream
    EveryResultIsAcknowledged
