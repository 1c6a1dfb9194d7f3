SPECIFICATION FairSpec
CONSTANTS
    x1 = x1
    x2 = x2
    c1 = c1
    c2 = c2
    w1 = w1
    v1 = v1
    v2 = v2
    Exchange = {x1, x2}
    Creator = {c1, c2}
    Writer = {w1}
    Revoker = {v1, v2}
    Failing = {v2}
    Limit = 2
    None = None
CONSTRAINT BindingCorners
INVARIANTS
    TypeOK
    OneEngineSession
    OneAttempt
    PurgedMeansGone
PROPERTIES
    AcknowledgedRevocationIsFinal
    PurgeCompletes
