SPECIFICATION Spec
CONSTANTS
    p1 = p1
    p2 = p2
    camera = camera
    screen = screen
    Publisher = {p1, p2}
    Replay = {camera, screen}
    Consent = {{camera}, {camera, screen}}
    MaxUploads = 1
    MaxCore = 2
    Horizon = 1
    Failing = {p1, p2, camera, screen}
    None = None
SYMMETRY RunSymmetry
CONSTRAINT OneRunForBoth
INVARIANTS
    PublicationTypeOK
    OnePayloadPerRevision
    NoRecordingLost
    UnavailableIsTrue
    FollowUpPossible
CHECK_DEADLOCK FALSE
