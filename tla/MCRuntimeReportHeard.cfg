SPECIFICATION FairSpec
CONSTANTS
    p1 = p1
    p2 = p2
    camera = camera
    screen = screen
    Publisher = {p1}
    Replay = {camera}
    Consent = {{camera}}
    MaxUploads = 1
    MaxCore = 1
    Horizon = 2
    Failing = {}
    None = None
PROPERTIES
    ReportIsHeard
CHECK_DEADLOCK FALSE
