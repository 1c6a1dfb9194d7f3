SPECIFICATION FairResultSpec
CONSTANTS
    r1 = r1
    r2 = r2
    sess = sess
    Request = {r1, r2}
    NoRequest = NoRequest
    NoPayload = NoPayload
    NoSession = NoSession
    NoCore = NoCore
    MaxAttempt = 1
    Lifecycle = {"close", "privacy"}
    Payload <- OneResult
PROPERTIES
    StartedInterviewIsAnswered
CHECK_DEADLOCK FALSE
