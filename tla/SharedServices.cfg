SPECIFICATION SharedSpec
CONSTANTS
    Part = {"breaker", "redis"}
    Request = {r1, r2, r3}
    TimeoutThreshold = 1
    WindowDuration = 3
    FailureThreshold = 3
    OpenDuration = 2
    Caller = {c1, c2, c3}
INVARIANT AnswerMatches
PROPERTIES CoolDownHolds OpenIsProbed CallsReturn
