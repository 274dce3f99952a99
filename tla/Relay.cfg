CONSTANTS
    Stream = {1, 2}
    W = 1
    Tries = 2
    MaxSessions = 2
    Url = {url}
    Noise <- MCNoise
    Extra <- MCExtra
    MaxMessages = 2
    MaxBody = 3
    MaxReturn = 2
    MaxPending = 2
    Slack = 1
    Answers = {"plain", "parts", "stream", "empty"}
    Server = {s1, s2}
    Times = {1, 4}
    Threshold = 2
    Keep = 1
    MaxRounds = 2
    Given <- MCGiven
SPECIFICATION Spec
INVARIANTS StreamSettled BodiesExact NoSocketLeft RetryKeepsStream SessionsSeparate
CHECK_DEADLOCK FALSE
