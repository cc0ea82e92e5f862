CONSTANTS
    None = None
    w1 = w1
    w2 = w2
    s1 = s1
    s2 = s2
    MaxNonce = 1
    Secrets = {s1}
    Amounts = {1}
    Legacy = {}
    Workers = {w1, w2}
    Redelivery = {FALSE}
    MaxRequests = 2
    e1 = e1
    e2 = e2
    ChainLoops = {e1, e2}
    CallsOf <- MCCallsOf
    NonceRefusalRounds = 2
    FollowRounds = 3
    NodeLag = 1
SPECIFICATION MCSpec
CHECK_DEADLOCK FALSE
SYMMETRY Symmetry
INVARIANTS
    CreditedIsTaken
