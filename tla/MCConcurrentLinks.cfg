\* Links with different arguments at the same time, one of them not using the fast path.
SPECIFICATION FairSpec
CONSTANTS
    l1 = l1
    l2 = l2
    l3 = l3
    i1 = i1
    i2 = i2
    None = None
    Link <- TwoLinks
    Input <- OneInput
    Content = {"v1", "v2"}
    Args = {"A", "B"}
    ArgsOf <- OtherArgs
    FirstContent <- FirstVersion
    Hardlinked = {}
    Excluded = {l2}
    Setting <- ConcurrentLinks
    TicksPerSecond = 50
    MaxEdits = 1
CHECK_DEADLOCK FALSE
PROPERTIES StartedLinksReport
