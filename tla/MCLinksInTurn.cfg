\* One link after the other, with edits between and during them, crashes and a coarse clock.
SPECIFICATION Spec
CONSTANTS
    l1 = l1
    l2 = l2
    l3 = l3
    i1 = i1
    i2 = i2
    None = None
    Link <- ThreeLinks
    Input <- TwoInputs
    Content = {"v1", "v2"}
    Args = {"A", "B"}
    ArgsOf <- SameArgs
    FirstContent <- FirstVersion
    Hardlinked <- OneInput
    Excluded = {}
    Setting <- LinksInTurn
    TicksPerSecond = 50
    MaxEdits = 2
CHECK_DEADLOCK FALSE
SYMMETRY LinkSymmetry
INVARIANTS UnmarkedStateDescribesOutput PublishingIsMarked
PROPERTIES SuccessMeansCurrentOutput
