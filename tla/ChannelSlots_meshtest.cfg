CONSTANTS
    Keys = {a, b, c}
    TestKey = test
    Empty = empty
    NoKey = none
    Capacity = 2
    MeshTests = TRUE
    Toggles = FALSE
    RestoreReplies = {}
SPECIFICATION Spec
INVARIANT SendsUnderOwnKey
