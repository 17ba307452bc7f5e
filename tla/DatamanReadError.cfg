SPECIFICATION CacheSpec
CONSTANTS
    Nav = "nav"
    Clients = {"nav"}
    Items <- MCItems
    Indices = {1, 2, 3}
    Values = {"v1"}
    Empty = "empty"
    MaxId = 4
    Late = {}
    NavWrites = {"v1"}
    Prompt = TRUE
    Fallible = {"read"}
    Sizes = {2}
    NavKeys <- MCNavKeys
    OthersOps = {}
INVARIANT
    CachedIsCurrent
