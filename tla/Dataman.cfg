SPECIFICATION CacheSpec
CONSTANTS
    Nav = "nav"
    Clients = {"nav", "gcs"}
    Items <- MCItems
    Indices <- MCIndices
    Values = {"v1"}
    Empty = "empty"
    MaxId = 4
    Late = {"nav", "gcs"}
    NavWrites = {"v1"}
    Prompt = TRUE
    Fallible = {"read", "clear"}
    Sizes = {1, 2}
    NavKeys <- MCNavKeys
    OthersOps <- MCOps
INVARIANTS
    CacheTypeOK
    
    CurrentUntilFailure
    LoadingIsCounted

    
