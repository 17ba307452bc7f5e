SPECIFICATION Spec
CONSTANTS
    Links = {"telem1"}
    Types = {"mission", "fence"}
    Plans <- MCPlans
    MaxCount = 2
    Capacity = 2
    Fallible = {"item"}
INVARIANTS
    TypeOK
    
    
    

    
CHECK_DEADLOCK FALSE
