SPECIFICATION FairSpec
CONSTANTS
    Calls <- MCCalls
    Objects <- MCObjects
    Empty = "empty"
    Oversize <- MCOversize
    Blank = "blank"
    Adds <- MCAdds
    Of <- MCOf
INVARIANTS
    OneNode
    IInv
PROPERTIES
    ImplementsStore
    CallSettles
