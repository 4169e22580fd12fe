SPECIFICATION FairChildSpec
CONSTANTS
    Programs = {"once", "all", "wait", "poll", "server"}
    NChildren = 3
INVARIANTS EachHoldsItsOwn NoneUnnoticed
PROPERTIES ChildrenReaped ConnectionsEnd
CHECK_DEADLOCK FALSE
