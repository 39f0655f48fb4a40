SPECIFICATION FairSpec
CONSTANTS
    Publishers = {p1, p2}
    Subscribers = {s1, s2}
    Capacity = 2
    MaxEvents = 2

    
PROPERTIES
    PublishReturns
CHECK_DEADLOCK FALSE
