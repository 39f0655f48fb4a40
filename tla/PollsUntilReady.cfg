SPECIFICATION FairSpec
CONSTANTS
    Objects = {o1, o2}
    MaxChanges = 1
    MaxPollers = 2
PROPERTY PollsUntilReady
CHECK_DEADLOCK FALSE
