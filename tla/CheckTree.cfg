SPECIFICATION FairSpec
CONSTANTS
    Checks <- MCChecks
    TopLevel <- MCTopLevel
    SubChecks <- MCSubChecks
    DependsOn <- MCDependsOn
    HasCheckFn <- MCHasCheckFn
INVARIANTS
    DependenciesHonoured
    SuccessIsTotal
PROPERTIES
    ImplementsReport
    Terminates
CHECK_DEADLOCK FALSE
