SPECIFICATION FairSpec
CONSTANTS
    NProcs = 2
    NThreads = 2
    MaxSleep = 1
    MaxSpawns = 2
INVARIANTS
    OneRunner
    ExistingCanRun
    DeadHoldsNothing
    StackOwned
    NoInheritedSleep
PROPERTIES
    ImplementsLifecycle
    NoStarvation
CONSTRAINT FewPrograms
