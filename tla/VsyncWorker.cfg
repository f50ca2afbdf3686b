SPECIFICATION FairSpec
CONSTANT MaxRegs = 2
CHECK_DEADLOCK FALSE
INVARIANTS WorkerRunsClean
PROPERTIES ImplementsService VsyncKeepsComing ShutdownCompletes
