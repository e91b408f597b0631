\* Every wrapper, two processes, three saves of documents of one or two chunks.
CONSTANTS
    p1 = p1
    p2 = p2
    t1 = t1
    t2 = t2
    t3 = t3
    Proc <- MCProc
    Thread <- MCThread
    ProcOf <- MCProcOf
    Wrappers = {"python", "javascript", "go", "rust"}
    MaxLength = 2
    MaxSaves = 3
SPECIFICATION Spec
CHECK_DEADLOCK FALSE
INVARIANTS
    TypeOK
    WholeUnlessShared
    OrphansExplained
