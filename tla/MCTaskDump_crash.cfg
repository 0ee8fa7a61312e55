\* Every argv of up to three tokens, a target with up to two threads whose
\* stacks have two frames, and every call able to fail.
CONSTANTS
    Argvs <- MCArgvs
    MaxThreads = 2
    NameLens = {0, 4}
    Frames = 2
    Failures = TRUE
SPECIFICATION Spec
PROPERTY CleanExit
CHECK_DEADLOCK FALSE
