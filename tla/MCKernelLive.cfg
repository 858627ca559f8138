CONSTANTS
    MaxPid = 3
    INTR = intr
    Keys = {key}
    MaxRx = 1
    Fds = {2}
    Calls <- LiveCalls
    Readers = {2}
    Redirects <- NoRedirect
SPECIFICATION FairSpec
PROPERTIES EveryoneRuns WaitReturns ReaderServed
CHECK_DEADLOCK FALSE
