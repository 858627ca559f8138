CONSTANTS
    MaxPid = 3
    INTR = intr
    Keys = {key}
    MaxRx = 1
    Fds = {2}
    Calls <- CoreCalls
    Readers = {2}
    Redirects <- Redirected
SPECIFICATION Spec
INVARIANTS TypeOK OneHome WakeupNotLost PidAliveExact NeverMisreported FramebufferOwned
PROPERTIES NoOvertaking DeadStaysDead InputInOrder
CHECK_DEADLOCK FALSE
