SPECIFICATION Spec
CONSTANTS
    Source = {stdout, stderr}
    Client = {c1}
    Lines = 2
    RingBufferSize = 3
    SubscriberBuffer = 1
CHECK_DEADLOCK FALSE
INVARIANT ClosingIsClean
