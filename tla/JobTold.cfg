\* One job, two crashes, one failing statement; and one client, two pipes, three
\* lines, a ring and a channel smaller than that.
SPECIFICATION SideSpec
CONSTANTS
    Jobs = {j1}
    MaxCrashes = 2
    MaxErrors = 1
    Source = {stdout, stderr}
    Client = {c1}
    Lines = 3
    RingBufferSize = 2
    SubscriberBuffer = 1
INVARIANTS RunningRowsAreOurs LivingNotDeclaredFailed EventsTellState StreamFaithful
  
