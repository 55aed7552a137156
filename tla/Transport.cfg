SPECIFICATION FairSpec
CONSTANTS
    ConnectWait = 1
    LastWait = 1
    CallTimeout = 2
    ReconnectWait = 1
    RetryBudget = 1
    Attempts = 1
    Accepts = {"local"}
    MaxOut = 1
    Unset = Unset
INVARIANTS TypeOK ResultIsOwn RerunOwedToDrop
PROPERTIES CallEnds SshWorkerEnds
