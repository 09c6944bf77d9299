SPECIFICATION FairSpec
CONSTANTS
    Users = {u1, u2}
    Syncers = {s1, s2}
    NumKeys = 2
    KeySyncRetries = 1
    UsedKeys = {1}
    MaxBacklog = 1
    MaxNonce = 1
    MaxUpdates = 3
INVARIANTS HeldKeySynced NoSilentKeyLoss
PROPERTIES ImplementsKeyPool 
CHECK_DEADLOCK FALSE
