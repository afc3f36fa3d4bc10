CONSTANTS
    Sig <- MCSig
    CommandLines <- MCCleanOnly
    Pids <- MCPids
    Name <- MCName
    Cmd <- MCCmd
    Cid <- MCCid
    CleanNames <- MCCleanNames
    Val <- MCVal
    MaxFaults = 1

SPECIFICATION Spec



INVARIANT LeftoversKilled
