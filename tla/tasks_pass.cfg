CONSTANTS
    Sig <- MCSig
    CommandLines <- MCCommandLines
    Pids <- MCPids
    Name <- MCName
    Cmd <- MCCmd
    Cid <- MCCid
    CleanNames <- MCCleanNames
    Val <- MCVal
    MaxFaults = 1

SPECIFICATION Spec

INVARIANT TypeOK
INVARIANT BenchListWellFormed
INVARIANT CompleteOutputsFullyReported

