CONSTANTS
    Sig <- MCSig
    CommandLines <- MCResultOnly
    Pids <- MCPids
    Name <- MCName
    Cmd <- MCCmd
    Cid <- MCCid
    CleanNames <- MCCleanNames
    Val <- MCVal
    MaxFaults = 1

SPECIFICATION Spec



INVARIANT ReportedCellsAreMeansOverAllTrials
