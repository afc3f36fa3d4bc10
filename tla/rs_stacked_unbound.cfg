\* A result run over complete outputs with MESI as the first simulator
CONSTANTS
    Sig <- MCSig
    CommandLines <- MCMesiFirst
    Pids <- MCPids
    Name <- MCName
    Cmd <- MCCmd
    Cid <- MCCid
    CleanNames <- MCCleanNames
    Val <- MCVal
    MaxFaults = 0

SPECIFICATION Spec



INVARIANT CompleteOutputsGenerateResult
