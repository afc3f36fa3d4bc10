\* viseropt beside viseroptregularplru: processViserSim is false for the whole tool string
CONSTANTS
    Benches <- MCBenches
    Tools <- ToolsMasked
    Sig <- MCSig
    P = 2
    Trials = 2
    Workloads = 1
    GenerateTrace = FALSE
    FailingTools <- MCFailing
    StaleFifos <- MCStale
    Unbound = Unbound
    SpawnMayFail = FALSE
    AttachPid = FALSE
    Pids = {1, 2}
    MkfifoMayFail = FALSE
SPECIFICATION Spec
INVARIANT BatchIsolation
\* runTask returns and the framework process stops: the final state has no successor
CHECK_DEADLOCK FALSE
