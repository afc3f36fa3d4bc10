\* --trials 0: the trial loop never assigns backendSimPresent
CONSTANTS
    Benches <- MCBenches
    Tools <- ToolsViserPause
    Sig <- MCSig
    P = 2
    Trials = 0
    Workloads = 1
    GenerateTrace = FALSE
    FailingTools <- MCFailing
    StaleFifos <- MCStale
    Unbound = Unbound
    SpawnMayFail = FALSE
    AttachPid = FALSE
    Pids = {1, 2}
    MkfifoMayFail = FALSE
SPECIFICATION Spec
INVARIANT CwdRestored
\* runTask returns and the framework process stops: the final state has no successor
CHECK_DEADLOCK FALSE
