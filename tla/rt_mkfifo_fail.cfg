\* Three benchmarks in windows of two, viser backends, and any one mkfifo of __setupFifos may fail
CONSTANTS
    Benches <- MCBenches
    Tools <- ToolsViser
    Sig <- MCSig
    P = 2
    Trials = 2
    Workloads = 1
    GenerateTrace = FALSE
    FailingTools <- MCFailing
    StaleFifos <- MCStale
    Unbound = Unbound
    SpawnMayFail = FALSE
    AttachPid = FALSE
    Pids = {1, 2}
    MkfifoMayFail = TRUE
SPECIFICATION Spec
PROPERTY Termination
\* runTask returns and the framework process stops: the final state has no successor
CHECK_DEADLOCK FALSE
