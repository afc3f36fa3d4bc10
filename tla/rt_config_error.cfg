\* pintool and viseropt16 with --pinThreads 16, which CmdLine.parse accepts, and --cores at its default of 8
CONSTANTS
    Benches <- MCBenches
    Tools <- ToolsViser16
    Sig <- MCSig
    P = 2
    Trials = 2
    Workloads = 1
    GenerateTrace = FALSE
    FailingTools <- MCFailing16
    StaleFifos <- MCStale
    Unbound = Unbound
    SpawnMayFail = FALSE
    AttachPid = FALSE
    Pids = {1, 2}
    MkfifoMayFail = FALSE
SPECIFICATION Spec
INVARIANT ConfigErrorBeforeSpawn
\* runTask returns and the framework process stops: the final state has no successor
CHECK_DEADLOCK FALSE
