\* httpd and mysqld started separately and attached to by pid, frontend only, over two trials with pids reused
CONSTANTS
    Benches <- MCServerBenches
    Tools <- ToolsPin
    Sig <- MCSig
    P = 2
    Trials = 2
    Workloads = 1
    GenerateTrace = FALSE
    FailingTools <- MCFailing
    StaleFifos <- MCStale
    Unbound = Unbound
    SpawnMayFail = TRUE
    AttachPid = TRUE
    Pids = {1, 2}
    MkfifoMayFail = FALSE
SPECIFICATION Spec
INVARIANT SingleServer
\* runTask returns and the framework process stops: the final state has no successor
CHECK_DEADLOCK FALSE
