\* httpd and mysqld started separately and attached to by the pid ps reports
CONSTANTS
    Benches <- MCServerBenches
    Tools <- ToolsViser
    Sig <- MCSig
    P = 2
    Trials = 2
    Workloads = 1
    GenerateTrace = FALSE
    FailingTools <- MCFailing
    StaleFifos <- MCStale
    Unbound = Unbound
    SpawnMayFail = FALSE
    AttachPid = TRUE
    Pids = {1, 2}
    MkfifoMayFail = FALSE
SPECIFICATION Spec
INVARIANT AttachToOwnServer
\* runTask returns and the framework process stops: the final state has no successor
CHECK_DEADLOCK FALSE
