\* Two backends behind one relay, a compute benchmark and the two servers in windows of two, two trials, any Popen may fail
CONSTANTS
    Benches <- MCServerBenches
    Tools <- ToolsViserPause
    Sig <- MCSig
    P = 2
    Trials = 2
    Workloads = 1
    GenerateTrace = FALSE
    FailingTools <- MCFailing
    StaleFifos <- MCStale
    Unbound = Unbound
    SpawnMayFail = TRUE
    AttachPid = FALSE
    Pids = {1, 2}
    MkfifoMayFail = FALSE
SPECIFICATION Spec
INVARIANT TypeOK
INVARIANT BatchIsolation
INVARIANT FifosRemovedAtEnd
INVARIANT CwdRestored
INVARIANT NoOrphanOnSuccess
INVARIANT LaunchOrder
PROPERTY Termination
PROPERTY RefinesSchedule
\* runTask returns and the framework process stops: the final state has no successor
CHECK_DEADLOCK FALSE
