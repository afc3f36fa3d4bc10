\* A MESI and a ce backend: MESI's handle goes to RunTask.mesiID, not mesiIDsList; ce is launched as a pause config that processPauseSim does not test for
CONSTANTS
    Benches <- MCBenches
    Tools <- ToolsMesiCE
    Sig <- MCSig
    P = 2
    Trials = 2
    Workloads = 1
    GenerateTrace = FALSE
    FailingTools <- MCFailing
    StaleFifos <- MCStale
    Unbound = Unbound
    SpawnMayFail = FALSE
    AttachPid = FALSE
    Pids = {1, 2}
    MkfifoMayFail = FALSE
SPECIFICATION Spec
INVARIANT BatchIsolation
\* runTask returns and the framework process stops: the final state has no successor
CHECK_DEADLOCK FALSE
