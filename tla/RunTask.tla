------------------------------- MODULE RunTask -------------------------------
(***************************************************************************)
(* The run task of the experiment framework (task/runtask.py,              *)
(* RunTask.runTask).  One control thread walks the workloads and trials,   *)
(* and runs the benchmark list in windows of options.parallelBenches.  For *)
(* every benchmark of a window and every tool it sets up the named pipes,  *)
(* spawns the Pintool frontend, the pipefork relay and the backend         *)
(* simulators; it then polls __isTerminated until the window is done, and  *)
(* in a finally block removes the pipes and restores the working           *)
(* directory.                                                              *)
(*                                                                         *)
(* The spawned processes are external programs.  They are modelled by the  *)
(* way they use the named pipes: opening a path binds a process to the     *)
(* pipe (the inode) the path names at that moment, or fails if the path is *)
(* absent; a pipe carries data once a writer and a reader are bound to it; *)
(* a process exits once every pipe it uses flows, and a reader only after  *)
(* its writer has exited (end of file).                                    *)
(***************************************************************************)
EXTENDS Integers, Sequences, FiniteSets
LOCAL INSTANCE SequencesExt

CONSTANTS
    Benches,        \* RunTask.benchTuple, after removeBenchDuplicates
    Tools,          \* RunTask.toolsTuple, in command-line order
    Sig,            \* Sig[t]: the substrings the Constants.is*Config tests look for that occur in t
    P,              \* options.parallelBenches
    Trials,         \* options.trials
    Workloads,      \* len(RunTask.workloadTuple)
    GenerateTrace,  \* options.generateTrace
    FailingTools,   \* tools whose __start*Simulator asserts fail (SimulatorConfigs.StartAsserts)
    StaleFifos,     \* pipes <<bench, name>> left on disk by an earlier run
    SpawnMayFail,   \* whether subprocess.Popen may raise OSError (fork failing)
    AttachPid,      \* options.attachPid: Pin attaches to a separately started server
    Pids,           \* the process ids a server can be given (the kernel reuses them)
    MkfifoMayFail,  \* whether a mkfifo of __setupFifos may fail (permissions, space)
    Unbound         \* model value: a Python local not yet assigned

VARIABLES
    pc,         \* where the control thread of runTask is
    w, num,     \* the workload and trial loop counters
    bStart,     \* first index (0-based, as in the code) of the current window
    bi, ti,     \* the benchmark (1-based) and the tool being launched
    bsp,        \* the local backendSimPresent, Unbound until a trial assigns it
    exc,        \* the exception leaving runTask, "none" if none
    cwd,        \* the working directory of the framework process
    fifo,       \* fifo[b, n]: generation of pipe "b.fifo.n" on disk, 0 if absent
    nextGen,    \* the generation the next mkfifo creates
    procs,      \* every process spawned, in spawn order
    batch,      \* number of windows started so far
    ids,        \* RunTask.pinIDsList and the backend lists, by family
    mesiID,     \* RunTask.mesiID
    httpdID,    \* RunTask.httpdID, the largest server pid seen so far
    clients     \* RunTask.httpClientIDsList

vars == <<pc, w, num, bStart, bi, ti, bsp, exc, cwd, fifo, nextGen, procs,
          batch, ids, mesiID, httpdID, clients>>

-----------------------------------------------------------------------------
(* Options and the tool classification of option/constants.py              *)

N == Len(Benches)
BenchSet == ToSet(Benches)
ToolSet == ToSet(Tools)

\* options.getSimulatorsTuple(): every tool but "pintool"
SimSet == {t \in ToolSet : t # "pintool"}

FifoNames == {"frontend"} \cup SimSet

\* Benchmark.HTTPD: the server benchmarks driven by client processes
HTTPD == {"httpd", "mysqld"}

FamSet == {"mesi", "viser", "rccsi", "pause"}
IdLists == {"pin"} \cup FamSet

IsPintool(t) == "pintool" \in Sig[t]
IsCEConfig(t) == "ce" \in Sig[t] /\ "mesi" \notin Sig[t]

\* Constants.isMESIConfig, isViserConfig, isRCCSIConfig, isPauseConfig
IsConfig(f, t) ==
    CASE f = "mesi"  -> "mesi" \in Sig[t]
      [] f = "viser" -> "viseroptregularplru" \notin Sig[t] /\ "viser" \in Sig[t]
      [] f = "rccsi" -> "rccsi" \in Sig[t]
      [] f = "pause" -> \/ Sig[t] \cap {"pause", "restart", "viseroptregularplru"} # {}
                        \/ IsCEConfig(t)

\* The simulator family whose __start*Simulator a tool reaches
Fam(t) == IF \E f \in FamSet : IsConfig(f, t)
          THEN CHOOSE f \in FamSet : IsConfig(f, t) ELSE "none"

\* A substring test on options._str_tools, the comma-joined tool list
InToolsStr(s) == \E t \in ToolSet : s \in Sig[t]

\* Mutant: processPauseSim without its "pause" test
ProcessSimNoPause(f) ==
    CASE f = "mesi"  -> InToolsStr("mesi")
      [] f = "viser" -> ~InToolsStr("viseroptregularplru") /\ InToolsStr("viser")
      [] f = "rccsi" -> InToolsStr("rccsi")
      [] f = "pause" -> InToolsStr("restart") \/ InToolsStr("viseroptregularplru")

\* Options.processMESISim, processViserSim, processRCCSISim, processPauseSim
ProcessSim(f) ==
    CASE f = "mesi"  -> InToolsStr("mesi")
      [] f = "viser" -> ~InToolsStr("viseroptregularplru") /\ InToolsStr("viser")
      [] f = "rccsi" -> InToolsStr("rccsi")
      [] f = "pause" -> InToolsStr("pause") \/ InToolsStr("restart")
                        \/ InToolsStr("viseroptregularplru")

\* Mutant: the condition tests mesiPresent alone
BackendSimPresentMesiOnly == \E t \in SimSet : IsConfig("mesi", t)

\* mesiPresent or viserPresent or rccsiPresent or pausePresent
BackendSimPresent == \E t \in SimSet, f \in FamSet : IsConfig(f, t)

\* Mutant: the window slice ends one benchmark early
BEndShort(s) == IF s + P <= N THEN s + P - 1 ELSE N

\* bEnd of the window that starts at bStart
BEnd(s) == IF s + P <= N THEN s + P ELSE N

StaleGen == 1

ASSUME /\ P \in 1..N                     \* CmdLine.parse rejects other values
       /\ \E t \in ToolSet : IsPintool(t) \* __isTerminated asserts it
       /\ \A t \in ToolSet : Cardinality({f \in FamSet : IsConfig(f, t)}) <= 1
       /\ StaleFifos \subseteq BenchSet \X FifoNames
       /\ Pids \subseteq Nat \ {0} /\ Pids # {}

-----------------------------------------------------------------------------
(* The pipes and the spawned processes                                     *)

\* A process record as subprocess.Popen leaves it: not yet running its open
\* pid is a server's process id; attach the pid a frontend was given with
\* -pid (NoAttach if none); srv is "running" for a process that serves the
\* benchmark's requests until __stopServer stops it
NoAttach == -1

Proc(role, b, t, needs) ==
    [role |-> role, bench |-> b, tool |-> t, batch |-> batch,
     needs |-> needs, st |-> "started", bind |-> <<>>,
     pid |-> 0, attach |-> NoAttach, srv |-> "no"]

\* Mutant: pipefork given only its input pipe
RelayNeedsFrontendOnly == {"frontend"}

\* The pipes pipefork is given on its command line (__forkPipes)
RelayNeeds == {"frontend"} \cup SimSet

\* The pipes whose mkfifo fails in one __setupFifos: none, or one
MkfifoFailures == IF MkfifoMayFail THEN {{}} \cup {{n} : n \in FifoNames} ELSE {{}}

\* __setupFifos(b): rm -f b.fifo.*; mkfifo b.fifo.frontend, and one pipe
\* b.fifo.<tool> per simulator when backendSimPresent; the exit status of
\* the shell call is ignored, so the pipes in miss are simply absent
SetupFifos(b, miss) ==
    [k \in DOMAIN fifo |->
        IF k[1] # b THEN fifo[k]
        ELSE IF (k[2] = "frontend" \/ bsp = TRUE) /\ k[2] \notin miss
             THEN nextGen ELSE 0]

\* Mutant: the older __cleanFifos, rm -f of the frontend pipes only
CleanFifosFrontendOnly ==
    [k \in DOMAIN fifo |-> IF cwd = "pintool" /\ k[2] = "frontend" THEN 0 ELSE fifo[k]]

\* __cleanFifos: rm -rf *.fifo.*, relative to the working directory
CleanFifos == [k \in DOMAIN fifo |-> IF cwd = "pintool" THEN 0 ELSE fifo[k]]

Writes(p, n) == p.role = "pin" \/ (p.role = "relay" /\ n # "frontend")

\* The processes bound to the other end of the pipe process i opened as n
Peers(i, n) ==
    {j \in DOMAIN procs \ {i} :
        /\ procs[j].bench = procs[i].bench
        /\ n \in DOMAIN procs[j].bind
        /\ procs[j].bind[n] = procs[i].bind[n]
        /\ Writes(procs[j], n) # Writes(procs[i], n)}

\* Every pipe process i opened has a process at its other end
Connected(i) == \A n \in DOMAIN procs[i].bind : Peers(i, n) # {}

Alive(i) == procs[i].st # "exited"

\* The running servers with process id pid (a server is in the process
\* table, and matched by ps, once it has started up)
ServersWithPid(pid) ==
    {j \in DOMAIN procs : /\ procs[j].role = "server"
                          /\ procs[j].pid = pid
                          /\ procs[j].st = "open"}

\* The process starts up: a frontend given -pid attaches to that process
\* or fails, and every process opens the pipe paths it was given
Open(i) ==
    /\ procs[i].st = "started"
    /\ procs' = [procs EXCEPT ![i] =
          IF /\ \A n \in @.needs : fifo[@.bench, n] # 0
             /\ @.attach # NoAttach => ServersWithPid(@.attach) # {}
          THEN [@ EXCEPT !.st = "open",
                         !.bind = [n \in procs[i].needs |-> fifo[procs[i].bench, n]]]
          ELSE [@ EXCEPT !.st = "exited"]]
    /\ UNCHANGED <<pc, w, num, bStart, bi, ti, bsp, exc, cwd, fifo, nextGen,
                   batch, ids, mesiID, httpdID, clients>>

\* The process finishes: its data got through every pipe, and it has read
\* to the end of every pipe it reads
Exit(i) ==
    /\ procs[i].st = "open"
    /\ procs[i].srv # "running"
    /\ procs[i].attach # NoAttach => ServersWithPid(procs[i].attach) = {}
    /\ \A n \in DOMAIN procs[i].bind :
          /\ \E j \in Peers(i, n) : Connected(j)
          /\ ~Writes(procs[i], n) => \A j \in Peers(i, n) : ~Alive(j)
    /\ procs' = [procs EXCEPT ![i].st = "exited"]
    /\ UNCHANGED <<pc, w, num, bStart, bi, ti, bsp, exc, cwd, fifo, nextGen,
                   batch, ids, mesiID, httpdID, clients>>

-----------------------------------------------------------------------------
(* The control thread of RunTask.runTask                                   *)

Init ==
    /\ pc = "start"
    /\ w = 1 /\ num = 1 /\ bStart = 0 /\ bi = 0 /\ ti = 0
    /\ bsp = Unbound
    /\ exc = "none"
    /\ cwd = "start"
    /\ fifo = [k \in BenchSet \X FifoNames |-> IF k \in StaleFifos THEN StaleGen ELSE 0]
    /\ nextGen = StaleGen + 1
    /\ procs = <<>>
    /\ batch = 0
    /\ ids = [l \in IdLists |-> {}]
    /\ mesiID = 0
    /\ httpdID = 0
    /\ clients = {}

\* Output directories and rerun file, then chdir(PINTOOL_ROOT); any of the
\* first three may raise (os.makedirs, open)
Setup ==
    /\ pc = "start"
    /\ \/ /\ cwd' = "pintool"
          /\ pc' = IF Workloads >= 1 /\ Trials >= 1 THEN "trial" ELSE "finally"
          /\ UNCHANGED exc
       \/ /\ exc' = "oserror"
          /\ pc' = "finally"
          /\ UNCHANGED cwd
    /\ UNCHANGED <<w, num, bStart, bi, ti, bsp, fifo, nextGen, procs, batch,
                   ids, mesiID, httpdID, clients>>

\* Head of the trial loop: backendSimPresent is assigned
TrialStart ==
    /\ pc = "trial"
    /\ bsp' = BackendSimPresent
    /\ bStart' = 0
    /\ pc' = "batch"
    /\ UNCHANGED <<w, num, bi, ti, exc, cwd, fifo, nextGen, procs, batch, ids,
                   mesiID, httpdID, clients>>

\* Head of the window loop: the process-id lists are cleared
BatchStart ==
    /\ pc = "batch"
    /\ ids' = [l \in IdLists |-> {}]
    /\ batch' = batch + 1
    /\ bi' = bStart + 1
    /\ ti' = 1
    /\ pc' = "tool"
    /\ UNCHANGED <<w, num, bStart, bsp, exc, cwd, fifo, nextGen, procs, mesiID,
                   httpdID, clients>>

\* Move on in the tool loop, then the benchmark loop of the window
NextBench ==
    IF bi < BEnd(bStart) THEN bi' = bi + 1 /\ ti' = 1 /\ pc' = "tool"
    ELSE pc' = "monitor" /\ UNCHANGED <<bi, ti>>

\* After the last tool of a server benchmark its clients are driven
NextTool ==
    IF ti < Len(Tools) THEN ti' = ti + 1 /\ pc' = "tool" /\ UNCHANGED bi
    ELSE IF Benches[bi] \in HTTPD THEN pc' = "clients" /\ UNCHANGED <<bi, ti>>
    ELSE NextBench

\* The number of Popen calls of a step that succeed before one raises
SpawnOutcomes(n) == IF SpawnMayFail THEN 0..n ELSE {n}

\* Mutant: the handle is recorded even when its Popen raised
SpawnedAlways(idx, k) == TRUE

\* The handle of the idx-th process is recorded only if its Popen returned
Spawned(idx, k) == idx <= Len(procs) + k

\* __startPintool: the frontend, writing b.fifo.frontend when backendSimPresent,
\* given -pid a when it attaches to a server; without attachPid it runs a
\* server benchmark itself (-- HTTPD_DEBUG_START); its handle is appended
\* to pinIDsList
StartPintool(b, t, a) ==
    [Proc("pin", b, t, IF bsp = TRUE THEN {"frontend"} ELSE {}) EXCEPT
        !.attach = a,
        !.srv = IF b \in HTTPD /\ ~AttachPid THEN "running" ELSE "no"]

\* __forkPipes: pipefork b.fifo.frontend b.fifo.<sim>...; the handle is dropped
ForkPipes(b, t) == Proc("relay", b, t, RelayNeeds)

\* The backend a __start*Simulator launches reads --tosim-fifo b.fifo.t; its
\* if-chain over the tool names ends in assert(False), and branches assert
\* the core count, so the start of a tool of FailingTools raises
StartBackend(b, t) == Proc("backend", b, t, {t})

\* Where each __start*Simulator keeps the handle of the backend at idx
StartMesiSimulator(idx) == [ids |-> ids, mesiID |-> idx]

StartViserSimulator(idx) ==
    [ids |-> [ids EXCEPT !["viser"] = @ \cup {idx}], mesiID |-> mesiID]

StartRCCSISimulator(idx) ==
    [ids |-> [ids EXCEPT !["rccsi"] = @ \cup {idx}], mesiID |-> mesiID]

StartPauseSimulator(idx) ==
    [ids |-> [ids EXCEPT !["pause"] = @ \cup {idx}], mesiID |-> mesiID]

\* The is*Config if-chain of the tool loop: the start of the tool's family
StartSimulator(f, idx) ==
    CASE f = "mesi"  -> StartMesiSimulator(idx)
      [] f = "viser" -> StartViserSimulator(idx)
      [] f = "rccsi" -> StartRCCSISimulator(idx)
      [] f = "pause" -> StartPauseSimulator(idx)

\* The frontend of a server benchmark attaches to a separately started server
NeedsServer(b, t) == IsPintool(t) /\ b \in HTTPD /\ AttachPid

\* The pids no running server holds
FreePids ==
    {p \in Pids : \A j \in DOMAIN procs :
                    procs[j].role = "server" /\ procs[j].pid = p => ~Alive(j)}

\* ps ax | grep b, keeping the lines that name the server's root path: the
\* pids of b's servers that are up; httpdID keeps the largest pid seen
PsHttpdID(b) ==
    Max({httpdID} \cup {procs[j].pid : j \in {j \in DOMAIN procs :
                          /\ procs[j].role = "server"
                          /\ procs[j].bench = b
                          /\ procs[j].st = "open"}})

\* The Pintool branch of a server benchmark with attachPid, up to the spawn
\* in __startServer: __setupFifos, then the server's start command, whose
\* process gets any free pid; __startServer then sleeps a second
StartServer ==
    /\ pc = "tool"
    /\ NeedsServer(Benches[bi], Tools[ti])
    /\ IF ~GenerateTrace
       THEN /\ \E miss \in MkfifoFailures : fifo' = SetupFifos(Benches[bi], miss)
            /\ nextGen' = nextGen + 1
       ELSE UNCHANGED <<fifo, nextGen>>
    /\ \E pid \in FreePids, k \in SpawnOutcomes(1) :
          IF k = 1
          THEN /\ procs' = Append(procs,
                    [Proc("server", Benches[bi], Tools[ti], {}) EXCEPT
                        !.pid = pid, !.srv = "running"])
               /\ pc' = "attach"
               /\ UNCHANGED exc
          ELSE exc' = "oserror" /\ pc' = "finally" /\ UNCHANGED procs
    /\ UNCHANGED <<w, num, bStart, bi, ti, bsp, cwd, batch, ids, mesiID,
                   httpdID, clients>>

\* One iteration of "for tool in RunTask.toolsTuple" for benchmark b: the
\* Pintool branch (__setupFifos, or the ps of __startServer, then
\* __startPintool, __forkPipes), then the __start*Simulator of the tool's
\* family; any Popen may raise, and the handles are recorded as each returns
ToolStep ==
    /\ \/ pc = "tool" /\ ~NeedsServer(Benches[bi], Tools[ti])
       \/ pc = "attach"
    /\ LET b == Benches[bi]
           t == Tools[ti]
           f == Fam(t)
           attach == IF pc = "attach" THEN PsHttpdID(b) ELSE NoAttach
           pinPart == IF IsPintool(t)
                      THEN <<StartPintool(b, t, attach)>>
                           \o (IF bsp = TRUE /\ ~GenerateTrace
                               THEN <<ForkPipes(b, t)>> ELSE <<>>)
                      ELSE <<>>
           fails == ~GenerateTrace /\ f # "none" /\ t \in FailingTools
           simPart == IF ~GenerateTrace /\ f # "none" /\ ~fails
                      THEN <<StartBackend(b, t)>> ELSE <<>>
           spawns == pinPart \o simPart
           pinIdx == Len(procs) + 1
           simIdx == Len(procs) + Len(pinPart) + 1
       IN \E k \in SpawnOutcomes(Len(spawns)) :
          LET reg == IF simPart # <<>> /\ Spawned(simIdx, k)
                     THEN StartSimulator(f, simIdx)
                     ELSE [ids |-> ids, mesiID |-> mesiID]
          IN
          /\ procs' = procs \o SubSeq(spawns, 1, k)
          /\ IF IsPintool(t) /\ ~GenerateTrace /\ pc = "tool"
             THEN /\ \E miss \in MkfifoFailures : fifo' = SetupFifos(b, miss)
                  /\ nextGen' = nextGen + 1
             ELSE UNCHANGED <<fifo, nextGen>>
          /\ httpdID' = IF pc = "attach" THEN attach ELSE httpdID
          /\ ids' = [reg.ids EXCEPT !["pin"] =
                       @ \cup (IF IsPintool(t) /\ Spawned(pinIdx, k) THEN {pinIdx} ELSE {})]
          /\ mesiID' = reg.mesiID
          /\ IF k < Len(spawns)
             THEN exc' = "oserror" /\ pc' = "finally" /\ UNCHANGED <<bi, ti>>
             ELSE IF fails
             THEN exc' = "assert" /\ pc' = "finally" /\ UNCHANGED <<bi, ti>>
             ELSE UNCHANGED exc /\ NextTool
    /\ UNCHANGED <<w, num, bStart, bsp, cwd, batch, clients>>

\* __startClients: options.cores // 2 pairs of client drivers, each handle
\* appended to httpClientIDsList, which is never cleared; one pair is
\* modelled
StartClients ==
    /\ pc = "clients"
    /\ LET c == Proc("client", Benches[bi], Tools[ti], {})
       IN \E k \in SpawnOutcomes(2) :
          /\ procs' = procs \o SubSeq(<<c, c>>, 1, k)
          /\ clients' = clients \cup {Len(procs) + x : x \in 1..k}
          /\ IF k < 2
             THEN exc' = "oserror" /\ pc' = "finally"
             ELSE pc' = "clientwait" /\ UNCHANGED exc
    /\ UNCHANGED <<w, num, bStart, bi, ti, bsp, cwd, fifo, nextGen, batch, ids,
                   mesiID, httpdID>>

\* __checkClients: every handle in httpClientIDsList has terminated
CheckClients == \A i \in clients : ~Alive(i)

\* Mutant: the server is stopped by killing httpdID
StopServerProcsByPid(b) ==
    [j \in DOMAIN procs |->
        IF procs[j].bench = b /\ procs[j].srv = "running" /\ procs[j].pid = httpdID
        THEN [procs[j] EXCEPT !.srv = "stopped", !.st = "exited"]
        ELSE procs[j]]

\* __stopServer: the stop command of b (HTTPD_STOP, or HTTPD_DEBUG_STOP for
\* the server running under Pin) stops b's server; the call waits for it.
\* A separately started server exits; a frontend running the server goes on
\* to drain its pipes
StopServerProcs(b) ==
    [j \in DOMAIN procs |->
        IF procs[j].bench = b /\ procs[j].srv = "running"
        THEN [procs[j] EXCEPT !.srv = "stopped",
                              !.st = IF procs[j].role = "server" THEN "exited" ELSE @]
        ELSE procs[j]]

\* The loop "while not __checkClients(): sleep" ends, then __stopServer
StopServer ==
    /\ pc = "clientwait"
    /\ CheckClients
    /\ \E k \in SpawnOutcomes(1) :
          IF k = 1
          THEN procs' = StopServerProcs(Benches[bi]) /\ UNCHANGED exc /\ NextBench
          ELSE exc' = "oserror" /\ pc' = "finally" /\ UNCHANGED <<procs, bi, ti>>
    /\ UNCHANGED <<w, num, bStart, bsp, cwd, fifo, nextGen, batch, ids, mesiID,
                   httpdID, clients>>

\* Mutant: only the frontends are polled
IsTerminatedPinsOnly == \A i \in ids["pin"] : ~Alive(i)

\* RunTask.__isTerminated: the backend lists are checked inside the loop
\* over pinIDsList, and only for the families the tool string names
IsTerminated ==
    \A i \in ids["pin"] :
        /\ ~Alive(i)
        /\ \A f \in FamSet : ProcessSim(f) => \A j \in ids[f] : ~Alive(j)

\* The polling loop returns; the window, trial and workload loops advance
MonitorReturns ==
    /\ pc = "monitor"
    /\ IsTerminated
    /\ IF bStart + P < N
       THEN bStart' = bStart + P /\ pc' = "batch" /\ UNCHANGED <<w, num>>
       ELSE IF num < Trials
       THEN num' = num + 1 /\ pc' = "trial" /\ UNCHANGED <<w, bStart>>
       ELSE IF w < Workloads
       THEN w' = w + 1 /\ num' = 1 /\ pc' = "trial" /\ UNCHANGED bStart
       ELSE pc' = "finally" /\ UNCHANGED <<w, num, bStart>>
    /\ UNCHANGED <<bi, ti, bsp, exc, cwd, fifo, nextGen, procs, batch, ids,
                   mesiID, httpdID, clients>>

\* Mutant: the finally block without os.chdir(cwd)
FinallyNoChdir ==
    /\ pc = "finally"
    /\ pc' = "done"
    /\ IF ~GenerateTrace /\ bsp = Unbound
       THEN exc' = "unbound" /\ UNCHANGED fifo
       ELSE /\ fifo' = IF GenerateTrace THEN fifo ELSE CleanFifos
            /\ UNCHANGED exc
    /\ UNCHANGED <<w, num, bStart, bi, ti, bsp, cwd, nextGen, procs, batch, ids,
                   mesiID, httpdID, clients>>

\* The finally block: __cleanFifos(options, backendSimPresent) reads the
\* local before os.chdir(cwd); an unbound local raises UnboundLocalError
Finally ==
    /\ pc = "finally"
    /\ pc' = "done"
    /\ IF ~GenerateTrace /\ bsp = Unbound
       THEN exc' = "unbound" /\ UNCHANGED <<cwd, fifo>>
       ELSE /\ fifo' = IF GenerateTrace THEN fifo ELSE CleanFifos
            /\ cwd' = "start"
            /\ UNCHANGED exc
    /\ UNCHANGED <<w, num, bStart, bi, ti, bsp, nextGen, procs, batch, ids,
                   mesiID, httpdID, clients>>

Control == \/ Setup \/ TrialStart \/ BatchStart \/ StartServer \/ ToolStep
           \/ StartClients \/ StopServer \/ MonitorReturns \/ Finally

ProcStep == \E i \in DOMAIN procs : Open(i) \/ Exit(i)

Next == Control \/ ProcStep

\* The control thread is never descheduled for good, and a process that can
\* make progress does (the workload decides when processes exit)
Spec == Init /\ [][Next]_vars /\ WF_vars(Control) /\ WF_vars(ProcStep)

-----------------------------------------------------------------------------
(* Properties                                                              *)

ProcRec ==
    [role : {"pin", "relay", "backend", "server", "client"}, bench : BenchSet,
     tool : ToolSet, batch : Nat, needs : SUBSET FifoNames,
     st : {"started", "open", "exited"},
     bind : UNION {[D -> 1..nextGen] : D \in SUBSET FifoNames},
     pid : {0} \cup Pids, attach : {NoAttach, 0} \cup Pids,
     srv : {"no", "running", "stopped"}]

TypeOK ==
    /\ pc \in {"start", "trial", "batch", "tool", "attach", "clients",
              "clientwait", "monitor", "finally", "done"}
    /\ bsp \in BOOLEAN \cup {Unbound}
    /\ exc \in {"none", "oserror", "assert", "unbound"}
    /\ cwd \in {"start", "pintool"}
    /\ fifo \in [BenchSet \X FifoNames -> 0..nextGen]
    /\ procs \in Seq(ProcRec)
    /\ ids \in [IdLists -> SUBSET DOMAIN procs]
    /\ mesiID \in 0..Len(procs)
    /\ httpdID \in {0} \cup Pids
    /\ clients \subseteq DOMAIN procs

\* Batch isolation (spec 4.3): no process of a window is still running once
\* a process of a later window has been spawned; it rests on __isTerminated
\* covering every process the window spawned.
BatchIsolation ==
    \A i, j \in DOMAIN procs :
        procs[i].batch < procs[j].batch => ~Alive(i)

\* Pipe lifecycle (spec 4.5): when runTask has left its finally block, no
\* pipe this run created is left on disk, whatever the exit path.
FifosRemovedAtEnd ==
    pc = "done" => \A k \in DOMAIN fifo : fifo[k] \in {0, StaleGen}

\* The finally block restores the working directory on every exit path.
CwdRestored ==
    pc = "done" => cwd = "start"

\* Launch order (spec 4.2, 8): every backend of a benchmark is spawned after
\* the relay of that benchmark in its window, which follows the frontend.
LaunchOrder ==
    \A j \in DOMAIN procs :
        procs[j].role = "backend" =>
            \E i \in 1..(j - 1) : /\ procs[i].role = "relay"
                                  /\ procs[i].bench = procs[j].bench
                                  /\ procs[i].batch = procs[j].batch

\* Configuration errors (spec 7): an unknown tool, or one its simulator
\* cannot be configured for, is detected before any process is spawned,
\* so the assert of a __start*Simulator, which raises for exactly these,
\* is never reached after a frontend or relay was started.
ConfigErrorBeforeSpawn == exc = "assert" => procs = <<>>

\* A run that returns normally leaves no process it spawned running: the
\* output the finally block syncs, and the result task reads next, is
\* complete.
NoOrphanOnSuccess ==
    pc = "done" /\ exc = "none" => \A i \in DOMAIN procs : ~Alive(i)

\* One server per benchmark at a time: __stopServer has stopped the server
\* of a benchmark before a later trial or window starts the next one (a
\* second server would find its port taken).
SingleServer ==
    \A i, j \in DOMAIN procs :
        /\ procs[i].role = "server" /\ procs[j].role = "server"
        /\ procs[i].bench = procs[j].bench
        /\ Alive(i) /\ Alive(j)
        => i = j

\* Pin attaches to the server started for it (spec 4.2: the launcher starts
\* a server helper process before the frontend attaches to it by process
\* id): the pid a frontend is given is that of the server __startServer
\* spawned for its benchmark in its window.
AttachToOwnServer ==
    \A i \in DOMAIN procs :
        procs[i].attach # NoAttach =>
            \E j \in 1..(i - 1) : /\ procs[j].role = "server"
                                  /\ procs[j].bench = procs[i].bench
                                  /\ procs[j].batch = procs[i].batch
                                  /\ procs[j].pid = procs[i].attach

\* The control thread is inside a window: launching, driving clients or
\* monitoring
InWindow == pc \in {"tool", "attach", "clients", "clientwait", "monitor"}

\* The run task implements the batch scheduler of BatchSchedule: windows of
\* the plan in order, each launched after the previous one finished.
Sched == INSTANCE BatchSchedule WITH
            N <- N, P <- P, Trials <- Trials, Workloads <- Workloads,
            unit <- <<w, num>>,
            next <- IF pc = "trial" THEN 0 ELSE bStart,
            active <- InWindow,
            window <- IF InWindow THEN (bStart + 1)..BEnd(bStart) ELSE {},
            ended <- pc \in {"finally", "done"}

RefinesSchedule == Sched!ASpec

\* The run task eventually leaves its finally block: no window waits forever
\* on a process blocked on a pipe.
Termination == <>(pc = "done")

=============================================================================
