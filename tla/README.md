# TLA+ models of the Peacenik experiment framework

The framework under `src/peacenik-exp-framework/src` drives simulator
experiments. `main.py` parses the command line (`parser/cmdline.py`) into
`Options` and runs the tasks in a fixed order (`task/tasks.py`):

clean → sync → build → run → result → copy → email

Any `Constants.raiseError` calls `sys.exit` and ends the program.

The project has two halves:

- **The run task** (`task/runtask.py`, `RunTask.runTask`) is where processes
  run concurrently, meet on named pipes and fail part way. It is modelled by
  `RunTask`, with `BatchSchedule` as its abstract specification.
- **The program around it** is modelled by `Tasks`. It composes:
  - the command-line parsing and checks (`CmdLine`);
  - the clean task, racing the processes it kills (`CleanTask`);
  - the result task over an output directory that earlier runs left
    incomplete (`ResultTask`, with `MergeType` for `Merge.merge`).

## 1. Inventory

### Components

| Component | Source | State it keeps | Operations | Interacts with |
|---|---|---|---|---|
| Batch scheduler | `runTask` lines 88-133 | loop counters `w`, `num`, `bStart`/`bEnd`; the local `backendSimPresent` | trial head (classify simulators), window head (clear the id lists) | launcher, monitor |
| Pipe topology builder | `__setupFifos` 236-258 | named pipes `<bench>.fifo.frontend` and `<bench>.fifo.<tool>` in `PINTOOL_ROOT` | `rm -f` then `mkfifo`; the lockstep `./namedpipe` helper | the processes that open the pipes |
| Process launcher | `runTask` 135-179, `__startPintool` 287-366, `__forkPipes` 369-380, `__start{Mesi,Viser,Pause,RCCSI}Simulator` 414-1834 | `pinIDsList`, `viserIDsList`, `pauseIDsList`, `rccsiIDsList`, and `mesiID` (a single handle) | spawn the frontend, the `pipefork` relay (handle dropped), and one backend per simulator tool | pipes; the monitor reads the lists |
| Server/client driver | `__startServer` 1837-1864, `__startClients` 1907-1940, `__checkClients` 1942-1948, `__stopServer` 1886-1904 | `httpdID` (max pid ever seen, never reset), `httpClientIDsList` (never reset) | start server, ps/grep for its pid, start clients, wait for them, stop server | the frontend attaches to `httpdID` |
| Completion monitor | `__isTerminated` 1950-1977 | none | polls `pinIDsList`, then the backend lists of the families `Options.process*Sim` names | launcher's lists |
| Teardown | `runTask` finally 220-226, `__cleanFifos` 260-275 | cwd | `rm -rf *.fifo.*` (relative to the cwd), `os.chdir(cwd)` | pipes |
| Tool classification | `Constants.is*Config` (constants.py 149-184), `Options.process*Sim` (options.py 175-193) | none | substring tests on one tool name, or on the joined tool string | launcher, monitor |
| Command line | `CmdLine.__init__`/`parse` (cmdline.py 31-315), `Options.setOptions`, `removeBenchDuplicates`, `checkToolDuplicates` (options.py 52-173) | `Options` | argparse, split, dedupe and sort the benchmarks, sanity checks | every task reads `Options` |
| Task sequence | `main` (main.py 10-16), `Tasks.runAllTasks` (tasks.py 14-37) | none | run the named tasks in order | all tasks |
| Clean task | `CleanTask.__usingPsutil` (cleantask.py 68-128) | none in the framework; the leftover processes | one `process_iter` scan, `kill()` on matches | leftover processes of earlier runs |
| Collect, product and result | `collectTask` (collecttask.py 37-144), `productTask`, `Result.generateResult` and its tables (result.py 430-660), `ResultSet`, `Merge` | the result set | read every stats file, filter and inflate, merge per cell, write tables | the output directory the run task wrote |
| Stacked bar graph | `__generateStackedBars` (result.py 460-474), `StackedBarGraph` (stackedbargraph.py), `JGraph._merge` (jgraph.py 97-115) | none kept; a jgraph file | merge per (benchmark, simulator), normalise to the first simulator's normal execution, split each bar into components | the result set, after both tables |
| Sync, build, copy, email | synctask.py, buildtask.py, copytask.py, emailtask.py | files | rsync, make, scp, mail | none read back |

### Hard behaviours

- **Processes run concurrently** with the control thread. A window holds up
  to `P` benchmarks, and each benchmark has a frontend, a relay and backends.
  These processes rendezvous on named pipes, where an open blocks until both
  ends are present.
- **Two classifications that must agree.** The launcher puts a backend's
  handle in a family list chosen by `is*Config(tool)`. The monitor polls that
  list only if `process*Sim(all tools)` holds.
- **Exceptions at any spawn or assert.** They can come part way through a
  benchmark's launch. The `finally` block must still clean up.
- **Stale pipes** can be left by a crashed earlier run.
- **A stale server pid** (`httpdID`) can be read one second after the spawn.
- **The clean task races the processes it kills.** A leftover process can
  exit, and be reaped by init, between two psutil calls on it.
- **`return` in a `finally` block.** `collectTask` returns its result set
  from `finally`, which swallows the `SystemExit` of `raiseError`. A missing
  run directory or stats file therefore does not stop the result task.
- **A local assigned on one branch.** `__plotData` assigns `divValue` only
  when the first simulator is a pause configuration, and reads it on every
  path. Whether `generateResult` ends normally depends on the order of the
  `--tools` list.
- **Incomplete output of earlier runs.** A stats file may be missing, or
  cut short by a backend killed while it wrote. A simulator file cut before
  the bandwidth line makes `__processSimOutput` raise `KeyError`, which the
  same `finally` swallows.

### Properties per component

- **Scheduler:** windows in order, strictly one after another, covering the
  benchmark list. This is the refinement of `BatchSchedule`.
- **Monitor:** no process of a window is alive once a later window spawns
  (`BatchIsolation`). A normal return leaves nothing running
  (`NoOrphanOnSuccess`).
- **Launcher:** frontend < relay < backend (`LaunchOrder`), and the run ends
  (`Termination`).
- **Configuration:** a tool the launcher would reject is caught before any
  process is spawned (`ConfigErrorBeforeSpawn`, violated).
- **Server/client driver:** the frontend attaches to its own server
  (`AttachToOwnServer`), and at most one server of a benchmark runs at a time
  (`SingleServer`).
- **Teardown:** on every exit path the pipes are gone (`FifosRemovedAtEnd`)
  and the directory is restored (`CwdRestored`).
- **Command line:** every later task sees each benchmark once, sorted, with
  the servers last, and a window no wider than the list
  (`BenchListWellFormed`).
- **Clean task:** when the scan ends, no leftover is still running
  (`LeftoversKilled`, violated).
- **Result task:** each reported cell is the mean over every trial
  (`ReportedCellsAreMeansOverAllTrials`), certainly so when the outputs are
  complete (`CompleteOutputsFullyReported`). Over complete outputs
  of the tools it parses, it ends normally with its tables and graph written
  (`CompleteOutputsGenerateResult`, violated).

## 2. Modules

### `RunTask.tla`: the run task and the processes it spawns

**State.** The variables follow the code:

| Variable | Code |
|---|---|
| `pc` | where the control thread is |
| `w`, `num`, `bStart` | the loop counters |
| `bi`, `ti` | the benchmark and tool loop positions |
| `bsp` | `backendSimPresent`, `Unbound` until the first trial assigns it |
| `exc` | the exception leaving `runTask` |
| `cwd` | the working directory |
| `fifo` | each pipe path's inode generation, 0 if absent |
| `procs` | every spawned process, with its role, benchmark, window (`batch`) and pipe bindings |
| `ids` | the family handle lists |
| `mesiID` | `RunTask.mesiID` |
| `httpdID` | `RunTask.httpdID` |
| `clients` | `httpClientIDsList` |

**Control actions.**

| Action | Code |
|---|---|
| `Setup` | output dirs, rerun file and `chdir`, any of which may raise |
| `TrialStart` | trial head: `backendSimPresent` |
| `BatchStart` | window head: lists cleared |
| `StartServer` | for a server benchmark with `attachPid`: `__setupFifos`, then the server's spawn in `__startServer` |
| `ToolStep` | one iteration of the tool loop; after `StartServer` it begins with the ps lookup of `__startServer` (`PsHttpdID`) |
| `StartClients` | `__startClients` (one pair of client drivers) |
| `StopServer` | the `__checkClients` polling loop ends, then `__stopServer` (`StopServerProcs`) |
| `MonitorReturns` | the polling loop returns, and the window, trial and workload loops advance |
| `Finally` | the finally block |

`ToolStep` is built from operators named after the functions it calls:
`SetupFifos`, `StartPintool`, `ForkPipes`, `StartBackend`, and
`Start{Mesi,Viser,RCCSI,Pause}Simulator`. Each of the last four records the
handle where that function does. Any `Popen` in the step may raise
(`SpawnMayFail`). A handle is recorded only if its `Popen` returned. A tool
in `FailingTools` trips its simulator's `assert`. `MC_RunTask` derives
`FailingTools` from `SimulatorConfigs` and the options' core and thread
counts, as `MCFailing`. Any one `mkfifo` may fail
(`MkfifoMayFail`); the code ignores the shell call's status.

**Servers.** A server gets any pid of `Pids` that no running server holds,
so the kernel's pid reuse is covered. It is visible to ps only once it has
started up (`Open`). It exits only when `__stopServer` stops it. Without
`attachPid` the frontend runs the server itself, and it drains its pipes
only after that stop. A frontend given `-pid` fails unless a started server
has that pid, and exits after that server.

**Process actions.** The processes are external programs:

- **`Open`** binds a process to the inode its path names at that moment, or
  it exits if the path is absent.
- **`Exit`** happens once each of its pipes has a connected peer. A reader
  also waits for its writers' end of file.

**Classification.** The tool classification is modelled by `Sig[t]`, the
substrings the `is*Config` tests look for that occur in `t`:

- `IsConfig` and `Fam` model the launch side.
- `ProcessSim` is the monitor side, a substring test on the joined tool
  string.

### `BatchSchedule.tla`: the abstract batch scheduler

The variables are `unit`, `next`, `active`, `window` and `ended`. The
actions:

- **`Launch`** sets the window to `Block(next)`, the block of `P`
  consecutive positions. The block is defined by integer division, not by
  the code's slice bounds.
- **`Finish`** advances the window, then the unit.
- **`Abort`** ends the schedule.

`RunTask` instantiates it with a refinement mapping (`Sched`), and
`RefinesSchedule` is checked as a property.

### `MC_RunTask.tla`

This module gives TLC:

- three benchmarks, so that `P = 2` gives a full window and a short one;
- tool lists from `CmdLine.allowedTools`;
- `Sig` for those names;
- stale pipes: the frontend pipe of the first benchmark, and every backend
  pipe of the second;
- a benchmark list `canneal, httpd, mysqld` for the server runs;
- `FailingTools` as `MCFailing`: the tools that fail their launcher's
  asserts under argparse's defaults, `--cores 8 --pinThreads 8`.

### `SimulatorConfigs.tla`: what each `__start*Simulator` accepts

Each of the four launchers is an if-chain on the exact tool name.
`mesiChain`, `viserChain`, `pauseChain` and `rccsiChain` are the names
they have a branch for. `mesiCores`, `viserCores` and `pauseCores` are the
`options.cores` a branch asserts, and `rccsiThreads` the `options.pinThreads`.
`StartAsserts(f, t, cores, threads)` is whether family `f`'s launcher
gets past its chain for tool `t`. A name with no branch reaches
`assert(False)`.

Compared with `CmdLine.allowedTools`, the chains lack five names that parse
accepts: `viseroptignorefetchwritebits` (the chain has
`viseroptfetchwritebits`), `viseruserfrs`, `rccsiuselastwriteropt`,
`rccsiusebloomfilter` and `restartwaitatreads`. Parse also checks a 16- or
32-core tool against `--pinThreads` only, never against `--cores`.

The command-line text each branch builds is not modelled.

### `MC_RunTaskConfig.tla`

It extends `MC_RunTask` with one command line, and an `ASSUME` that
`CmdLine.parse` accepts it and yields this instance's benchmarks and tools.
`FailingTools` is `MCFailing16`, derived from `SimulatorConfigs` with
`--pinThreads 16` and the default of 8 cores.

### `Constants.tla`: the tool classification

`isPintool` and `Constants.is*Config` are substring tests on a tool name.
TLC cannot test substrings, so the constant `Sig[t]` gives the tested
substrings that occur in `t`, and each test is a set membership. `RunTask`
has its own copy of these tests (`IsConfig`), which are checked against the
same `Sig`.

### `CmdLine.tla`: argparse, `Options.setOptions` and `CmdLine.parse`

A command line is a record of the argparse values, with each comma list
already split at its commas. The definitions are:

- **`argDefaults`** are argparse's defaults. **`argparseAccepts`** is the
  `--workload` choices test: a comma list of sizes is refused before it is
  split.
- **`setOptions`** drops empty tool names, and the simulators are the tools
  other than `pintool`.
- **`removeBenchDuplicates`** makes a set, sorts it in Python's string order
  (`BenchOrder`), then moves httpd and mysqld to the end.
- **`Accepted`** is every sanity check of `parse`, each an `assert` or a
  `raiseError`. It uses the real `allowedTools` list.

### `MergeType.tla`: `Merge.merge`

The statistics are:

- average;
- median, with the even-length case the code computes;
- geometric mean, where a list holding 0 gives 0;
- min;
- max.

A value is `Real(n, d, r)`, the `r`-th root of `n / d`, so that a
geometric mean stays exact. It may instead be one of these outcomes:

- `ZeroDivision`: the `raiseError` of an empty or keyless average;
- `NaN`: numpy's result for an empty array;
- `EmptyMinMax`: the `ValueError` of `min([])` or `max([])`.
Only the average is used by the tables and graphs the code generates
(`MERGE_MED`, `MERGE_MIN` and `MERGE_MAX` are never passed to
`Merge.merge`), so no property is checked on the other statistics. `MeanOf`
is the mean by what it is, a `RECURSIVE` sum over the list divided by its
length; the result task's properties compare table cells with it through
`SameValue`, exact equality of two `Real` values.

### `CleanTask.tla`: the clean task

**State.** The variables are:

- `pst[p]`: "alive", "zombie" or "gone" (reaped);
- `ci` and `phase`: where the scan is in `process_iter` and in the inner
  name loop;
- `killed`: the pids `kill()` was called on.

**Actions.**

- **`Yield`** models `process_iter`, which skips a reaped pid.
- **`Names`** is the inner loop up to the matching name: the `name()` and
  `cmdline()` calls and the `kill()`.
- **`Post`** is the `name()` calls after the match.
- **`Environment`** lets a leftover process exit, or be reaped by init,
  between any two of these steps. It models `ProcExit` and `Reap`.

On a reaped process psutil raises `NoSuchProcess`. The outer `except`
catches it, and the scan stops there (`AbandonScan`). A zombie's
`cmdline()` is empty, so a python3 or java zombie is spared.

### `ResultTask.tla`: collect, product and result

**The output directory.** `fs` maps each run directory and stats file to
one of:

- "ok";
- "absent": anything that makes collection raise, which is a missing file
  or a parser raising on a torn line;
- "short": cut at a line boundary before the key's line. A short Pintool
  file gives an entry without the key. For a PAUSE or MESI file,
  `__processSimOutput`'s bandwidth lookup (`collecttask.py` 137 and 140)
  raises `KeyError`, which ends collection like an absent file.

At most `MaxFaults` paths are faulty.

**The key.** The stats keys are abstracted to one key, whose value in the
file of `<<w, num, b, t>>` is `Val(w, num, b, t)`.

**The steps.**

- **`CollectPath` and `CollectTool`** are the three loops of `collectTask`
  and `__collectResult`. Any raise goes to `CollectFinally`, which returns
  the partial result set.
- **`ProductTask`** keeps the Pintool entries. It inflates the simulator
  entries with the keys any of them has, at value 0.
- **`generateResult`** writes the output table, which links every stats
  file as OK (`okLinks`).
- **`createPintoolStatsTable`** averages each cell with `mergeAverageOf`.
  An empty or keyless cell raises and ends the program.
- **`createSimStatsTable`** ends the program on a cell with no entry, and
  otherwise adds a dummy 0 for a missing key. The dummy goes into copies
  (`limitResultSetWithDict` copies each dictionary), so `resSet` is left
  unchanged.
- **`generateStackedBars`** is `__generateStackedBars` for the one stacked
  key. It models only which exception `StackedBarGraph.generateFile`
  raises. rpc becomes "crash" (an uncaught exception) or "done". A
  `raiseError` inside `_merge` is a "crash" too: `generateFile`'s
  `finally` calls `file.close()` before `file` is bound, and that
  `UnboundLocalError` replaces the `SystemExit`.
  - `jgraphMerge` is `JGraph._merge`: the average per (benchmark,
    simulator) over all workloads and trials.
  - `plotDataRaise` covers three failures: `getSimulatorsTuple()[0]`, the
    unbound `divValue` when the first simulator is not a pause
    configuration, and a merged total that `__computeProps` divides by and
    that is 0 or missing.
  - `plotSummaryRaise` covers `__plotSummary`'s division by the number of
    simulators and its assert of one entry per benchmark.
  - The one key stands for the bandwidth count and its components, which
    the same backend writes to the same file. A component is taken to be at
    most its total, so the assert `fl_comp <= fl_base` only fails when the
    total is 0.

### `Tasks.tla` and `MC_Tasks.tla`: the program

`Tasks` runs the stages in this order:

1. `Parse`;
2. the clean task (`CleanScan`, `CleanEnvironment`, `CleanDone`), if it is
   named;
3. the result task (`ResultStep`, `ResultDone`), if it is named.

`stage` is "end" when the tasks finish, and "exit" after any `raiseError`
or uncaught exception.
`CleanTask` and `ResultTask` are `INSTANCE`d with their variables.

`MC_Tasks` gives TLC seven command lines:

- clean+result, with a trailing comma in the tools and a repeated
  benchmark (mesi16 first);
- result over two trials with pintool and pause16, which reaches "done";
- result with a viser tool the collect task rejects;
- result with pause16 alone;
- clean with printOnly;
- a window wider than the deduplicated list;
- two workload sizes, which argparse refuses.

It also gives six leftover processes, in pid order: a pipefork, a simulator
java, the framework itself, another java, another python3 and a benchmark.
The real `CleanTask.tasks` list is used.

## 3. Runs

| Run | Module | Expect | Checks | Shows |
|---|---|---|---|---|
| `rt_batches` | MC_RunTask | pass | TypeOK, BatchIsolation, FifosRemovedAtEnd, CwdRestored, NoOrphanOnSuccess, LaunchOrder, Termination, RefinesSchedule | The setup: viser and pause backends behind one relay, canneal with the httpd and mysqld servers (clients waited for, servers stopped), any Popen failing, and stale pipes. The results: windows never overlap, teardown is complete on every path, backends start after their relay, the run ends, and runTask implements `BatchSchedule`, liveness included. None of its tools fails an assert under the default `--cores 8`. A simulator assert would leave the same state as a failing backend `Popen`, since `Finally` does not look at which exception it is, so this run covers that path too. |
| `rt_server_attach` | MC_RunTask | pass | SingleServer | With `attachPid`, pid reuse and a frontend-only tool list, a benchmark's server is stopped before a later trial starts it again. |
| `rt_attach_pid` | MC_RunTask | violation | AttachToOwnServer | One second after the spawn, ps may not show the server yet, and `httpdID` keeps the largest pid ever seen. Pin is then given pid 0 or a dead server's pid. |
| `rt_mkfifo_fail` | MC_RunTask | violation | Termination | A failed `mkfifo` does not stop the launch. The frontend blocks, and `__isTerminated` polls forever. |
| `rt_unpolled` | MC_RunTask | violation | BatchIsolation | With pintool, mesi and ce, both backends of window 1 are still open when window 2 starts. `mesiID` is never polled, and `ce` is launched as a pause config that `processPauseSim` does not test for. |
| `rt_config_error` | MC_RunTaskConfig | violation | ConfigErrorBeforeSpawn | `--tools pintool,viseropt16 --pinThreads 16` passes `CmdLine.parse`; an `ASSUME` checks that. With `--cores` at its default of 8, the first benchmark's frontend and relay are started before `__startViserSimulator` asserts `options.cores == 16`. Spec 7 says configuration errors are caught before any process is spawned. |
| `rt_viser_masked` | MC_RunTask | violation | BatchIsolation | `viseroptregularplru` in the tool string turns off polling of viser backends. |
| `rt_zero_trials` | MC_RunTask | violation | CwdRestored | With `--trials 0`, an `UnboundLocalError` in `finally` skips `chdir`. |
| `tasks_pass` | MC_Tasks | pass | TypeOK, BenchListWellFormed, CompleteOutputsFullyReported | main.py end to end over seven command lines, six leftover processes and every output directory with at most one faulty path (164,796 states). The options every later task reads are well formed, and complete outputs are reported as means over all trials (a pause-first run writes its stacked graph; a Pintool-only one raises `IndexError` in it). |
| `rs_partial_trials` | MC_Tasks | violation | ReportedCellsAreMeansOverAllTrials | A missing directory or stats file of trial 2 makes collectTask raise. Its `finally: return resSet` discards the exit, and the tables average trial 1 only. A simulator stats file cut before the bandwidth line has the same effect through its `KeyError`. |
| `rs_stacked_unbound` | MC_Tasks | violation | CompleteOutputsGenerateResult | A result run for pintool and mesi16 over a complete output directory writes both tables. `__plotData` then reads `divValue`, which only a pause-first tool list assigns, and the program ends with `UnboundLocalError` (stackedbargraph.py 164). |
| `ct_scan_abandoned` | MC_Tasks | violation | LeftoversKilled | A pipefork killed by the scan is reaped before the remaining `name()` calls. `NoSuchProcess` ends the whole scan, and a simulator backend later in `process_iter` keeps running. |

Every property of a passing run has a mutant in `PROJECT.json`: a plausible
bug in the mapped code that TLC finds under the run's cfg.

Two questions are answered without a run of their own:

- **`--tools viseropt,pintool`.** `CmdLine.parse` does not check the tool
  order, so this tool list launches the backend before its frontend. This
  is listed as a hazard, because `RunTask` takes the frontend-first order
  as its assumption.
- **The output table.** It marks every stats file "OK" whether or not the
  file exists (`okLinks` is all of `StatsFilesOf`). This is visible in the
  model, and no property depends on it.

### Bounds

**Run task.**

- **Three benchmarks (canneal, httpd, mysqld) and `P = 2`** give both
  window shapes, with one window of servers and clients.
- **Two trials** make pipes be re-created while an older generation may be
  bound.
- **One workload.** Two workloads only repeat the trial loop, and they
  multiply the state space past the five-minute budget.
- **One tool of each launch family** is enough, because the code treats all
  tools of a family alike.
- **Two pids** let a new server get a pid lower than, equal to, or higher
  than `httpdID`.
- **One client pair** stands for the `cores // 2` pairs.

**Program.**

- **Six processes** cover each case of the kill test, plus a repeated name.
- **One or two trials and one or two tools** make trial 2 and the
  simulator table reachable.
- **`MaxFaults = 1`.** One faulty path already reaches every early exit of
  collect and both table builders.

### Fairness

The fairness assumed is `WF` on the control thread and `WF` on process
steps:

- `time.sleep` polling always resumes.
- A process that can make progress on its pipes eventually does.
- `Tasks` assumes no fairness and checks no liveness. Its loops are
  finite `for` loops, so a property that it ends would hold whatever the
  code did.
- The leftover processes' exits (`CleanEnvironment`) get no fairness: a
  leftover may run forever.

`CHECK_DEADLOCK FALSE` is set for `RunTask` because the framework process
stops after `runTask` returns. `Tasks` ends in a stuttering `Ended` step.

## 4. Not modelled

- **Per-batch pipe removal.** Spec 4.5 asks that a batch's pipes be removed
  before the next batch; the code removes them only at the end of the run.
  This is harmless, because `__setupFifos` removes a benchmark's pipes
  before re-creating them.
- **The one-minute to five-hour sleeps** before the clients start. These
  are time, not control.
- **printOnly in the run task:** it prints instead of spawning. The clean
  task's printOnly is modelled.
- **The collision-analysis assert** (`confIndex`).
- **The lockstep per-thread pipes.** The external `namedpipe` helper
  creates them, and its protocol is in neither this repository nor the
  spec. Only the rm patterns are visible: `__setupFifos` removes
  `fifo.*<bench>` before each benchmark, while `__cleanFifos` removes only
  `*.fifo.*`.
- **`CleanTask.__usingPs`:** it is never called.
- **Sync, build, copy and email:** shell commands and mail, with nothing
  read back.
- **The rendering of the stacked graph:** its jgraph text, axes, shades,
  EPS/PNG conversion and `htmlproduct.py`. These are output formatting, and
  nothing reads them back. `__computeSummaryProps` is never called, and
  neither is `bargraph.py`, because `__generateGraphs` is commented out.
- **`statskeys.py`:** it is data, the names of the keys. The model
  abstracts it to one key, which also stands for the stacked key's
  components.
- **`config.py`, `conflicts.py`, `util.py`:** configuration-file reading
  and text tables that no modelled task reads.
- **`sameMachine` sync in the result task:** an rsync.
- **The per-key computations of `__processSimOutput`:** the
  reboot-excluded bandwidth. A `KeyError` there, on a file without the
  bandwidth line, ends collection like a missing file, which `fs = "absent"`
  covers.
- **Command-line text, output paths and the rerun file.** This includes
  the simulator arguments each `__start*Simulator` branch builds,
  `__addJVMArgs` and `__addCommonSimulatorArgs`. They are strings handed
  to a shell, and only which branch is taken and what it asserts is
  control (`SimulatorConfigs`).
