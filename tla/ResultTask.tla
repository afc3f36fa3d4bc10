----------------------------- MODULE ResultTask -----------------------------
(***************************************************************************)
(* The result task (task/resulttask.py): CollectTask.collectTask reads the *)
(* stats file of every (workload, trial, benchmark, tool) of the run into  *)
(* a result set, ProductTask.productTask keeps the Pintool and simulator   *)
(* entries, and Result.generateResult writes the tables, each cell the     *)
(* Merge.merge average of one stats key over the trials.                   *)
(*                                                                         *)
(* The output directory is whatever earlier runs left: a run directory or  *)
(* a stats file may be "absent" (the run task raised, or an unpolled      *)
(* backend had not written it yet), and a stats file may be "short", cut  *)
(* at a line boundary by a backend killed while writing, so that the key's *)
(* line is not there.  A file cut inside a line makes its parser raise     *)
(* (float() in Pintool.__getValue, ast.literal_eval in BackendSimulator),  *)
(* which ends the collect loop as an absent file does, so it is not told  *)
(* apart.  At most MaxFaults paths are faulty.  The stats keys are        *)
(* abstracted to one key, whose value in the stats file of <<w, num, b, t>> *)
(* is Val(w, num, b, t).                                                   *)
(***************************************************************************)
EXTENDS Integers, Sequences, FiniteSets, TLC, Constants, MergeType
LOCAL INSTANCE FiniteSetsExt
LOCAL INSTANCE SequencesExt

CONSTANTS
    Val(_, _, _, _),  \* the key's value in a stats file
    MaxFaults         \* how many paths of the output may be faulty

VARIABLES
    opt,      \* the parsed options
    fs,       \* fs[path]: "ok", "absent" or "short"
    rpc,      \* "collect", "product", "generate", "pintable", "simtable", "stacked",
              \* "done", "exit" (raiseError) or "crash" (an uncaught exception)
    ui,       \* the collect loop's position in Units
    ti,       \* its tool position; 0 before the os.path.exists check
    resSet,   \* the result set, a sequence of result dictionaries
    table,    \* the table cells written so far: <<b, w, t>> -> merged value
    okLinks   \* the stats files the output table links to as "OK"

rvars == <<fs, rpc, ui, ti, resSet, table, okLinks>>

Tools == opt.tools
Benches == opt.bench
Workloads == opt.workload
Trials == opt.trials

\* Mutant: the trial loop as range(1, options.trials)
UnitsOfOffByOne(o) ==
    LET B == Len(o.bench)
        T == IF o.trials > 1 THEN o.trials - 1 ELSE 0
    IN  [i \in 1..(Len(o.workload) * T * B) |->
            LET k == i - 1 IN
            <<o.workload[k \div (T * B) + 1], ((k \div B) % T) + 1, o.bench[(k % B) + 1]>>]

\* The (workload, trial, benchmark) triples of options o in the order of
\* the three nested loops of collectTask (RunTask.getPathPortion's order)
UnitsOf(o) ==
    LET B == Len(o.bench)
        T == IF o.trials > 0 THEN o.trials ELSE 0
    IN  [i \in 1..(Len(o.workload) * T * B) |->
            LET k == i - 1 IN
            <<o.workload[k \div (T * B) + 1], ((k \div B) % T) + 1, o.bench[(k % B) + 1]>>]

Units == UnitsOf(opt)

\* The run directories of options o
DirsOf(o) == {UnitsOf(o)[i] : i \in DOMAIN UnitsOf(o)}

\* The stats files of options o, <<w, num, b, t>> for the file t-stats.*
\* in the run directory of (w, num, b)
StatsFilesOf(o) == {<<u[1], u[2], u[3], t>> : u \in DirsOf(o), t \in ToSet(o.tools)}

\* Every output the run may have left, with at most MaxFaults faulty paths
OutputsOf(o) ==
    LET paths == DirsOf(o) \cup StatsFilesOf(o)
        faults(p) == IF p \in DirsOf(o) THEN {"absent"} ELSE {"absent", "short"}
    IN  UNION {{[p \in paths |-> IF p \in S THEN g[p] ELSE "ok"] :
                  g \in [S -> UNION {faults(p) : p \in S}]} :
               S \in UNION {kSubset(k, paths) : k \in 0..MaxFaults}}

\* The simulator type the if-chain of __collectResult picks
SimType(t) ==
    CASE isMESIConfig(t)  -> "MESI"
      [] isViserConfig(t) -> "VISER"
      [] isRCCSIConfig(t) -> "RCCSI"
      [] isPauseConfig(t) -> "PAUSE"

\* __collectResult for one tool: TRUE when it appends a dictionary, FALSE
\* when raiseError (or the parser) raises.  __processPintoolOutput and
\* __processSimOutput exit on a missing file and the parsers on a torn one;
\* __processSimOutput then reads the bandwidth count for PAUSE and MESI,
\* whose KeyError on a short file is not caught, and exits for any other
\* type.  A short Pintool file gives a dictionary without the key.
collectResult(f, t) ==
    /\ fs[f] # "absent"
    /\ \/ isPintool(t)
       \/ /\ isSimulatorConfig(t) /\ SimType(t) \in {"PAUSE", "MESI"}
          /\ fs[f] = "ok"

\* Pintool.parseStats and BackendSimulator.parseStats: dic.update with
\* every line of the file, so the key is in the dictionary only if its
\* line was written
parseStats(f) == fs[f] = "ok"

\* The dictionary __collectResult appends: bench, trial, workload and tool,
\* and the key (has) with its value when the parser found it
Entry(f) == [workload |-> f[1], trial |-> f[2], bench |-> f[3], tool |-> f[4],
             has |-> parseStats(f), val |-> Val(f[1], f[2], f[3], f[4])]

RInit ==
    /\ fs \in OutputsOf(opt)
    /\ rpc = "collect"
    /\ ui = 1
    /\ ti = 0
    /\ resSet = <<>>
    /\ table = <<>>
    /\ okLinks = {}

\* resultTask starts on options o: the state RInit describes, entered
\* from another task
RStart(o) ==
    /\ fs' \in OutputsOf(o)
    /\ rpc' = "collect" /\ ui' = 1 /\ ti' = 0
    /\ resSet' = <<>> /\ table' = <<>> /\ okLinks' = {}

\* The finally block of collectTask: chdir back and "return resSet", which
\* discards the exception on its way out
CollectFinally ==
    /\ rpc' = "product"
    /\ UNCHANGED <<fs, ui, ti, resSet, table, okLinks>>

\* Mutant: the tool position runs one past the tool list
CollectNextOffByOne ==
    IF ti <= Len(Tools) THEN ti' = ti + 1 /\ ui' = ui
    ELSE ti' = 0 /\ ui' = ui + 1

\* The next tool, or the first tool of the next (w, num, b)
CollectNext ==
    IF ti < Len(Tools) THEN ti' = ti + 1 /\ ui' = ui
    ELSE ti' = 0 /\ ui' = ui + 1

\* The os.path.exists check on the run directory of (w, num, b)
CollectPath ==
    /\ rpc = "collect" /\ ui \in DOMAIN Units /\ ti = 0
    /\ IF fs[Units[ui]] = "absent"
       THEN CollectFinally
       ELSE CollectNext /\ UNCHANGED <<fs, rpc, resSet, table, okLinks>>

\* One iteration of "for tool in options.getToolsTuple()"
CollectTool ==
    /\ rpc = "collect" /\ ui \in DOMAIN Units /\ ti \in 1..Len(Tools)
    /\ LET f == <<Units[ui][1], Units[ui][2], Units[ui][3], Tools[ti]>>
       IN  IF collectResult(f, Tools[ti])
           THEN /\ resSet' = Append(resSet, Entry(f))
                /\ CollectNext
                /\ UNCHANGED <<fs, rpc, table, okLinks>>
           ELSE CollectFinally

\* The loops are over
CollectEnd ==
    /\ rpc = "collect" /\ ui = Len(Units) + 1
    /\ CollectFinally

\* ResultSet.limitResultSetWithDict
limitResultSetWithDict(rs, b, w, t) ==
    SelectSeq(rs, LAMBDA d : d.bench = b /\ d.workload = w /\ d.tool = t)

Vals(rs) == [i \in DOMAIN rs |-> rs[i].val]

\* ResultSet.getAllKeys: whether the key is in any dictionary of rs
getAllKeys(rs) == \E i \in DOMAIN rs : rs[i].has

\* ResultSet.inflateResultSetWithKeys: a dictionary without a key of the
\* list gets it with the value 0.0
inflateResultSetWithKeys(rs, hasKey) ==
    [i \in DOMAIN rs |->
        IF hasKey /\ ~rs[i].has THEN [rs[i] EXCEPT !.has = TRUE, !.val = 0] ELSE rs[i]]

\* Merge.__mergeAverage on dictionaries: d.get(key) is None for one without
\* the key, and the TypeError of the sum ends the program as the
\* ZeroDivisionError of an empty list does
mergeAverageOf(rs) ==
    IF \E i \in DOMAIN rs : ~rs[i].has THEN ZeroDivision
    ELSE merge(Vals(rs), "MERGE_AVG")

\* ResultSet.limitToPintoolResults and limitToSimulatorResults
limitToPintoolResults(rs) == SelectSeq(rs, LAMBDA d : isPintool(d.tool))
limitToSimulatorResults(rs) == SelectSeq(rs, LAMBDA d : isSimulatorConfig(d.tool))

\* ProductTask.productTask: the Pintool entries, then the simulator entries
\* inflated with the keys any simulator entry has; then generateResult
ProductTask ==
    /\ rpc = "product"
    /\ LET simRS == limitToSimulatorResults(resSet)
       IN  resSet' = limitToPintoolResults(resSet)
                     \o inflateResultSetWithKeys(simRS, getAllKeys(simRS))
    /\ rpc' = "generate"
    /\ UNCHANGED <<fs, ui, ti, table, okLinks>>

\* Result.__createOutputTable: a link marked "OK" to the stats file of
\* every trial, benchmark, workload and tool, whether or not it exists
createOutputTable == StatsFilesOf(opt)

\* Result.generateResult up to the tables: the products directories, the
\* rerun file and the HTML container (no state modelled here), then the
\* output table
generateResult ==
    /\ rpc = "generate"
    /\ okLinks' = createOutputTable
    /\ rpc' = "pintable"
    /\ UNCHANGED <<fs, ui, ti, resSet, table>>

\* The (bench, workload, tool) cells of a table for the given tools
CellsOf(ts) == {<<b, w, t>> : b \in ToSet(Benches), w \in ToSet(Workloads), t \in ts}

\* The Pintool table's cells, each __mergeAverage over the entries
\* limitResultSetWithDict finds
Cells(ts) ==
    [c \in CellsOf(ts) |-> mergeAverageOf(limitResultSetWithDict(resSet, c[1], c[2], c[3]))]

\* The simulator table first gives every entry without the key a dummy 0
withDummyKey(rs) == inflateResultSetWithKeys(rs, TRUE)

\* __createPintoolStatsTable: the tool must be exactly "pintool"; an empty
\* list divides by zero in __mergeAverage, and raiseError ends the program
createPintoolStatsTable ==
    /\ rpc = "pintable"
    /\ LET cells == Cells({"pintool"})
       IN  IF \E c \in DOMAIN cells : cells[c] = ZeroDivision
           THEN rpc' = "exit" /\ UNCHANGED table
           ELSE rpc' = "simtable" /\ table' = cells @@ table
    /\ UNCHANGED <<fs, ui, ti, resSet, okLinks>>

\* __createSimStatsTable: "Cannot find stats" ends the program when a
\* (bench, workload, tool) has no entry
createSimStatsTable ==
    /\ rpc = "simtable"
    /\ LET rows(c) == limitResultSetWithDict(resSet, c[1], c[2], c[3])
       IN  IF \E c \in CellsOf(ToSet(opt.simulators)) : rows(c) = <<>>
           THEN rpc' = "exit" /\ UNCHANGED table
           ELSE table' = [c \in CellsOf(ToSet(opt.simulators)) |->
                              mergeAverageOf(withDummyKey(rows(c)))] @@ table
                /\ rpc' = "stacked"
    /\ UNCHANGED <<fs, ui, ti, resSet, okLinks>>

(***************************************************************************)
(* Result.__generateStackedBars: one StackedBarGraph for the one key of    *)
(* StackedKeys.di_stackedKeys, the bandwidth cycle count, whose components *)
(* are parts of the count the same backend writes to the same stats file;  *)
(* the one key of the model stands for them all.  Only the control is      *)
(* modelled: which exception generateFile raises, if any.  The jgraph and  *)
(* EPS/PNG files are not state here.                                        *)
(***************************************************************************)

\* The (benchmark, simulator) pairs JGraph._merge loops over
BenchSims == {<<b, t>> : b \in ToSet(Benches), t \in ToSet(opt.simulators)}

\* JGraph._merge: for each pair with entries, Merge.merge (the average) of
\* the key over them, all workloads and trials together; a pair without
\* entries is skipped.  Its raiseError does not end the program by
\* SystemExit: generateFile's finally then calls file.close() on a file
\* not yet bound, and the UnboundLocalError replaces it ("crash")
jgraphMerge(rs) ==
    LET rows(c) == SelectSeq(rs, LAMBDA d : d.bench = c[1] /\ d.tool = c[2])
    IN  [c \in {c \in BenchSims : rows(c) # <<>>} |-> mergeAverageOf(rows(c))]

\* A merged value __computeProps can divide by: fl_base is the total the
\* components are parts of, so fl_base = 0 makes fl_comp / fl_base raise
\* ZeroDivisionError (or "assert fl_comp <= fl_base" fail)
Positive(v) == v.exc = "none" /\ v.num > 0

\* __plotData raises, at the first benchmark: it indexes
\* getSimulatorsTuple()[0], and reads divValue, which only the branch for a
\* first simulator that isPauseConfig assigns; its tool loop asserts one
\* merged entry per (benchmark, simulator), and __computeProps divides by it
plotDataRaise(rs) ==
    LET m == jgraphMerge(rs)
    IN  /\ Benches # <<>>
        /\ \/ opt.simulators = <<>>
           \/ ~isPauseConfig(opt.simulators[1])
           \/ \E c \in BenchSims : ~(c \in DOMAIN m /\ Positive(m[c]))

\* __plotSummary raises: the bar width divides by the number of
\* simulators, and it asserts one entry per benchmark for each of them
plotSummaryRaise == opt.simulators = <<>> \/ Benches = <<>>

\* StackedBarGraph.generateFile: _merge, then __plotData, the axes, and
\* __plotData and __plotSummary again; the finally block closes the file
stackedBarsRaise(rs) == plotDataRaise(rs) \/ plotSummaryRaise

\* generateResult's last call, __generateStackedBars, after both tables;
\* its exceptions are not caught by generateResult, resultTask or main
generateStackedBars ==
    /\ rpc = "stacked"
    /\ rpc' = IF stackedBarsRaise(resSet) THEN "crash" ELSE "done"
    /\ UNCHANGED <<fs, ui, ti, resSet, table, okLinks>>

RNext ==
    \/ CollectPath
    \/ CollectTool
    \/ CollectEnd
    \/ ProductTask
    \/ generateResult
    \/ createPintoolStatsTable
    \/ createSimStatsTable
    \/ generateStackedBars

-----------------------------------------------------------------------------
(***************************************************************************)
(* Properties                                                              *)
(***************************************************************************)

RTypeOK ==
    /\ fs \in [DirsOf(opt) \cup StatsFilesOf(opt) -> {"ok", "absent", "short"}]
    /\ rpc \in {"collect", "product", "generate", "pintable", "simtable", "stacked",
               "done", "exit", "crash"}
    /\ okLinks \subseteq StatsFilesOf(opt)
    /\ ui \in 1..(Len(Units) + 1) /\ ti \in 0..Len(Tools)
    /\ \A i \in DOMAIN resSet : resSet[i].trial \in 1..Trials

\* The values of a cell's key in the stats files of every trial of the run
AllTrials(c) == [num \in 1..Trials |-> Val(c[2], num, c[1], c[3])]

\* When every run directory and stats file is there in full and
\* generateResult completes, each cell of both tables is the mean of its
\* key over all the trials: the collect loops visit every (w, num, b, tool)
\* once, and productTask and limitResultSetWithDict lose and double nothing
CompleteOutputsFullyReported ==
    (rpc = "done" /\ \A p \in DOMAIN fs : fs[p] = "ok") =>
        \A c \in DOMAIN table : SameValue(table[c], MeanOf(AllTrials(c)))

\* What raiseError promises in collectTask ("Output file path not present",
\* "stats file not present") and the tables ("Cannot find stats"): the
\* program stops rather than report a table from incomplete stats; so a
\* table that is completed reports the mean over every trial
ReportedCellsAreMeansOverAllTrials ==
    rpc = "done" =>
        \A c \in DOMAIN table : SameValue(table[c], MeanOf(AllTrials(c)))

\* The result task on an output directory with every run directory and
\* stats file there in full, for Pintool and simulators the collect task
\* parses (MESI and PAUSE), writes its tables and stacked graphs and ends
\* normally: the program stops on a missing or unreadable output, never with
\* an exception of its own from generateResult
CompleteOutputsGenerateResult ==
    ~ /\ rpc \in {"exit", "crash"}
      /\ \A p \in DOMAIN fs : fs[p] = "ok"
      /\ "pintool" \in ToSet(Tools)
      /\ \A t \in ToSet(Tools) :
            isPintool(t) \/ (isSimulatorConfig(t) /\ SimType(t) \in {"PAUSE", "MESI"})

=============================================================================
