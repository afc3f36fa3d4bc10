-------------------------------- MODULE Tasks --------------------------------
(***************************************************************************)
(* main.py and Tasks.runAllTasks: the command line is parsed and checked   *)
(* (CmdLine), then the tasks it names run one after the other in a fixed   *)
(* order.  Of those, this module composes the clean task (CleanTask) and   *)
(* the result task (ResultTask); the run task is RunTask's, and sync,      *)
(* build, copy and email are shell commands and mail.  A command line      *)
(* that names any of the latter is not among the candidates.               *)
(*                                                                         *)
(* Any raiseError ends the program (sys.exit) in stage "exit".             *)
(***************************************************************************)
EXTENDS Integers, Sequences, FiniteSets, CmdLine
LOCAL INSTANCE SequencesExt

CONSTANTS
    CommandLines,                       \* the candidate argparse results
    Pids, Name, Cmd, Cid, CleanNames,   \* the processes the clean task meets
    Val(_, _, _, _), MaxFaults          \* the output the result task reads

VARIABLES
    stage,                              \* "parse", "clean", "result", "end", "exit"
    opt,                                \* the command line, then the Options
    pst, cpc, ci, phase, killed,        \* the clean task's
    fs, rpc, ui, ti, resSet, table,     \* the result task's
    okLinks

C == INSTANCE CleanTask
R == INSTANCE ResultTask

cvars == <<pst, cpc, ci, phase, killed>>
rvars == <<fs, rpc, ui, ti, resSet, table, okLinks>>
vars == <<stage, opt, cvars, rvars>>

\* "x in self.tasksTuple or 'all' in self.tasksTuple"
Runs(o, task) == Contains(o.tasks, task) \/ Contains(o.tasks, "all")

\* Where runAllTasks goes after the clean task, or in place of it
AfterClean(o) ==
    IF Runs(o, "result")
    THEN stage' = "result" /\ R!RStart(o)
    ELSE stage' = "end" /\ UNCHANGED rvars

Init ==
    /\ stage = "parse"
    /\ opt \in CommandLines
    /\ C!CInit
    /\ fs = <<>> /\ rpc = "collect" /\ ui = 1 /\ ti = 0
    /\ resSet = <<>> /\ table = <<>> /\ okLinks = {}

\* main: argparse, Options.setOptions, then CmdLine.parse; argparse's
\* error and a failed check exit
Parse ==
    /\ stage = "parse"
    /\ LET o == parse(opt) IN
       IF argparseAccepts(opt) /\ Accepted(o)
       THEN /\ opt' = o
            /\ IF Runs(o, "clean")
               THEN stage' = "clean" /\ UNCHANGED rvars
               ELSE AfterClean(o)
       ELSE stage' = "exit" /\ UNCHANGED <<opt, rvars>>
    /\ UNCHANGED cvars

\* CleanTask.cleanTask: the scan of __usingPsutil
CleanScan ==
    /\ stage = "clean"
    /\ C!Scan
    /\ UNCHANGED <<stage, opt, rvars>>

\* The leftover processes exit and are reaped while the scan runs
CleanEnvironment ==
    /\ stage = "clean"
    /\ C!Environment
    /\ UNCHANGED <<stage, opt, rvars>>

\* cleanTask returns; runAllTasks goes on
CleanDone ==
    /\ stage = "clean" /\ cpc = "done"
    /\ AfterClean(opt)
    /\ UNCHANGED <<opt, cvars>>

\* ResultTask.resultTask: collectTask, then productTask (sameMachine)
ResultStep ==
    /\ stage = "result"
    /\ R!RNext
    /\ UNCHANGED <<stage, opt, cvars>>

\* generateResult returns, or raiseError has ended the program
ResultDone ==
    /\ stage = "result" /\ rpc \in {"done", "exit", "crash"}
    /\ stage' = IF rpc = "done" THEN "end" ELSE "exit"
    /\ UNCHANGED <<opt, cvars, rvars>>

\* The program has ended
Ended ==
    /\ stage \in {"end", "exit"}
    /\ UNCHANGED vars

Next ==
    \/ Parse
    \/ CleanScan
    \/ CleanEnvironment
    \/ CleanDone
    \/ ResultStep
    \/ ResultDone
    \/ Ended

Spec == Init /\ [][Next]_vars

-----------------------------------------------------------------------------
(***************************************************************************)
(* Properties                                                              *)
(***************************************************************************)

TypeOK ==
    /\ stage \in {"parse", "clean", "result", "end", "exit"}
    /\ C!CTypeOK
    /\ stage = "result" => R!RTypeOK

\* The Options every later task reads (RunTask's batches and paths, the
\* collect loops, the tables) hold each benchmark once, sorted, with
\* httpd and mysqld last, and a parallelBenches window within the list:
\* parse checks the window only after removeBenchDuplicates
BenchListWellFormed ==
    stage \in {"clean", "result", "end"} =>
        LET B == opt.bench
            servers == {i \in 1..Len(B) : B[i] \in HTTPD}
        IN  /\ \A i, j \in 1..Len(B) : i < j =>
                   /\ B[i] # B[j]
                   /\ (i \notin servers /\ j \notin servers) => Rank(B[i]) < Rank(B[j])
                   /\ i \in servers => j \in servers
            /\ 1 <= opt.parallelBenches /\ opt.parallelBenches <= Len(B)

\* The clean scan leaves no leftover running
LeftoversKilled == C!LeftoversKilled

\* A complete output directory is reported in full by generateResult
CompleteOutputsFullyReported == R!CompleteOutputsFullyReported

\* Every table generateResult completes averages over every trial
ReportedCellsAreMeansOverAllTrials == R!ReportedCellsAreMeansOverAllTrials

\* A result run over complete outputs of the tools it parses ends normally,
\* its tables and stacked graphs written
CompleteOutputsGenerateResult == R!CompleteOutputsGenerateResult

=============================================================================
