------------------------------- MODULE CmdLine -------------------------------
(***************************************************************************)
(* The command line as main.py turns it into Options: Options.setOptions   *)
(* splits the comma lists, Options.removeBenchDuplicates sorts the         *)
(* benchmark list, and CmdLine.parse runs its sanity checks, any of which  *)
(* ends the program through raiseError (or an assert).                     *)
(*                                                                         *)
(* A command line is a record of the argparse values, the comma lists      *)
(* already split at the commas (so "a,b," is <<"a", "b", "">>).           *)
(***************************************************************************)
EXTENDS Integers, Sequences, FiniteSets, Constants
LOCAL INSTANCE SequencesExt

allowedTasks == {"clean", "sync", "build", "run", "result", "email", "all"}

\* CmdLine.allowedTools
allowedTools ==
    {"pintool", "mesi", "mesi16", "mesi32", "mesi-ce", "mesi-ce16",
     "mesi-ce32", "mesiregularplru", "mesiregularplru16",
     "mesiregularplru32", "viserunopt", "viserreadonlyopt",
     "viserlastwriteropt", "viserupdatewrites", "viseruntouchedlinesopt",
     "viserspecialinvalid", "viserbloomfilter", "viserbloominvalid",
     "viseronebloom", "viserselfinvalidationopt", "viserdeferwritebacks",
     "viserdeferwritebacksprecise", "viserskipvalidatingreadlines",
     "viserignorefetchingreadbits", "viseropt", "viseroptnoatomicupdates",
     "viseroptignorefetchwritebits", "viseroptnodefer",
     "viseroptprecisedefer", "viseropt-8Kaim", "viseropt-16Kaim",
     "viseropt16", "viseropt16-16Kaim", "viseropt32", "viseropt32-16Kaim",
     "viseroptidealaim", "viseropt16idealaim", "viseropt32idealaim",
     "viseroptclearaimatregionboundaries",
     "viserignoredeferredlinesduringreadvalidation", "viseruserfrs",
     "viseroptevictnonwarlinefirst", "viseroptevictcleanlinefirst",
     "viseroptlru", "viseroptregularplru", "viseroptregularplru16",
     "viseroptregularplru32", "viseroptregularplru32cp1k",
     "viseroptregularplru32cp100", "viseroptregularplru32cp10",
     "viseroptregularplru32cp1", "viseroptmodifiedplru",
     "viserplruatomicasboundary", "viserplruatomicasregular", "rccsiunopt",
     "rccsiunoptclearreadersfromllc", "rccsiusereadonlylineopt",
     "rccsiuselastwriteropt", "rccsiusebloomfilter",
     "rccsideferwritebacks", "rccsiskipreadvalidation", "rccsiopt",
     "rccsiopt16", "rccsiopt32", "pause", "pause16", "pause32", "restart",
     "restartwaitatreads", "restartevictcleanlinesfirst", "restartunopt",
     "restartunopt16", "restartunopt32", "pseudorestartunopt",
     "pseudorestartunopt16", "restartopt", "restartopt16", "restartopt32",
     "pseudorestartopt", "pseudorestartopt16", "pseudorestartopt32",
     "restartunopt4assoc", "restartopt4assoc", "restartunopt2assoc",
     "restartopt2assoc", "restartunopt16assoc", "restartopt16assoc", "ce",
     "cepause", "cerestartunopt", "cerestartopt", "ce16", "cepause16",
     "cerestartunopt16", "cerestartopt16", "ce32", "cepause32",
     "cerestartunopt32", "cerestartopt32", "pseudocerestartopt",
     "pseudocerestartopt16", "pseudocerestartopt32"}

allowedSizes == {"test", "simdev", "simsmall", "simmedium", "simlarge", "native"}

\* The values CmdLine.__init__ has argparse give the options read here
\* when the command line leaves them out (--tools is required), split at
\* the commas as setOptions splits them
argDefaults ==
    [tasks |-> <<"build">>, workload |-> <<"simsmall">>, trials |-> 1,
     bench |-> <<"none">>, pinThreads |-> 8, printOnly |-> FALSE,
     project |-> "none", lockstep |-> FALSE, parallelBenches |-> 1]

\* argparse's choices: --workload must be one of the sizes as a whole
\* string, so a comma list of sizes ends the program (exit status 2)
\* before setOptions splits it
argparseAccepts(cl) == Len(cl.workload) = 1 /\ cl.workload[1] \in allowedSizes

\* Project.PROJECTS
PROJECTS == {"viser", "rccsi", "pause"}

\* Benchmark.PARSEC, Benchmark.SPLASH2X and Benchmark.HTTPD
PARSEC == {"blackscholes", "bodytrack", "canneal", "dedup", "facesim", "ferret",
           "fluidanimate", "raytrace", "streamcluster", "swaptions", "vips", "x264"}
SPLASH2X == {"barnes", "cholesky", "fft", "fmm", "lu_cb", "lu_ncb", "ocean_cp",
             "ocean_ncp", "radiosity", "radix", "raytrace", "volrend",
             "water_nsquared", "water_spatial"}
HTTPD == {"httpd", "mysqld"}

\* Python's string order on the benchmark names, which TLC cannot compare:
\* the known names in sorted order, anything else before them
BenchOrder ==
    <<"barnes", "blackscholes", "bodytrack", "canneal", "cholesky", "dedup",
      "facesim", "ferret", "fft", "fluidanimate", "fmm", "httpd", "lu_cb",
      "lu_ncb", "mysqld", "ocean_cp", "ocean_ncp", "radiosity", "radix",
      "raytrace", "streamcluster", "swaptions", "vips", "volrend",
      "water_nsquared", "water_spatial", "x264">>

Rank(b) == IF \E i \in 1..Len(BenchOrder) : BenchOrder[i] = b
           THEN CHOOSE i \in 1..Len(BenchOrder) : BenchOrder[i] = b ELSE 0

\* Options.setOptions: empty tool names are filtered out (but not empty
\* tasks or benchmarks), and the simulators are the tools but "pintool"
setOptions(cl) ==
    LET tools == SelectSeq(cl.tools, LAMBDA t : t # "")
    IN  [tools |-> tools,
         simulators |-> SelectSeq(tools, LAMBDA t : t # "pintool"),
         tasks |-> cl.tasks, workload |-> cl.workload, bench |-> cl.bench,
         trials |-> cl.trials, pinThreads |-> cl.pinThreads,
         printOnly |-> cl.printOnly, project |-> cl.project,
         lockstep |-> cl.lockstep, parallelBenches |-> cl.parallelBenches]

\* Options.removeBenchDuplicates: a set, sorted, then httpd and mysqld
\* moved to the end, in that order
MoveLast(s, b) == IF Contains(s, b) THEN Append(Remove(s, b), b) ELSE s

removeBenchDuplicates(o) ==
    LET sorted == SetToSortSeq(ToSet(o.bench), LAMBDA a, b : Rank(a) < Rank(b))
    IN  [o EXCEPT !.bench = MoveLast(MoveLast(sorted, "httpd"), "mysqld")]

\* Options.checkToolDuplicates: assert(False) on a repeated tool
checkToolDuplicates(o) == Cardinality(ToSet(o.tools)) = Len(o.tools)

\* The sanity checks of CmdLine.parse, on the options after
\* removeBenchDuplicates; FALSE when one of them ends the program
Accepted(o) ==
    LET has(task) == Contains(o.tasks, task)
        tok == IF o.pinThreads = 16 THEN "16" ELSE "32"
    IN
    /\ o.project \in PROJECTS
    /\ \A i \in 1..Len(o.tasks) : o.tasks[i] \in allowedTasks \/ o.tasks[i] = ""
    /\ \A i \in 1..Len(o.tools) : o.tools[i] \in allowedTools
    /\ checkToolDuplicates(o)
    /\ \A i \in 1..Len(o.bench) : o.bench[i] \in HTTPD \cup PARSEC \cup SPLASH2X
    /\ 1 <= o.parallelBenches /\ o.parallelBenches <= Len(o.bench)
    /\ \A i \in 1..Len(o.workload) : o.workload[i] \in allowedSizes
    /\ has("run") /\ Len(o.simulators) > 0 => Contains(o.tools, "pintool")
    /\ has("result") => Len(o.bench) # 0 /\ o.trials # 0 /\ Len(o.workload) # 0
    /\ has("run") /\ o.pinThreads \in {16, 32} =>
           \A i \in 1..Len(o.tools) : isPintool(o.tools[i]) \/ tok \in Sig[o.tools[i]]
    /\ o.lockstep => Len(o.simulators) > 0

\* Mutant: the checks run before removeBenchDuplicates, which is not called
parseNoDedup(cl) == setOptions(cl)

\* What parse leaves in Options for a command line
parse(cl) == removeBenchDuplicates(setOptions(cl))

=============================================================================
