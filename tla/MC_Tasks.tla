------------------------------- MODULE MC_Tasks -------------------------------
(***************************************************************************)
(* Tasks for TLC: four tools, a handful of command lines that reach every *)
(* stage, six leftover processes and a two-trial output directory.         *)
(***************************************************************************)
EXTENDS Tasks

\* Sig of each tool: the substrings Constants' tests and the core-count
\* check look for
MCSig ==
    [t \in {"pintool", "mesi16", "viseropt16", "pause16"} |->
        CASE t = "pintool" -> {"pintool"}
          [] t = "mesi16"  -> {"mesi", "16"}
          [] t = "viseropt16" -> {"viser", "16"}
          [] t = "pause16" -> {"pause", "16"}]

\* A command line with --pinThreads 16 --project pause and the given
\* options; the others keep their argparse defaults
Cl(tools, tasks, bench, trials, printOnly, p) ==
    [tools |-> tools, tasks |-> tasks, workload |-> argDefaults.workload,
     bench |-> bench, trials |-> trials, pinThreads |-> 16,
     printOnly |-> printOnly, project |-> "pause",
     lockstep |-> argDefaults.lockstep, parallelBenches |-> p]

\* clean then result, with a trailing comma in the tools and a repeated
\* benchmark (MESI first, so the stacked graph raises); result alone over
\* two trials, a pause configuration first; result alone with a tool the
\* collect task cannot parse; result without pintool; clean alone,
\* printing only; a window wider than the benchmark list once duplicates
\* are gone; two sizes, which argparse's choices refuse
MCCommandLines ==
    { Cl(<<"pintool", "mesi16", "">>, <<"clean", "result">>,
         <<"canneal", "barnes", "canneal">>, 1, FALSE, 2),
      Cl(<<"pintool", "pause16">>, <<"result">>, <<"fft">>, 2, FALSE, 1),
      Cl(<<"pintool", "viseropt16">>, <<"result">>, <<"fft">>, 1, FALSE, 1),
      Cl(<<"pause16">>, <<"result">>, <<"vips">>, 2, FALSE, 1),
      Cl(<<"pintool">>, <<"clean", "">>, <<"vips">>, 1, TRUE, 1),
      Cl(<<"pintool">>, <<"result">>, <<"vips", "vips">>, 1, FALSE, 2),
      [Cl(<<"pintool">>, <<"run">>, <<"vips">>, 1, FALSE, 1)
          EXCEPT !.workload = <<"simsmall", "simlarge">>] }

\* One command line for each violation run
MCResultOnly ==
    { Cl(<<"pintool", "pause16">>, <<"result">>, <<"fft">>, 2, FALSE, 1) }
MCMesiFirst ==
    { Cl(<<"pintool", "mesi16">>, <<"result">>, <<"fft">>, 1, FALSE, 1) }
MCCleanOnly ==
    { Cl(<<"pintool">>, <<"clean">>, <<"vips">>, 1, FALSE, 1) }

\* Six processes, in pid order: a leftover pipefork, a simulator backend,
\* the framework itself, another java, another python3, a benchmark
MCPids == 1..6
MCName == <<"pipefork", "java", "python3", "java", "python3", "canneal">>
MCCmd == <<"other", "sim", "main", "other", "other", "other">>
MCCid == 3

MCCleanNames ==
    <<"pipefork", "parsecmgmt", "blackscholes", "bodytrack", "canneal",
      "dedup", "facesim", "ferret", "fluidanimate", "raytrace",
      "streamcluster", "swaptions", "vips", "x264", "tee", "python3",
      "run.sh", "java", "httpd", "trigger-con0.sh", "trigger-con1.sh",
      "mysqld">>

\* The key's value differs between the trials and the tools
MCVal(w, num, b, t) == IF isPintool(t) THEN num ELSE 2 * num + 1

=============================================================================
