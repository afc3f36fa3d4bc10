----------------------------- MODULE MC_RunTask -----------------------------
(***************************************************************************)
(* Instances of RunTask for TLC: three compute benchmarks, so that with    *)
(* parallelBenches = 2 there is a full window and a short one, two trials  *)
(* so that a benchmark's pipes are set up again over the previous trial's, *)
(* and tool lists taken from CmdLine.allowedTools.                         *)
(***************************************************************************)
EXTENDS RunTask
LOCAL INSTANCE SimulatorConfigs

\* argparse's defaults for --cores and --pinThreads, which no command line
\* of these instances overrides
MCCores == 8
MCPinThreads == 8

\* The tools whose __start*Simulator raises in its if-chain under the
\* options MCCores and MCPinThreads
FailingUnder(cores, threads) ==
    {t \in SimSet : ~StartAsserts(Fam(t), t, cores, threads)}
MCFailing == FailingUnder(MCCores, MCPinThreads)

\* Which tested substrings occur in each tool name used below
MCSig ==
    [t \in {"pintool", "viseropt", "pause", "pause16", "mesi", "ce",
            "viseroptregularplru", "rccsiopt", "viseropt16"} |->
        CASE t = "pintool"             -> {"pintool"}
          [] t = "viseropt"            -> {"viser"}
          [] t = "pause"               -> {"pause"}
          [] t = "pause16"             -> {"pause"}
          [] t = "mesi"                -> {"mesi"}
          [] t = "ce"                  -> {"ce"}
          [] t = "viseroptregularplru" -> {"viser", "viseroptregularplru"}
          [] t = "rccsiopt"            -> {"rccsi"}
          [] t = "viseropt16"          -> {"viser", "16"}]

\* removeBenchDuplicates sorts the list
MCBenches == <<"canneal", "fft", "x264">>

\* A frontend pipe of the first benchmark and the backend pipes of the
\* second left behind by a run that failed
MCStale == {<<Benches[1], "frontend">>} \cup {<<Benches[2], t>> : t \in SimSet}

\* Two server benchmarks after a compute one
MCServerBenches == <<"canneal", "httpd", "mysqld">>

ToolsViserPause == <<"pintool", "viseropt", "pause">>
ToolsViser16    == <<"pintool", "viseropt16">>
ToolsMesiCE     == <<"pintool", "mesi", "ce">>
ToolsMasked     == <<"pintool", "viseropt", "viseroptregularplru">>
ToolsReversed   == <<"viseropt", "pintool">>
ToolsViser      == <<"pintool", "viseropt">>
ToolsPin        == <<"pintool">>
=============================================================================
