-------------------------- MODULE MC_RunTaskConfig --------------------------
(***************************************************************************)
(* The run task on a command line CmdLine.parse accepts:                   *)
(*   --tasks run --tools pintool,viseropt16 --pinThreads 16                *)
(*   --bench canneal,fft,x264 --parallelBenches 2 --project viser          *)
(* with --cores left at argparse's default of 8, which the viseropt16      *)
(* branch of __startViserSimulator asserts is 16.                          *)
(***************************************************************************)
EXTENDS MC_RunTask

CL == INSTANCE CmdLine

MCPinThreads16 == 16

\* The command line, as the argparse values CmdLine reads
ConfigCl ==
    [tools |-> Tools, tasks |-> <<"run">>, workload |-> CL!argDefaults.workload,
     bench |-> Benches, trials |-> Trials, pinThreads |-> MCPinThreads16,
     printOnly |-> FALSE, project |-> "viser", lockstep |-> FALSE,
     parallelBenches |-> P]

\* CmdLine.parse passes every sanity check on it, and gives the benchmark
\* and tool lists this instance runs
ASSUME LET o == CL!parse(ConfigCl)
       IN  CL!Accepted(o) /\ o.bench = Benches /\ o.tools = Tools

MCFailing16 == FailingUnder(MCCores, MCPinThreads16)

=============================================================================
