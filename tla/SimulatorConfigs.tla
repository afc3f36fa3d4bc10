--------------------------- MODULE SimulatorConfigs ---------------------------
(***************************************************************************)
(* What the four __start*Simulator methods of task/runtask.py accept: each *)
(* is an if-chain on the exact tool name that builds the backend's command *)
(* line, ends in assert(False), and in some branches asserts the core      *)
(* count (options.cores) or, for RCCSI, the thread count                   *)
(* (options.pinThreads).  The command-line text each branch builds is not  *)
(* modelled; which names have a branch, and what a branch asserts, is.     *)
(***************************************************************************)
EXTENDS Integers, TLC

\* The branches of __startMesiSimulator
mesiChain ==
    {"mesi", "mesi16", "mesi32", "mesi-ce", "mesi-ce16", "mesi-ce32",
     "mesiregularplru", "mesiregularplru32", "mesiregularplru16"}

\* The branches of __startViserSimulator
viserChain ==
    {"viserunopt", "viserreadonlyopt", "viserlastwriteropt",
     "viserupdatewrites", "viseruntouchedlinesopt", "viserspecialinvalid",
     "viserbloomfilter", "viserbloominvalid", "viseronebloom",
     "viserselfinvalidationopt", "viserdeferwritebacks",
     "viserdeferwritebacksprecise", "viserskipvalidatingreadlines",
     "viserignorefetchingreadbits", "viserignorefetchingwritebits",
     "viseropt", "viseroptfetchwritebits", "viseroptnoatomicupdates",
     "viseroptprecisedefer", "viseropt-8Kaim", "viseropt-16Kaim",
     "viseropt16", "viseropt16-16Kaim", "viseropt16idealaim", "viseropt32",
     "viseropt32-16Kaim", "viseropt32idealaim", "viseroptidealaim",
     "viseroptclearaimatregionboundaries",
     "viserignoredeferredlinesduringreadvalidation", "viseroptnodefer",
     "viseroptevictnonwarlinefirst", "viseroptevictcleanlinefirst",
     "viseroptlru", "viseroptmodifiedplru", "viserplruatomicasboundary",
     "viserplruatomicasregular"}

\* The branches of __startPauseSimulator
pauseChain ==
    {"pause", "pause16", "pause32", "viseroptregularplru",
     "viseroptregularplru16", "viseroptregularplru32",
     "viseroptregularplru32cp1k", "viseroptregularplru32cp100",
     "viseroptregularplru32cp10", "viseroptregularplru32cp1", "restart",
     "restartevictcleanlinesfirst", "restartunopt", "restartunopt16",
     "restartunopt32", "pseudorestartunopt", "pseudorestartunopt16",
     "restartopt", "restartopt16", "restartopt32", "pseudorestartopt",
     "pseudorestartopt16", "pseudorestartopt32", "restartunopt4assoc",
     "restartopt4assoc", "restartunopt2assoc", "restartopt2assoc",
     "restartunopt16assoc", "restartopt16assoc", "ce", "ce16", "ce32",
     "cepause", "cerestartunopt", "cerestartopt", "cepause16",
     "cerestartunopt16", "cerestartopt16", "cepause32", "cerestartunopt32",
     "cerestartopt32", "pseudocerestartopt", "pseudocerestartopt16",
     "pseudocerestartopt32"}

\* The branches of __startRCCSISimulator
rccsiChain ==
    {"rccsiunopt", "rccsiunoptclearreadersfromllc", "rccsiusereadonlylineopt",
     "rccsibloomfilter", "rccsideferwritebacks", "rccsiskipreadvalidation",
     "rccsiopt", "rccsiopt16", "rccsiopt32"}

Chain == [mesi |-> mesiChain, viser |-> viserChain,
          pause |-> pauseChain, rccsi |-> rccsiChain]

\* "assert options.cores == n" in the MESI branches
mesiCores ==
    [t \in {"mesi16", "mesi-ce16", "mesiregularplru16"} |-> 16]
    @@ [t \in {"mesi32", "mesi-ce32"} |-> 32]

\* "assert options.cores == n" in the Viser branches
viserCores ==
    [t \in {"viseropt16", "viseropt16-16Kaim", "viseropt16idealaim"} |-> 16]
    @@ [t \in {"viseropt32", "viseropt32-16Kaim", "viseropt32idealaim"} |-> 32]

\* "assert options.cores == 32" in the pause/restart branches (the 16-core
\* branches assert nothing)
pauseCores ==
    [t \in {"viseroptregularplru32", "viseroptregularplru32cp1k",
            "viseroptregularplru32cp100", "viseroptregularplru32cp10",
            "viseroptregularplru32cp1", "restartunopt32"} |-> 32]

\* "assert options.pinThreads == n" in the RCCSI branches
rccsiThreads == [t \in {"rccsiopt16"} |-> 16] @@ [t \in {"rccsiopt32"} |-> 32]

NoAssert == [t \in {} |-> 0]

\* The core count and the thread count each family's branches assert
CoresAsserted == [mesi |-> mesiCores, viser |-> viserCores,
                  pause |-> pauseCores, rccsi |-> NoAssert]
ThreadsAsserted == [mesi |-> NoAssert, viser |-> NoAssert,
                    pause |-> NoAssert, rccsi |-> rccsiThreads]

\* Whether the __start*Simulator of family f gets past its if-chain for tool
\* t under options.cores = cores and options.pinThreads = threads: a branch
\* for t, and its assert, if any, holds
StartAsserts(f, t, cores, threads) ==
    /\ t \in Chain[f]
    /\ t \in DOMAIN CoresAsserted[f] => cores = CoresAsserted[f][t]
    /\ t \in DOMAIN ThreadsAsserted[f] => threads = ThreadsAsserted[f][t]

=============================================================================
