------------------------------ MODULE CleanTask ------------------------------
(***************************************************************************)
(* The clean task (task/cleantask.py, CleanTask.__usingPsutil): one scan   *)
(* over psutil.process_iter() that kills every process whose name is in    *)
(* CleanTask.tasks, except the framework itself, a python3 not running     *)
(* main.py, and a java that is not a simulator.                            *)
(*                                                                         *)
(* The processes are not children of the framework: they are left over    *)
(* from an earlier run, so they exit and are reaped by init whenever they  *)
(* do.  A process is "alive", a "zombie" (exited or killed, not yet        *)
(* reaped: psutil can still read its name) or "gone" (reaped: every psutil *)
(* call on it raises NoSuchProcess).                                       *)
(***************************************************************************)
EXTENDS Integers, Sequences, FiniteSets

CONSTANTS
    Pids,        \* the pids process_iter lists, 1..K, in the order it yields them
    Name,        \* Name[p]: what proc.name() returns
    Cmd,         \* Cmd[p]: "main" (runs VISER_EXP/src/main.py), "sim" (an
                 \* argument under a simulator root) or "other"
    Cid,         \* os.getpid(): the framework process itself
    CleanNames   \* CleanTask.tasks, in its order

VARIABLES
    opt,         \* the parsed options (printOnly is read here)
    pst,         \* pst[p]: "alive", "zombie" or "gone"
    cpc,         \* "scan", "done"
    ci,          \* the position of process_iter
    phase,       \* for the process at ci: "yield", "names" or "post"
    killed       \* the pids proc.kill() was called on

cvars == <<pst, cpc, ci, phase, killed>>

ASSUME Pids = 1..Cardinality(Pids) /\ Cid \in Pids

\* Where proc.name() == name first holds in the inner loop, 0 if never
NamePos(p) ==
    IF \E k \in 1..Len(CleanNames) : CleanNames[k] = Name[p]
    THEN CHOOSE k \in 1..Len(CleanNames) : CleanNames[k] = Name[p]
    ELSE 0

\* proc.cmdline() of a zombie is empty
CmdLineOf(p) == IF pst[p] = "alive" THEN Cmd[p] ELSE "none"

\* The kill flag the code computes for a process whose name matched
KillFlag(p) ==
    CASE Name[p] = "python3" -> CmdLineOf(p) = "main"
      [] Name[p] = "java"    -> CmdLineOf(p) = "sim"
      [] OTHER               -> TRUE

\* The effect of proc.kill(): SIGKILL turns a live process into a zombie;
\* NoSuchProcess and the other psutil errors are caught and printed
KillProc(p) == IF pst[p] = "alive" THEN "zombie" ELSE pst[p]

\* "proc.name() == name and proc.pid != cid" holds for some name
Matches(p) == NamePos(p) # 0 /\ p # Cid

CInit ==
    /\ pst = [p \in Pids |-> "alive"]
    /\ cpc = "scan"
    /\ ci = 1
    /\ phase = "yield"
    /\ killed = {}

\* The outer "except psutil.NoSuchProcess: pass": the scan stops there
AbandonScan ==
    /\ cpc' = "done"
    /\ UNCHANGED <<pst, ci, phase, killed>>

\* The outer loop moves on; the scan is over after the last pid
Advance ==
    /\ ci' = ci + 1
    /\ phase' = "yield"
    /\ cpc' = IF ci = Cardinality(Pids) THEN "done" ELSE "scan"

NextProcess == Advance /\ UNCHANGED <<pst, killed>>

\* process_iter yields the next pid, skipping one that is already gone
Yield ==
    /\ cpc = "scan" /\ phase = "yield"
    /\ IF pst[ci] = "gone"
       THEN NextProcess
       ELSE phase' = "names" /\ UNCHANGED <<pst, cpc, ci, killed>>

\* The inner loop up to the name that matches: the name() calls, for
\* python3 and java the cmdline() call, and the kill
Names ==
    /\ cpc = "scan" /\ phase = "names"
    /\ IF pst[ci] = "gone" THEN AbandonScan
       ELSE LET kill == Matches(ci) /\ KillFlag(ci) /\ ~opt.printOnly
            IN  /\ pst' = IF kill THEN [pst EXCEPT ![ci] = KillProc(ci)] ELSE pst
                /\ killed' = IF kill THEN killed \cup {ci} ELSE killed
                /\ IF NamePos(ci) \in 1..(Len(CleanNames) - 1)
                   THEN phase' = "post" /\ UNCHANGED <<cpc, ci>>
                   ELSE Advance

\* The name() calls for the names after the match, on a process that may
\* have been killed and reaped meanwhile
Post ==
    /\ cpc = "scan" /\ phase = "post"
    /\ IF pst[ci] = "gone" THEN AbandonScan ELSE NextProcess

\* A leftover process exits on its own (its pipe peers went away)
ProcExit(p) ==
    /\ p # Cid /\ pst[p] = "alive"
    /\ pst' = [pst EXCEPT ![p] = "zombie"]
    /\ UNCHANGED <<cpc, ci, phase, killed>>

\* init reaps an orphaned zombie
Reap(p) ==
    /\ pst[p] = "zombie"
    /\ pst' = [pst EXCEPT ![p] = "gone"]
    /\ UNCHANGED <<cpc, ci, phase, killed>>

Scan == Yield \/ Names \/ Post

Environment == \E p \in Pids : ProcExit(p) \/ Reap(p)

-----------------------------------------------------------------------------
(***************************************************************************)
(* Properties                                                              *)
(***************************************************************************)

CTypeOK ==
    /\ pst \in [Pids -> {"alive", "zombie", "gone"}]
    /\ cpc \in {"scan", "done"} /\ ci \in 1..(Cardinality(Pids) + 1)
    /\ phase \in {"yield", "names", "post"} /\ killed \subseteq Pids

\* A process the clean task is meant to kill: one of CleanTask.tasks other
\* than the framework itself, a python3 only when it runs main.py, a java
\* only when it runs a simulator
Leftover(p) ==
    /\ p # Cid /\ NamePos(p) # 0
    /\ Name[p] = "python3" => Cmd[p] = "main"
    /\ Name[p] = "java" => Cmd[p] = "sim"

\* What the class promises ("Clean up old processes with standard names"):
\* when the scan is over, no leftover process is still running
LeftoversKilled ==
    cpc = "done" /\ ~opt.printOnly =>
        \A p \in Pids : Leftover(p) => pst[p] # "alive"

=============================================================================
