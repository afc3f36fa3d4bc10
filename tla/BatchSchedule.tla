---------------------------- MODULE BatchSchedule ----------------------------
(***************************************************************************)
(* What the batch scheduler of the run task promises, without processes   *)
(* or pipes: the (workload, trial) units are visited in order; within a    *)
(* unit the benchmark list is covered by windows of at most P contiguous   *)
(* benchmarks, all full but the last; a window is launched and finishes    *)
(* before the next is launched; an error may end the schedule at any       *)
(* point, and otherwise it ends after the last window of the last unit.    *)
(***************************************************************************)
EXTENDS Integers

CONSTANTS
    N,          \* number of benchmarks
    P,          \* the parallelism bound, 1 <= P <= N
    Trials,     \* trials per workload
    Workloads   \* number of workload sizes

VARIABLES
    unit,       \* the current <<workload, trial>>
    next,       \* 0-based position where the current or next window starts
    active,     \* a window has been launched and has not finished
    window,     \* the positions of the active window, {} if none
    ended       \* the schedule is over

avars == <<unit, next, active, window, ended>>

\* The window that starts at position s: the positions in the same block of
\* P consecutive positions as s + 1
Block(s) == {i \in 1..N : (i - 1) \div P = s \div P}

LastUnit == <<Workloads, Trials>>

Succ(u) == IF u[2] < Trials THEN <<u[1], u[2] + 1>> ELSE <<u[1] + 1, 1>>

AInit ==
    /\ unit = <<1, 1>>
    /\ next = 0
    /\ active = FALSE
    /\ window = {}
    /\ ended = FALSE

Launch ==
    /\ ~ended /\ ~active
    /\ active' = TRUE
    /\ window' = Block(next)
    /\ UNCHANGED <<unit, next, ended>>

Finish ==
    /\ active
    /\ active' = FALSE
    /\ window' = {}
    /\ IF next + P < N
       THEN next' = next + P /\ UNCHANGED <<unit, ended>>
       ELSE IF unit = LastUnit
       THEN ended' = TRUE /\ UNCHANGED <<unit, next>>
       ELSE next' = 0 /\ unit' = Succ(unit) /\ UNCHANGED ended

Abort ==
    /\ ~ended
    /\ ended' = TRUE
    /\ active' = FALSE
    /\ window' = {}
    /\ UNCHANGED <<unit, next>>

ANext == Launch \/ Finish \/ Abort

\* The scheduler keeps launching and finishing windows until it has ended
ASpec == AInit /\ [][ANext]_avars /\ WF_avars(Launch \/ Finish)

=============================================================================
