------------------------ MODULE ScheduleFeasibility ------------------------
(***************************************************************************)
(* The analysis program (assignment2/main.c): each task set of the input   *)
(* is given to edf_analysis, rm_analysis and dm_analysis in turn, and each *)
(* verdict is written to the file of its analysis.  No call leaves         *)
(* anything behind for the next task set, so one task set is followed.     *)
(***************************************************************************)
EXTENDS TaskTypes, Schedule

CONSTANTS TaskSets,         \* the task sets of the input given in whole numbers
          FractionTaskSets, \* those given in fractions, counted in their unit
          MaxDouble         \* the largest double: what exceeds it is infinite

ASSUME TaskSetsAssumption ==
    TaskSets \subseteq Seq(Task) /\ FractionTaskSets \subseteq Seq(Task)
ASSUME MaxDoubleAssumption == MaxDouble \in Nat

VARIABLES running,                      \* the analysis that is called, or "end"
          results,                      \* what was written, per analysis
          at, is_schedulable,           \* of the call
          l, new_l, time_stamps, h,     \* edf_analysis
          task, a_n, a_n1               \* rm_analysis and dm_analysis

Edf == INSTANCE EdfAnalysis
RM  == INSTANCE FixedPriority WITH Key <- "period"
DM  == INSTANCE FixedPriority WITH Key <- "deadline"

edfLocals   == <<l, new_l, time_stamps, h>>
fixedLocals == <<task, a_n, a_n1>>
vars == <<tasks, whole, running, results, at, is_schedulable, edfLocals, fixedLocals>>

Analyses == {"edf", "rm", "dm"}

NotWritten == -1

Init ==
    /\ \/ tasks \in TaskSets /\ whole = TRUE
       \/ tasks \in FractionTaskSets /\ whole = FALSE
    /\ running = "edf"
    /\ results = [a \in Analyses |-> NotWritten]
    /\ Edf!Begin
    /\ task = 1 /\ a_n = 0 /\ a_n1 = 0

EdfStep ==
    /\ running = "edf"
    /\ Edf!Next
    /\ UNCHANGED <<running, results, fixedLocals>>

RmStep ==
    /\ running = "rm"
    /\ RM!Next
    /\ UNCHANGED <<running, results, edfLocals>>

DmStep ==
    /\ running = "dm"
    /\ DM!Next
    /\ UNCHANGED <<running, results, edfLocals>>

\* writeFile(<running>_analysis(&task_set), ...) returns and the next call begins.
WriteFile ==
    /\ at = "returned"
    /\ results' = [results EXCEPT ![running] = is_schedulable]
    /\ running' = CASE running = "edf" -> "rm"
                    [] running = "rm"  -> "dm"
                    [] running = "dm"  -> "end"
    /\ at' = IF running = "dm" THEN "end" ELSE "iterate"
    /\ is_schedulable' = 0
    /\ l' = 0 /\ new_l' = 0 /\ time_stamps' = <<>> /\ h' = 0
    /\ task' = 1 /\ a_n' = 0 /\ a_n1' = 0
    /\ UNCHANGED <<tasks, whole>>

Next == EdfStep \/ RmStep \/ DmStep \/ WriteFile

\* Nothing but the processor is needed.
Spec == Init /\ [][Next]_vars /\ WF_vars(Next)

-----------------------------------------------------------------------------
(***************************************************************************)
(* Properties.                                                             *)
(***************************************************************************)

\* Every variable keeps its type; while a response time is iterated it never
\* passes the task's period (rm.c:119), which is what makes the loop finite.
TypeOK ==
    /\ TasksOK
    /\ running \in Analyses \cup {"end"}
    /\ results \in [Analyses -> {0, 1, NotWritten}]
    /\ at \in {"density", "length", "load", "iterate", "compare", "returned", "end"}
    /\ is_schedulable \in {0, 1}
    /\ Edf!LocalsOK
    /\ running = "rm" => RM!LocalsOK
    /\ running = "dm" => DM!LocalsOK

\* Deadlines are no longer than periods, as in every generated task set.
Constrained == \A i \in Indices : tasks[i].deadline <= tasks[i].period

Verdict(a) == results[a] = 1

\* The busy period was iterated to its end, and every density is a number.
LengthIsExact == ~Edf!NotANumber /\ l = new_l

\* When times are whole, each analysis answers what the schedule it stands for
\* does. For rm.c and dm.c: they stop the iteration early, skip the tasks they
\* take for lower and compare with the period before the deadline, and none of
\* it changes the answer. For edf.c: the density test, the deadlines inside the
\* busy period and the order in which they are visited decide as the schedule
\* does, unless the length of the busy period is left up to 1 % short (edf.c:67)
\* or a density is not a number: then only what it refuses is decided.
VerdictsExact ==
    whole /\ Constrained /\ at = "returned" =>
      IF running = "edf" /\ ~LengthIsExact
      THEN is_schedulable = 0 => ~Feasible(tasks, running)
      ELSE is_schedulable = 1 <=> Feasible(tasks, running)

\* What is accepted is safe, with whole times or with times that a double cannot
\* hold: rounding (rm.c:127 and edf.c:96 compare without a tolerance) may make
\* an analysis refuse a set that meets its deadlines, but never accept one that
\* misses one. The exception is edf.c where it leaves the length of the busy
\* period up to 1 % short (edf.c:67): what it then accepts may miss a deadline,
\* but never asks for over 100/99 of the time there is, by no deadline however
\* late. Sets with a density that is not a number are accepted unseen, and left
\* out.
AcceptanceIsSafe ==
    /\ Constrained
    /\ at = "returned" /\ is_schedulable = 1
    /\ running = "edf" => ~Edf!NotANumber
    => IF running = "edf" /\ l # new_l
       THEN \A d \in 0 .. Hyperperiod(tasks) : 99 * WorkDue(tasks, d) <= 100 * d
       ELSE Feasible(tasks, running)

\* If deadlines are no longer than periods, what rate monotonic analysis accepts
\* deadline monotonic priorities schedule too (rm.c:8), and what either of the
\* two analyses accepts EDF schedules. If times are whole as well, the verdicts
\* themselves are in that order, also where edf.c leaves its busy period short.
\* Not so in fractions: rm.c accepts (0.2, 0.6, 3.0), (0.3, 0.6, 2.0),
\* (0.1, 0.6, 2.0), for 0.2 + 0.3 + 0.1 is 0.6 in doubles, and dm.c refuses it,
\* for 0.1 + 0.2 + 0.3 is more.
DominanceOrder ==
    Constrained /\ running = "end" =>
      /\ Verdict("rm") => Feasible(tasks, "dm")
      /\ Verdict("rm") \/ Verdict("dm") => Feasible(tasks, "edf")
      /\ whole => /\ Verdict("rm") => Verdict("dm")
                  /\ Verdict("dm") => Verdict("edf")

\* Every task set gets its three verdicts: no iteration goes on for ever, with
\* more work than time either, or with tasks without any work.
AnalysesEnd == <>(running = "end")
=============================================================================
