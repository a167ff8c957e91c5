--------------------------- MODULE FixedPriority ---------------------------
(***************************************************************************)
(* rm_analysis (assignment2/rm/rm.c) and dm_analysis (assignment2/dm/dm.c):*)
(* the same function but for the field that ranks the tasks.  For each     *)
(* task the worst response time is found by iterating the demand of the    *)
(* task and of those of higher priority.                                   *)
(***************************************************************************)
EXTENDS TaskTypes

CONSTANT Key        \* "period" in rm_analysis, "deadline" in dm_analysis

VARIABLES at,               \* what the call does next
          is_schedulable,   \* ret.is_schedulable
          task, a_n, a_n1

locals == <<task, a_n, a_n1>>

\* Mutation: of equals neither is higher.
HigherPriorityStrictly(j, i) == tasks[j][Key] < tasks[i][Key]

\* The tasks are not sorted; of equals the one that comes first is higher.
HigherPriority(j, i) ==
    \/ tasks[j][Key] < tasks[i][Key]
    \/ tasks[j][Key] = tasks[i][Key] /\ j < i

\* What one turn of the loop makes of the response time a.
Response(i, a, up) ==
    tasks[i].wcet + Demand({j \in Indices : HigherPriority(j, i)}, a, up)

\* Mutation: the iteration goes on past the period.
NeverPastPeriod(a) == {FALSE}

\* The outcomes of a_n1 > task->period.
PastPeriod(a) == Above(a, tasks[task].period)

Return(verdict) ==
    /\ at' = "returned"
    /\ is_schedulable' = verdict

Begin ==
    /\ at = "iterate"
    /\ is_schedulable = 0
    /\ task = 1 /\ a_n = 0 /\ a_n1 = 0

\* One turn of for(;;): stop at a fixed point (the 0.0001 of the comparison is
\* below one unit), give up when the period is exceeded.
Iterate ==
    /\ at = "iterate"
    /\ task \in Indices
    /\ a_n' = a_n1
    /\ \E up \in RoundedUp(a_n1) : a_n1' = Response(task, a_n1, up)
    /\ \/ /\ a_n1' = a_n1
          /\ at' = "compare"
          /\ UNCHANGED is_schedulable
       \/ /\ a_n1' # a_n1
          /\ FALSE \in PastPeriod(a_n1')
          /\ UNCHANGED <<at, is_schedulable>>
       \/ /\ a_n1' # a_n1
          /\ TRUE \in PastPeriod(a_n1')
          /\ Return(0)
    /\ UNCHANGED <<tasks, whole, task>>

\* The worst case response time against the deadline.
Compare ==
    /\ at = "compare"
    /\ \/ /\ TRUE \in Above(a_n1, tasks[task].deadline)
          /\ Return(0)
          /\ UNCHANGED locals
       \/ /\ FALSE \in Above(a_n1, tasks[task].deadline)
          /\ task' = task + 1
          /\ a_n' = 0 /\ a_n1' = 0
          /\ at' = "iterate"
          /\ UNCHANGED is_schedulable
    /\ UNCHANGED <<tasks, whole>>

\* No task is left.
Accept ==
    /\ at = "iterate"
    /\ task \notin Indices
    /\ Return(1)
    /\ UNCHANGED <<tasks, whole, locals>>

Next == Iterate \/ Compare \/ Accept

\* The response time a turn starts from is never above the task's period.
LocalsOK ==
    /\ task \in 1 .. Len(tasks) + 1
    /\ a_n \in Nat /\ a_n1 \in Nat
    /\ at = "compare" => a_n1 = a_n
    /\ task \in Indices => a_n <= tasks[task].period
=============================================================================
