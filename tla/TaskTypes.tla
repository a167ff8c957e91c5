----------------------------- MODULE TaskTypes -----------------------------
(***************************************************************************)
(* The data of the schedulability analyses (assignment2/task_types.h) and  *)
(* the arithmetic all three of them use.                                   *)
(*                                                                         *)
(* Times are doubles in the program and whole numbers of some unit here.   *)
(* If the unit is 1, the doubles are exact and so is every sum, product    *)
(* and comparison.  If it is a fraction such as 0.1, which a double cannot *)
(* hold, sums carry an error far below one unit: it shows only where two   *)
(* values are equal, or one is a multiple of the other.  There the outcome *)
(* depends on the digits, and is a choice (Above, RoundedUp).              *)
(***************************************************************************)
EXTENDS Integers, Sequences, FiniteSetsExt

VARIABLES tasks,    \* task_set->tasks, an array of Task
          whole     \* the times were given as whole numbers

Task == [wcet : Nat, deadline : Nat, period : Nat \ {0}]

TasksOK == tasks \in Seq(Task) /\ whole \in BOOLEAN

Indices == DOMAIN tasks

\* ceil(time / period) for exact operands
Ceil(time, period) == (time + period - 1) \div period

\* What x > y may come to.
Above(x, y) == {x > y} \cup IF whole \/ x # y THEN {} ELSE {TRUE}

\* The sets of tasks for which ceil(time / period) may come out one too high,
\* because the quotient is an integer and its double a little more.
RoundedUp(time) ==
    IF whole THEN {{}} ELSE SUBSET {j \in Indices : time > 0 /\ time % tasks[j].period = 0}

\* The sum over the tasks js of ceil(time / period) * wcet.
Demand(js, time, up) ==
    MapThenSumSet(LAMBDA j : (Ceil(time, tasks[j].period) + IF j \in up THEN 1 ELSE 0)
                                 * tasks[j].wcet, js)
=============================================================================
