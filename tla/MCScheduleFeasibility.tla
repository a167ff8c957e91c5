----------------------- MODULE MCScheduleFeasibility -----------------------
(***************************************************************************)
(* Task sets for ScheduleFeasibility.                                      *)
(***************************************************************************)
EXTENDS ScheduleFeasibility

\* All tasks of numbers up to n whose deadlines are at most their periods.
SmallTasks(n) ==
    {t \in [wcet : 0 .. n, deadline : 0 .. n, period : 1 .. n] : t.deadline <= t.period}

\* Those that could meet their deadlines if they were alone.
LightTasks(n) == {t \in SmallTasks(n) : t.wcet <= t.deadline}

Of(wcet, deadline, period) == [wcet |-> wcet, deadline |-> deadline, period |-> period]

\* Tasks whose triples reach from nearly idle to overloaded.
TripleTasks ==
    {Of(1, 2, 3), Of(1, 3, 3), Of(2, 3, 3), Of(1, 1, 4), Of(1, 3, 4), Of(2, 4, 4),
     Of(1, 4, 6), Of(2, 5, 6), Of(3, 6, 6)}

\* A set whose busy period is left within 1 %, though more work is released
\* than fits in the end: edf.c accepts it.
Overload == <<Of(100, 102, 102), Of(1, 51, 51), Of(1, 204, 204)>>

ConstrainedSets ==
    {<<>>} \cup [1 .. 2 -> SmallTasks(3) \cup LightTasks(5)] \cup [1 .. 3 -> TripleTasks] \cup {Overload}

\* In tenths, say: none of these but multiples of 5 is a double.
FractionSets ==
    [1 .. 2 -> SmallTasks(3)]
      \cup [1 .. 3 -> {Of(1, 2, 3), Of(1, 3, 3), Of(1, 3, 4), Of(1, 4, 6)}]
      \cup {Overload}
=============================================================================
