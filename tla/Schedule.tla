----------------------------- MODULE Schedule ------------------------------
(***************************************************************************)
(* What the analyses are about: the preemptive schedule of a set of        *)
(* periodic tasks on one processor, all released together at time 0, one   *)
(* unit of time after the other.  Deadlines are at most the periods, so    *)
(* that a task has one job at a time.                                      *)
(***************************************************************************)
EXTENDS Integers, Sequences, FiniteSetsExt

\* The start of the period that time t falls in.
Release(ts, i, t) == t - (t % ts[i].period)

\* What ranks the job of task i at time t under a policy: the smaller first.
Rank(ts, policy, i, t) ==
    CASE policy = "edf" -> Release(ts, i, t) + ts[i].deadline
      [] policy = "rm"  -> ts[i].period
      [] policy = "dm"  -> ts[i].deadline

Before(ts, policy, t, i, j) ==
    \/ Rank(ts, policy, i, t) < Rank(ts, policy, j, t)
    \/ Rank(ts, policy, i, t) = Rank(ts, policy, j, t) /\ i < j

\* The remaining work per task after the unit [t, t + 1).
OneUnit(ts, policy, t, left) ==
    LET work    == [i \in DOMAIN ts |-> IF t % ts[i].period = 0 THEN ts[i].wcet ELSE left[i]]
        pending == {i \in DOMAIN ts : work[i] > 0}
        first   == CHOOSE i \in pending :
                      \A j \in pending \ {i} : Before(ts, policy, t, i, j)
    IN  IF pending = {} THEN work ELSE [work EXCEPT ![first] = @ - 1]

\* Task i has work left at time t, when a deadline of it is due.
Misses(ts, t, left) ==
    \E i \in DOMAIN ts :
       /\ t >= ts[i].deadline
       /\ (t - ts[i].deadline) % ts[i].period = 0
       /\ left[i] > 0

\* At the start nothing is left, but a job that is due at once is missed.
Start(ts) ==
    [left |-> [i \in DOMAIN ts |-> 0],
     met  |-> \A i \in DOMAIN ts : ts[i].deadline = 0 => ts[i].wcet = 0]

\* One unit later; the schedule is not followed past the first miss.
NextUnit(ts, policy, t, before) ==
    LET left == OneUnit(ts, policy, t, before.left)
    IN  IF before.met THEN [left |-> left, met |-> ~Misses(ts, t + 1, left)] ELSE before

\* No deadline in [0, horizon] is missed.
MeetsDeadlines(ts, policy, horizon) ==
    LET after[t \in 0 .. horizon] ==
          IF t = 0 THEN Start(ts) ELSE NextUnit(ts, policy, t - 1, after[t - 1])
    IN  after[horizon].met

\* How many jobs of task i are due by time d, and the work of all that are.
DueJobs(ts, i, d) ==
    IF d < ts[i].deadline THEN 0 ELSE (d - ts[i].deadline) \div ts[i].period + 1

WorkDue(ts, d) == MapThenSumSet(LAMBDA i : DueJobs(ts, i, d) * ts[i].wcet, DOMAIN ts)

LongestDeadline(ts) == Max({0} \cup {ts[i].deadline : i \in DOMAIN ts})

Hyperperiod(ts) ==
    LET product == FoldSet(LAMBDA i, p : ts[i].period * p, 1, DOMAIN ts)
    IN  Min({n \in 1 .. product : \A i \in DOMAIN ts : n % ts[i].period = 0})

(***************************************************************************)
(* With fixed priorities the first job of a task, released together with   *)
(* all the others, is the slowest.  Under EDF the schedule of one          *)
(* hyperperiod repeats, unless more work is released than fits, and then a *)
(* deadline is missed in it.                                               *)
(***************************************************************************)
Feasible(ts, policy) ==
    MeetsDeadlines(ts, policy,
                   IF policy = "edf" THEN Hyperperiod(ts) ELSE LongestDeadline(ts))
=============================================================================
