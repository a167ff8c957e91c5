----------------------- MODULE ScheduleFeasibilityProofs -----------------------
(***************************************************************************)
(* The three analyses for task sets of any size and times of any length.   *)
(*                                                                         *)
(* The first part is about task sets and schedules, whatever the analyses  *)
(* compute: when a task meets the response time test, when a set is        *)
(* overloaded, and what the schedule of Schedule.tla then does. Its        *)
(* results are FixedScheduleDecides (a schedule by fixed priorities meets  *)
(* its deadlines just if each task meets the test) and FitsIsFeasible and  *)
(* FeasibleFits (one by deadlines does just if no time is overloaded).     *)
(*                                                                         *)
(* The second part is about rm.c, dm.c and edf.c: that they compute those  *)
(* tests, what a sum rounded upwards does to them, and so what each        *)
(* verdict says of the schedule.                                           *)
(***************************************************************************)
EXTENDS ScheduleFeasibility, SumTheory

-----------------------------------------------------------------------------
(* The work that tasks release *)

\* Of each task, what it releases in a time: ceil(time / period) * wcet, one
\* job more for the tasks up.
Released(ts, time, up) ==
    [j \in DOMAIN ts |->
        (Ceil(time, ts[j].period) + IF j \in up THEN 1 ELSE 0) * ts[j].wcet]

LEMMA CeilFacts ==
    ASSUME NEW t \in Nat, NEW p \in Nat \ {0}
    PROVE  /\ Ceil(t, p) \in Nat
           /\ t <= Ceil(t, p) * p
           /\ t > 0 => Ceil(t, p) > 0
           /\ t > 0 /\ t <= p => Ceil(t, p) = 1
           /\ Ceil(0, p) = 0
  BY DEF Ceil

LEMMA CeilMonotone ==
    ASSUME NEW t \in Nat, NEW u \in Nat, t <= u, NEW p \in Nat \ {0}
    PROVE  Ceil(t, p) <= Ceil(u, p)
  BY DEF Ceil

LEMMA DemandIsSum ==
    ASSUME NEW js, js \subseteq Indices, IsFiniteSet(js), NEW time, NEW up
    PROVE  Demand(js, time, up) = SumOver(Released(tasks, time, up), js)
<1> DEFINE f == Released(tasks, time, up)
<1>1. \A it : it = [s \in SUBSET js |->
                      IF s = {} THEN 0
                      ELSE LET x == CHOOSE x \in s : TRUE
                           IN (Ceil(time, tasks[x].period) + IF x \in up THEN 1 ELSE 0)
                                  * tasks[x].wcet + it[s \ {x}]]
              <=> IsIter(it, "sum", f, js)
  BY DEF IsIter, Combine, Neutral, Released, Indices
<1> QED BY <1>1, IterExists, IterUnique
     DEF Demand, MapThenSumSet, MapThenFoldSet, SumOver, FoldOver

-----------------------------------------------------------------------------
(* The tests and the overload *)

TaskSet(ts) ==
    /\ ts \in Seq(Task)
    /\ \A i \in DOMAIN ts : ts[i].deadline <= ts[i].period

\* HigherPriority of rm.c and dm.c
HigherTasks(ts, key, i) ==
    {j \in DOMAIN ts : ts[j][key] < ts[i][key] \/ (ts[j][key] = ts[i][key] /\ j < i)}

\* By time a the work of a task and of those above it, all released together,
\* is done.
Done(ts, key, i, a) == ts[i].wcet + SumOver(Released(ts, a, {}), HigherTasks(ts, key, i)) <= a

Met(ts, key, i) == \E a \in Nat : a <= ts[i].deadline /\ Done(ts, key, i, a)

\* Some jobs, n[i] of each task i, are all due by d and are together more
\* work than d.
JobWork(ts, n) == [i \in DOMAIN ts |-> n[i] * ts[i].wcet]

OverloadedAt(ts, d) ==
    \E n \in [DOMAIN ts -> Nat] :
       /\ \A i \in DOMAIN ts : n[i] > 0 => ts[i].deadline + (n[i] - 1) * ts[i].period <= d
       /\ SumOver(JobWork(ts, n), DOMAIN ts) > d

LEMMA TaskFacts ==
    ASSUME NEW ts, TaskSet(ts)
    PROVE  /\ IsFiniteSet(DOMAIN ts) /\ DOMAIN ts \subseteq Nat
           /\ \A i \in DOMAIN ts :
                 /\ ts[i].wcet \in Nat /\ ts[i].deadline \in Nat
                 /\ ts[i].period \in Nat \ {0} /\ ts[i].deadline <= ts[i].period
<1>1. DOMAIN ts = 1 .. Len(ts) /\ Len(ts) \in Nat
  BY DEF TaskSet
<1>2. IsFiniteSet(DOMAIN ts)
  BY <1>1, FS_Interval
<1>3. \A i \in DOMAIN ts : ts[i] \in Task
  BY <1>1 DEF TaskSet
<1> QED BY <1>1, <1>2, <1>3 DEF Task, TaskSet

LEMMA ReleasedNat ==
    ASSUME NEW ts, TaskSet(ts), NEW a \in Nat, NEW i \in DOMAIN ts
    PROVE  /\ Released(ts, a, {})[i] = Ceil(a, ts[i].period) * ts[i].wcet
           /\ Released(ts, a, {})[i] \in Nat
<1>1. Ceil(a, ts[i].period) \in Nat /\ ts[i].wcet \in Nat
  BY TaskFacts, CeilFacts
<1>2. Released(ts, a, {})[i] = Ceil(a, ts[i].period) * ts[i].wcet
  BY <1>1 DEF Released
<1> QED BY <1>1, <1>2

\* Of some tasks, one is below all the others.
LEMMA LowestPriority ==
    ASSUME NEW ts, TaskSet(ts), NEW key \in {"period", "deadline"},
           NEW W, W \subseteq DOMAIN ts, W # {}
    PROVE  \E k \in W : W \ {k} \subseteq HigherTasks(ts, key, k)
<1>1. IsFiniteSet(W) /\ \A i \in W : i \in Nat /\ ts[i][key] \in Nat
  BY TaskFacts, FS_Subset
<1> DEFINE Below(k) == {j \in W : j \notin HigherTasks(ts, key, k)}
<1> DEFINE Q == {Below(k) : k \in W}
<1>2. PICK T \in Q : \A U \in Q : U \subseteq T => U = T
  <2>1. Q \subseteq SUBSET W /\ Q # {}
    OBVIOUS
  <2> HIDE DEF Q
  <2> QED BY <1>1, <2>1, MinimalSubset
<1>3. PICK k \in W : T = Below(k)
  OBVIOUS
<1>4. ASSUME NEW j \in W \ {k}, j \notin HigherTasks(ts, key, k) PROVE FALSE
  <2>1. k \in HigherTasks(ts, key, j)
    BY <1>1, <1>4 DEF HigherTasks
  <2>2. Below(j) \subseteq Below(k)
    <3> SUFFICES ASSUME NEW m \in W, m \notin HigherTasks(ts, key, j)
                 PROVE  m \notin HigherTasks(ts, key, k)
      OBVIOUS
    <3> QED BY <1>1, <2>1 DEF HigherTasks
  <2>3. k \in Below(k)
    BY <1>1 DEF HigherTasks
  <2>4. k \notin Below(j)
    BY <2>1
  <2>5. Below(j) \in Q
    OBVIOUS
  <2> QED BY <1>2, <1>3, <2>2, <2>3, <2>4, <2>5
<1> QED BY <1>4

LEMMA HigherAreTasks ==
    ASSUME NEW ts, TaskSet(ts), NEW key, NEW i \in DOMAIN ts
    PROVE  HigherTasks(ts, key, i) \subseteq DOMAIN ts /\ IsFiniteSet(HigherTasks(ts, key, i))
<1>1. HigherTasks(ts, key, i) \subseteq DOMAIN ts
  BY DEF HigherTasks
<1> QED BY <1>1, TaskFacts, FS_Subset

\* When the first job of a task is done by its deadline, so is all that the
\* tasks above it have released by then, and the task has released nothing more.
LEMMA FirstJobs ==
    ASSUME NEW ts, TaskSet(ts), NEW key \in {"period", "deadline"},
           NEW W, W \subseteq DOMAIN ts, NEW k \in W,
           W \ {k} \subseteq HigherTasks(ts, key, k), ts[k].wcet > 0,
           NEW a \in Nat, a <= ts[k].deadline,
           ts[k].wcet + SumOver(Released(ts, a, {}), HigherTasks(ts, key, k)) <= a
    PROVE  a > 0 /\ SumOver(Released(ts, a, {}), W) <= a
<1> DEFINE f == Released(ts, a, {})
<1> DEFINE H == HigherTasks(ts, key, k)
<1>1. \A i \in DOMAIN ts : f[i] \in Nat
  BY ReleasedNat
<1>2. ts[k].wcet \in Nat /\ ts[k].period \in Nat \ {0} /\ ts[k].deadline \in Nat
      /\ ts[k].deadline <= ts[k].period
  BY TaskFacts
<1>3. H \subseteq DOMAIN ts /\ IsFiniteSet(H)
  BY HigherAreTasks
<1>4. IsFiniteSet(W) /\ IsFiniteSet(W \ {k})
  BY TaskFacts, FS_Subset
<1>5. SumOver(f, H) \in Nat /\ SumOver(f, W) \in Nat /\ SumOver(f, W \ {k}) \in Nat
  <2> HIDE DEF f, H
  <2>1. \A i \in H : f[i] \in Nat
    BY <1>1, <1>3
  <2>2. \A i \in W : f[i] \in Nat
    BY <1>1
  <2> QED BY <1>3, <1>4, <2>1, <2>2, SumNat
<1>6. a > 0
  BY <1>2, <1>5
<1>7. f[k] = ts[k].wcet
  <2>1. Ceil(a, ts[k].period) = 1
    <3>1. a <= ts[k].period
      BY <1>2
    <3> QED BY <1>2, <1>6, <3>1, CeilFacts
  <2>2. f[k] = Ceil(a, ts[k].period) * ts[k].wcet
    BY ReleasedNat
  <2> QED BY <1>2, <2>1, <2>2
<1>8. SumOver(f, W \ {k}) <= SumOver(f, H)
  <2> HIDE DEF f
  <2>1. \A i \in W \ {k} : f[i] \in Nat /\ i \in H /\ f[i] <= f[i]
    BY <1>1
  <2>2. \A i \in H : f[i] \in Nat
    BY <1>1, <1>3
  <2> HIDE DEF H
  <2> QED BY <1>3, <1>4, <2>1, <2>2, SumWithin
<1>9. SumOver(f, W) = f[k] + SumOver(f, W \ {k})
  <2> HIDE DEF f
  <2>1. \A i \in W : f[i] \in Nat
    BY <1>1
  <2> QED BY <1>4, <2>1, SumRemove
<1> QED BY <1>2, <1>5, <1>6, <1>7, <1>8, <1>9

\* What meets its deadlines in rate monotonic order meets them in deadline
\* monotonic order: of the tasks that have work and are not below task i in the
\* second order, the lowest in the first is done by its own deadline, and all
\* the others with it.
LEMMA RateToDeadline ==
    ASSUME NEW ts, TaskSet(ts), \A k \in DOMAIN ts : Met(ts, "period", k),
           NEW i \in DOMAIN ts
    PROVE  Met(ts, "deadline", i)
<1> DEFINE H == HigherTasks(ts, "deadline", i)
<1> DEFINE W == {k \in H \cup {i} : ts[k].wcet > 0}
<1>1. H \subseteq DOMAIN ts /\ IsFiniteSet(H)
  BY HigherAreTasks
<1>2. W \subseteq DOMAIN ts
  BY <1>1
<1>3. IsFiniteSet(W)
  BY <1>2, TaskFacts, FS_Subset
<1>4. i \notin H
  BY TaskFacts DEF HigherTasks
<1>5. ts[i].wcet \in Nat /\ ts[i].deadline \in Nat /\ ts[i].period \in Nat \ {0}
      /\ ts[i].deadline <= ts[i].period
  BY TaskFacts
\* It is enough to find a time by which all of W is done.
<1>6. SUFFICES \E a \in Nat : /\ a <= ts[i].deadline
                              /\ W = {} \/ a > 0
                              /\ SumOver(Released(ts, a, {}), W) <= a
  <2>1. PICK a \in Nat : /\ a <= ts[i].deadline
                         /\ W = {} \/ a > 0
                         /\ SumOver(Released(ts, a, {}), W) <= a
    BY <1>6
  <2> DEFINE f == Released(ts, a, {})
  <2>2. \A k \in DOMAIN ts : f[k] \in Nat /\ f[k] = Ceil(a, ts[k].period) * ts[k].wcet
    BY ReleasedNat
  <2>3. ASSUME NEW k \in DOMAIN ts, f[k] > 0 PROVE ts[k].wcet > 0
    <3>1. ts[k].wcet \in Nat /\ Ceil(a, ts[k].period) \in Nat
      BY TaskFacts, CeilFacts
    <3>2. ts[k].wcet = 0 => f[k] = 0
      BY <2>2, <3>1
    <3> QED BY <2>3, <3>1, <3>2
  <2>4. SumOver(f, H) \in Nat /\ SumOver(f, W) \in Nat
    <3> HIDE DEF f, H, W
    <3>1. (\A k \in H : f[k] \in Nat) /\ (\A k \in W : f[k] \in Nat)
      BY <1>1, <1>2, <2>2
    <3> QED BY <1>1, <1>3, <3>1, SumNat
  <2>5. ts[i].wcet + SumOver(f, H) <= a
    <3>1. CASE ts[i].wcet = 0
      <4>1. \A k \in H : f[k] \in Nat /\ (f[k] > 0 => (k \in W /\ f[k] <= f[k]))
        BY <1>1, <2>2, <2>3
      <4>2. \A k \in W : f[k] \in Nat
        BY <1>2, <2>2
      <4>3. SumOver(f, H) <= SumOver(f, W)
        <5> HIDE DEF f, H, W
        <5> QED BY <1>1, <1>3, <4>1, <4>2, SumWithin
      <4> HIDE DEF f, H, W
      <4> QED BY <2>1, <2>4, <3>1, <4>3 DEF f
    <3>2. CASE ts[i].wcet > 0
      <4>1. i \in W
        BY <3>2
      <4>2. f[i] = ts[i].wcet
        <5>1. a > 0 /\ a <= ts[i].period
          BY <1>5, <2>1, <4>1
        <5>2. Ceil(a, ts[i].period) = 1
          BY <1>5, <5>1, CeilFacts
        <5> QED BY <1>5, <2>2, <5>2
      <4>3. \A k \in H : f[k] \in Nat /\ (f[k] > 0 => (k \in W \ {i} /\ f[k] <= f[k]))
        BY <1>1, <1>4, <2>2, <2>3
      <4>4. \A k \in W : f[k] \in Nat
        BY <1>2, <2>2
      <4>5. IsFiniteSet(W \ {i})
        BY <1>3, FS_Subset
      <4>6. SumOver(f, H) <= SumOver(f, W \ {i})
        <5> HIDE DEF f, H, W
        <5> QED BY <1>1, <4>3, <4>4, <4>5, SumWithin
      <4>7. SumOver(f, W) = f[i] + SumOver(f, W \ {i})
        <5> HIDE DEF f, H, W
        <5> QED BY <1>3, <4>1, <4>4, SumRemove
      <4>8. SumOver(f, W \ {i}) \in Nat
        <5> HIDE DEF f, H, W
        <5> QED BY <4>4, <4>5, SumNat
      <4>9. SumOver(f, W) <= a
        BY <2>1
      <4> HIDE DEF f, H, W
      <4> QED BY <1>5, <2>4, <4>2, <4>6, <4>7, <4>8, <4>9
    <3> QED BY <1>5, <3>1, <3>2
  <2> QED BY <2>1, <2>5 DEF Met, Done
<1>7. CASE W = {}
  <2>1. SumOver(Released(ts, 0, {}), W) = 0
    BY <1>7, SumEmpty
  <2>2. 0 <= ts[i].deadline
    BY <1>5
  <2> HIDE DEF W
  <2> QED BY <1>7, <2>1, <2>2
<1>8. CASE W # {}
  <2>1. PICK k \in W : W \ {k} \subseteq HigherTasks(ts, "period", k)
    <3> HIDE DEF W
    <3> QED BY <1>2, <1>8, LowestPriority
  <2>2. k \in DOMAIN ts /\ ts[k].wcet > 0
    BY <1>2
  <2>3. PICK a \in Nat :
           /\ a <= ts[k].deadline
           /\ ts[k].wcet + SumOver(Released(ts, a, {}), HigherTasks(ts, "period", k)) <= a
    BY <2>2 DEF Met, Done
  <2>4. a > 0 /\ SumOver(Released(ts, a, {}), W) <= a
    <3> HIDE DEF W
    <3> QED BY <1>2, <2>1, <2>2, <2>3, FirstJobs
  <2>5. ts[k].deadline <= ts[i].deadline /\ ts[k].deadline \in Nat
    BY <1>1, <2>2, TaskFacts DEF HigherTasks
  <2> HIDE DEF W
  <2> QED BY <1>5, <2>3, <2>4, <2>5
<1> QED BY <1>7, <1>8

LEMMA JobWorkNat ==
    ASSUME NEW ts, TaskSet(ts), NEW n \in [DOMAIN ts -> Nat], NEW i \in DOMAIN ts
    PROVE  /\ JobWork(ts, n)[i] = n[i] * ts[i].wcet
           /\ JobWork(ts, n)[i] \in Nat
<1>1. n[i] \in Nat /\ ts[i].wcet \in Nat
  BY TaskFacts
<1>2. JobWork(ts, n)[i] = n[i] * ts[i].wcet
  BY DEF JobWork
<1> QED BY <1>1, <1>2

\* What c jobs of a task leave of n, as work and as deadlines.
LEMMA JobsLeft ==
    ASSUME NEW n \in Nat, NEW c \in Nat, NEW C \in Nat, NEW T \in Nat \ {0},
           NEW D \in Nat, NEW d \in Nat, NEW a \in Nat,
           n > 0 => D + (n - 1) * T <= d, a <= c * T,
           NEW m \in Nat, m = IF n > c THEN n - c ELSE 0
    PROVE  /\ m > 0 => D + (m - 1) * T <= d - a
           /\ n * C <= c * C + m * C
<1>1. ASSUME m > 0 PROVE D + (m - 1) * T <= d - a
  <2>1. n > c /\ m - 1 = (n - 1) - c /\ n > 0
    BY <1>1
  <2>2. (m - 1) * T = (n - 1) * T - c * T
    BY <2>1
  <2>3. (n - 1) * T \in Int /\ c * T \in Int
    OBVIOUS
  <2> QED BY <2>1, <2>2, <2>3
<1>2. n * C <= c * C + m * C
  <2>1. CASE n > c
    <3>1. n = c + m
      BY <2>1
    <3>2. n * C = c * C + m * C
      BY <3>1
    <3>3. n * C \in Int
      OBVIOUS
    <3> QED BY <3>2, <3>3
  <2>2. CASE n <= c
    <3>1. n * C <= c * C
      BY <2>2
    <3>2. m * C = 0
      BY <2>2
    <3>3. n * C \in Int /\ c * C \in Int
      OBVIOUS
    <3> QED BY <3>1, <3>2, <3>3
  <2> QED BY <2>1, <2>2
<1> QED BY <1>1, <1>2

\* Of jobs that are all due by d, those that are more than what is released in
\* the first a units are due in the d - a units after them.
LEMMA OverloadLeft ==
    ASSUME NEW ts, TaskSet(ts), NEW a \in Nat, NEW d \in Nat, a <= d,
           NEW n \in [DOMAIN ts -> Nat],
           \A i \in DOMAIN ts : n[i] > 0 => ts[i].deadline + (n[i] - 1) * ts[i].period <= d
    PROVE  \E m \in [DOMAIN ts -> Nat] :
              /\ \A i \in DOMAIN ts :
                    m[i] > 0 => ts[i].deadline + (m[i] - 1) * ts[i].period <= d - a
              /\ \A i \in DOMAIN ts :
                    JobWork(ts, n)[i] <= Released(ts, a, {})[i] + JobWork(ts, m)[i]
<1> DEFINE c(i) == Ceil(a, ts[i].period)
<1> DEFINE m == [i \in DOMAIN ts |-> IF n[i] > c(i) THEN n[i] - c(i) ELSE 0]
<1>1. \A i \in DOMAIN ts : c(i) \in Nat /\ a <= c(i) * ts[i].period
  BY TaskFacts, CeilFacts
<1>2. m \in [DOMAIN ts -> Nat]
  <2> HIDE DEF c
  <2> QED BY <1>1
<1>3. ASSUME NEW i \in DOMAIN ts
      PROVE  /\ m[i] > 0 => ts[i].deadline + (m[i] - 1) * ts[i].period <= d - a
             /\ JobWork(ts, n)[i] <= Released(ts, a, {})[i] + JobWork(ts, m)[i]
  <2>1. n[i] \in Nat /\ m[i] \in Nat /\ c(i) \in Nat
    BY <1>1, <1>2
  <2>2. ts[i].wcet \in Nat /\ ts[i].deadline \in Nat /\ ts[i].period \in Nat \ {0}
    BY TaskFacts
  <2>3. m[i] = IF n[i] > c(i) THEN n[i] - c(i) ELSE 0
    BY DEF m
  <2>4. n[i] > 0 => ts[i].deadline + (n[i] - 1) * ts[i].period <= d
    OBVIOUS
  <2>5. a <= c(i) * ts[i].period
    BY <1>1
  <2> HIDE DEF m, c
  <2>6. /\ m[i] > 0 => ts[i].deadline + (m[i] - 1) * ts[i].period <= d - a
        /\ n[i] * ts[i].wcet <= c(i) * ts[i].wcet + m[i] * ts[i].wcet
    BY <2>1, <2>2, <2>3, <2>4, <2>5, JobsLeft
  <2>7. Released(ts, a, {})[i] = c(i) * ts[i].wcet
    BY ReleasedNat DEF c
  <2>8. JobWork(ts, n)[i] = n[i] * ts[i].wcet /\ JobWork(ts, m)[i] = m[i] * ts[i].wcet
    BY <1>2, JobWorkNat
  <2> QED BY <2>6, <2>7, <2>8
<1> HIDE DEF m
<1> QED BY <1>2, <1>3

\* What meets its deadlines in deadline monotonic order is never overloaded:
\* of the tasks whose jobs are counted, take the lowest. Its first job is done
\* by its deadline, at a time a. What the counted jobs are more than has been
\* released by a is due in the time after a, and is by induction no more than
\* fits there.
LEMMA DeadlineToNoOverload ==
    ASSUME NEW ts, TaskSet(ts), \A k \in DOMAIN ts : Met(ts, "deadline", k),
           NEW e \in Nat
    PROVE  ~ OverloadedAt(ts, e)
<1> DEFINE Q == {x \in Nat : OverloadedAt(ts, x)}
<1>1. SUFFICES ASSUME Q # {} PROVE FALSE
  OBVIOUS
<1>2. PICK d \in Q : \A m \in Q : d <= m
  <2>1. Q \subseteq Nat
    OBVIOUS
  <2> HIDE DEF Q
  <2> QED BY <1>1, <2>1, MinimalNat
<1>3. d \in Nat /\ \A x \in Nat : x < d => ~ OverloadedAt(ts, x)
  BY <1>2
<1>4. PICK n \in [DOMAIN ts -> Nat] :
         /\ \A i \in DOMAIN ts : n[i] > 0 => ts[i].deadline + (n[i] - 1) * ts[i].period <= d
         /\ SumOver(JobWork(ts, n), DOMAIN ts) > d
  BY <1>2 DEF OverloadedAt
<1> HIDE DEF Q
<1> DEFINE f == JobWork(ts, n)
<1> DEFINE W == {i \in DOMAIN ts : n[i] > 0 /\ ts[i].wcet > 0}
<1>5. \A i \in DOMAIN ts : f[i] \in Nat /\ f[i] = n[i] * ts[i].wcet
  BY JobWorkNat
<1>6. IsFiniteSet(DOMAIN ts) /\ IsFiniteSet(W) /\ W \subseteq DOMAIN ts
  BY TaskFacts, FS_Subset
<1>7. SumOver(f, DOMAIN ts) <= SumOver(f, W)
  <2>1. \A i \in DOMAIN ts : f[i] > 0 => (i \in W /\ f[i] <= f[i])
    <3>1. TAKE i \in DOMAIN ts
    <3>2. n[i] \in Nat /\ ts[i].wcet \in Nat
      BY TaskFacts
    <3>3. (n[i] = 0 \/ ts[i].wcet = 0) => f[i] = 0
      BY <1>5, <3>2
    <3> HIDE DEF f
    <3> QED BY <1>5, <3>2, <3>3
  <2>2. \A i \in W : f[i] \in Nat
    BY <1>5
  <2> HIDE DEF f, W
  <2> QED BY <1>5, <1>6, <2>1, <2>2, SumWithin
<1>8. SumOver(f, DOMAIN ts) \in Nat /\ SumOver(f, W) \in Nat
  <2>1. \A i \in W : f[i] \in Nat
    BY <1>5
  <2> HIDE DEF f, W
  <2> QED BY <1>5, <1>6, <2>1, SumNat
<1>9. SumOver(f, W) > d
  <2> HIDE DEF f, W
  <2>1. SumOver(f, DOMAIN ts) > d
    BY <1>4 DEF f
  <2> QED BY <1>3, <1>7, <1>8, <2>1
<1>10. W # {}
  <2>1. ASSUME W = {} PROVE FALSE
    <3>1. SumOver(f, W) = 0
      BY <2>1, SumEmpty
    <3> HIDE DEF f, W
    <3> QED BY <1>3, <1>9, <3>1
  <2> QED BY <2>1
<1>11. PICK k \in W : W \ {k} \subseteq HigherTasks(ts, "deadline", k)
  <2> HIDE DEF W
  <2> QED BY <1>6, <1>10, LowestPriority
<1>12. k \in DOMAIN ts /\ ts[k].wcet > 0 /\ n[k] > 0 /\ n[k] \in Nat
  BY <1>11
<1>13. PICK a \in Nat :
          /\ a <= ts[k].deadline
          /\ ts[k].wcet + SumOver(Released(ts, a, {}), HigherTasks(ts, "deadline", k)) <= a
  BY <1>12 DEF Met, Done
<1> DEFINE g == Released(ts, a, {})
<1>14. a > 0 /\ SumOver(g, W) <= a
  <2> HIDE DEF W
  <2> QED BY <1>6, <1>11, <1>12, <1>13, FirstJobs
<1>15. a <= d
  <2>1. ts[k].deadline \in Nat /\ ts[k].period \in Nat /\ n[k] - 1 \in Nat
    BY <1>12, TaskFacts
  <2>2. (n[k] - 1) * ts[k].period \in Nat
    BY <2>1
  <2>3. ts[k].deadline + (n[k] - 1) * ts[k].period <= d
    BY <1>4, <1>12
  <2> QED BY <1>3, <1>13, <2>1, <2>2, <2>3
<1>16. PICK m \in [DOMAIN ts -> Nat] :
          /\ \A i \in DOMAIN ts :
                m[i] > 0 => ts[i].deadline + (m[i] - 1) * ts[i].period <= d - a
          /\ \A i \in DOMAIN ts :
                JobWork(ts, n)[i] <= Released(ts, a, {})[i] + JobWork(ts, m)[i]
  BY <1>3, <1>4, <1>13, <1>15, OverloadLeft
<1> DEFINE r == JobWork(ts, m)
<1>17. \A i \in DOMAIN ts : f[i] \in Nat /\ g[i] \in Nat /\ r[i] \in Nat
  BY JobWorkNat, ReleasedNat
<1>18. \A i \in DOMAIN ts : f[i] <= g[i] + r[i]
  BY <1>16
<1>19. SumOver(f, W) <= SumOver(g, W) + SumOver(r, W)
  <2>1. \A i \in W : f[i] \in Nat /\ g[i] \in Nat /\ r[i] \in Nat /\ f[i] <= g[i] + r[i]
    BY <1>17, <1>18
  <2> HIDE DEF f, g, r, W
  <2> QED BY <1>6, <2>1, SumAdd
<1>20. SumOver(r, W) <= SumOver(r, DOMAIN ts)
  <2>1. \A i \in W : r[i] \in Nat /\ (r[i] > 0 => (i \in DOMAIN ts /\ r[i] <= r[i]))
    BY <1>17
  <2>2. \A i \in DOMAIN ts : r[i] \in Nat
    BY <1>17
  <2> HIDE DEF r, W
  <2> QED BY <1>6, <2>1, <2>2, SumWithin
<1>21. SumOver(g, W) \in Nat /\ SumOver(r, W) \in Nat /\ SumOver(r, DOMAIN ts) \in Nat
  <2>1. \A i \in DOMAIN ts : g[i] \in Nat /\ r[i] \in Nat
    BY <1>17
  <2> HIDE DEF g, r
  <2>2. \A i \in W : g[i] \in Nat /\ r[i] \in Nat
    BY <2>1
  <2> HIDE DEF W
  <2> QED BY <1>6, <2>1, <2>2, SumNat
<1>22. SumOver(r, DOMAIN ts) <= d - a
  <2>1. d - a \in Nat /\ d - a < d
    BY <1>3, <1>14, <1>15
  <2>2. ~ OverloadedAt(ts, d - a)
    BY <1>3, <2>1
  <2>3. ~ (SumOver(r, DOMAIN ts) > d - a)
    BY <1>16, <2>2 DEF OverloadedAt
  <2> HIDE DEF r
  <2> QED BY <1>21, <2>1, <2>3
<1> HIDE DEF f, g, r, W
<1> QED BY <1>3, <1>8, <1>9, <1>14, <1>15, <1>19, <1>20, <1>21, <1>22

-----------------------------------------------------------------------------
(* The run of a schedule *)

\* What MeetsDeadlines builds: the state of the schedule at each time.
IsRun(ts, policy, horizon, run) ==
    run = [t \in 0 .. horizon |->
              IF t = 0 THEN Start(ts) ELSE NextUnit(ts, policy, t - 1, run[t - 1])]

LEMMA RunExists ==
    ASSUME NEW ts, NEW policy, NEW horizon \in Nat
    PROVE  \E run : IsRun(ts, policy, horizon, run)
<1> DEFINE Q == {k \in 0 .. horizon : ~ \E run : IsRun(ts, policy, k, run)}
<1>1. SUFFICES ASSUME Q # {} PROVE FALSE
  <2>1. horizon \notin Q
    BY <1>1
  <2> QED BY <2>1
<1>2. PICK k \in Q : \A m \in Q : k <= m
  <2>1. Q \subseteq Nat
    OBVIOUS
  <2> HIDE DEF Q
  <2> QED BY <1>1, <2>1, MinimalNat
<1>3. CASE k = 0
  <2> DEFINE run == [t \in 0 .. 0 |-> Start(ts)]
  <2>1. IsRun(ts, policy, 0, run)
    BY DEF IsRun
  <2> QED BY <1>2, <1>3, <2>1
<1>4. CASE k > 0
  <2>1. k - 1 \in 0 .. horizon /\ k - 1 < k /\ k \in Nat
    BY <1>2, <1>4
  <2>2. PICK old : IsRun(ts, policy, k - 1, old)
    <3>1. k - 1 \notin Q
      <4> HIDE DEF Q
      <4> QED BY <1>2, <2>1
    <3> QED BY <2>1, <3>1
  <2> DEFINE run == [t \in 0 .. k |->
                        IF t = k THEN NextUnit(ts, policy, k - 1, old[k - 1]) ELSE old[t]]
  <2>3. \A t \in 0 .. k - 1 :
           old[t] = IF t = 0 THEN Start(ts) ELSE NextUnit(ts, policy, t - 1, old[t - 1])
    BY <2>2 DEF IsRun
  <2>4. ASSUME NEW t \in 0 .. k
        PROVE  run[t] = IF t = 0 THEN Start(ts) ELSE NextUnit(ts, policy, t - 1, run[t - 1])
    <3>1. CASE t = k
      <4>1. k - 1 \in 0 .. k /\ k - 1 # k /\ k # 0 /\ k \in 0 .. k
        BY <2>1, <1>4
      <4> QED BY <3>1, <4>1
    <3>2. CASE t # k
      <4>1. t \in 0 .. k - 1 /\ (t # 0 => (t - 1 \in 0 .. k /\ t - 1 # k))
        BY <2>1, <3>2
      <4> QED BY <2>3, <3>2, <4>1
    <3> QED BY <3>1, <3>2
  <2>5. IsRun(ts, policy, k, run)
    BY <2>4 DEF IsRun
  <2> QED BY <1>2, <2>5
<1> QED BY <1>2, <1>3, <1>4

\* A schedule that misses no deadline before the horizon: the work that is left
\* of each task at each time.
Follows(ts, policy, horizon, left) ==
    /\ \A i \in DOMAIN ts : ts[i].deadline = 0 => ts[i].wcet = 0
    /\ left[0] = [i \in DOMAIN ts |-> 0]
    /\ \A t \in 0 .. horizon - 1 : /\ left[t + 1] = OneUnit(ts, policy, t, left[t])
                                   /\ ~Misses(ts, t, left[t])

LEMMA RunFollows ==
    ASSUME NEW ts, TaskSet(ts), NEW policy, NEW horizon \in Nat, NEW run,
           IsRun(ts, policy, horizon, run), NEW m \in 0 .. horizon,
           \A t \in 0 .. m - 1 : run[t].met, run[0].met
    PROVE  /\ Follows(ts, policy, m, [t \in 0 .. m |-> run[t].left])
           /\ m > 0 => (run[m].met <=> ~Misses(ts, m, run[m].left))
<1> DEFINE left == [t \in 0 .. m |-> run[t].left]
<1>1. \A t \in 0 .. horizon :
         run[t] = IF t = 0 THEN Start(ts) ELSE NextUnit(ts, policy, t - 1, run[t - 1])
  BY DEF IsRun
<1>2. run[0] = Start(ts) /\ 0 \in 0 .. m
  BY <1>1
<1>3. ASSUME NEW t \in 0 .. m - 1
      PROVE  /\ run[t + 1].left = OneUnit(ts, policy, t, run[t].left)
             /\ run[t + 1].met <=> ~Misses(ts, t + 1, run[t + 1].left)
             /\ t \in 0 .. m /\ t + 1 \in 0 .. m
  <2>1. t + 1 \in 0 .. horizon /\ t + 1 # 0 /\ (t + 1) - 1 = t /\ t \in 0 .. m /\ t + 1 \in 0 .. m
    OBVIOUS
  <2>2. run[t + 1] = NextUnit(ts, policy, t, run[t])
    BY <1>1, <2>1
  <2>3. run[t].met
    OBVIOUS
  <2>4. run[t + 1] = [left |-> OneUnit(ts, policy, t, run[t].left),
                      met  |-> ~Misses(ts, t + 1, OneUnit(ts, policy, t, run[t].left))]
    BY <2>2, <2>3, Zenon DEF NextUnit
  <2>5. run[t + 1].left = OneUnit(ts, policy, t, run[t].left)
        /\ run[t + 1].met = ~Misses(ts, t + 1, OneUnit(ts, policy, t, run[t].left))
    <3> DEFINE x == OneUnit(ts, policy, t, run[t].left)
    <3> DEFINE y == ~Misses(ts, t + 1, x)
    <3>1. run[t + 1] = [left |-> x, met |-> y]
      BY <2>4
    <3> HIDE DEF x, y
    <3>2. run[t + 1].left = x /\ run[t + 1].met = y
      BY <3>1
    <3> QED BY <3>2, Zenon DEF x, y
  <2>6. run[t + 1].met <=> ~Misses(ts, t + 1, run[t + 1].left)
    BY <2>5, Zenon
  <2> QED BY <2>1, <2>5, <2>6
<1>4. left[0] = [i \in DOMAIN ts |-> 0]
      /\ \A i \in DOMAIN ts : ts[i].deadline = 0 => ts[i].wcet = 0
  BY <1>2 DEF Start
<1>5. ASSUME NEW t \in 0 .. m - 1
      PROVE  left[t + 1] = OneUnit(ts, policy, t, left[t]) /\ ~Misses(ts, t, left[t])
  <2>1. left[t + 1] = OneUnit(ts, policy, t, left[t])
    BY <1>3
  <2>2. CASE t = 0
    <3>1. \A i \in DOMAIN ts : ~(left[0][i] > 0)
      <4> HIDE DEF left
      <4> QED BY <1>4
    <3> QED BY <2>1, <2>2, <3>1 DEF Misses
  <2>3. CASE t > 0
    <3>1. t - 1 \in 0 .. m - 1 /\ (t - 1) + 1 = t
      BY <2>3
    <3>2. run[t].met <=> ~Misses(ts, t, run[t].left)
      BY <1>3, <3>1
    <3> QED BY <1>3, <2>1, <3>2
  <2> QED BY <2>1, <2>2, <2>3
<1>6. ASSUME m > 0 PROVE run[m].met <=> ~Misses(ts, m, run[m].left)
  <2>1. m - 1 \in 0 .. m - 1 /\ (m - 1) + 1 = m
    BY <1>6
  <2> QED BY <1>3, <2>1
<1> QED BY <1>4, <1>5, <1>6 DEF Follows

-----------------------------------------------------------------------------
(* Releases *)

\* Time t is m after the release of job q.
At(t, p, q, m) == q \in Nat /\ m \in 0 .. p - 1 /\ t = p * q + m

LEMMA CeilAt ==
    ASSUME NEW p \in Nat \ {0}, NEW t, NEW q, NEW m, At(t, p, q, m)
    PROVE  t % p = m /\ Ceil(t, p) = IF m = 0 THEN q ELSE q + 1
<1>1. q \in Nat /\ m \in 0 .. p - 1 /\ t = p * q + m /\ p * q \in Nat
  BY DEF At
<1>2. t % p = m
  BY <1>1, DivUnique
<1>3. CASE m = 0
  <2> DEFINE x == t + p - 1
  <2> DEFINE j == p - 1
  <2>1. x = p * q + j /\ q \in Int /\ j \in 0 .. p - 1 /\ x \in Int
    BY <1>1, <1>3
  <2>2. x \div p = q
    <3> HIDE DEF x, j
    <3> QED BY <2>1, DivUnique
  <2> QED BY <1>2, <1>3, <2>2 DEF Ceil
<1>4. CASE m # 0
  <2>1. p * (q + 1) = p * q + p
    BY <1>1
  <2> DEFINE x == t + p - 1
  <2> DEFINE k == q + 1
  <2> DEFINE j == m - 1
  <2>2. x = p * k + j /\ k \in Int /\ j \in 0 .. p - 1 /\ x \in Int
    BY <1>1, <1>4, <2>1
  <2>3. x \div p = k
    <3> HIDE DEF x, k, j
    <3> QED BY <2>2, DivUnique
  <2> QED BY <1>2, <1>4, <2>3 DEF Ceil
<1> QED BY <1>3, <1>4

LEMMA EachTimeIsAt ==
    ASSUME NEW t \in Nat, NEW p \in Nat \ {0}
    PROVE  \E q \in Nat, m \in 0 .. p - 1 : At(t, p, q, m)
<1>1. t = p * (t \div p) + (t % p) /\ t \div p \in Nat /\ t % p \in 0 .. p - 1
  OBVIOUS
<1> QED BY <1>1 DEF At

\* A unit later it is one further in the period, or begins one.
LEMMA NextAt ==
    ASSUME NEW p \in Nat \ {0}, NEW t, NEW q, NEW m, At(t, p, q, m)
    PROVE  At(t + 1, p, IF m + 1 = p THEN q + 1 ELSE q, IF m + 1 = p THEN 0 ELSE m + 1)
<1>1. p * (q + 1) = p * q + p /\ p * q \in Nat
  BY DEF At
<1> QED BY <1>1 DEF At

LEMMA NextInPeriod ==
    ASSUME NEW t \in Nat, NEW p \in Nat \ {0}
    PROVE  /\ (t + 1) % p = IF (t % p) + 1 = p THEN 0 ELSE (t % p) + 1
           /\ Ceil(t + 1, p) = Ceil(t, p) + IF t % p = 0 THEN 1 ELSE 0
<1>1. PICK q \in Nat, m \in 0 .. p - 1 : At(t, p, q, m)
  BY EachTimeIsAt
<1>2. t % p = m /\ Ceil(t, p) = IF m = 0 THEN q ELSE q + 1
  BY <1>1, CeilAt
<1>3. CASE m + 1 = p
  <2>1. At(t + 1, p, q + 1, 0)
    BY <1>1, <1>3, NextAt
  <2>2. (t + 1) % p = 0 /\ Ceil(t + 1, p) = q + 1
    BY <2>1, CeilAt
  <2> QED BY <1>2, <1>3, <2>2
<1>4. CASE m + 1 # p
  <2>1. At(t + 1, p, q, m + 1)
    BY <1>1, <1>4, NextAt
  <2>2. (t + 1) % p = m + 1 /\ Ceil(t + 1, p) = q + 1
    BY <2>1, CeilAt
  <2> QED BY <1>2, <1>4, <2>2
<1> QED BY <1>3, <1>4

\* In an interval no more jobs are released than in one as long that begins
\* with a release.
LEMMA CeilSum ==
    ASSUME NEW s \in Nat, NEW a \in Nat, NEW p \in Nat \ {0}
    PROVE  Ceil(s + a, p) <= Ceil(s, p) + Ceil(a, p)
<1>1. PICK q \in Nat, m \in 0 .. p - 1 : At(s, p, q, m)
  BY EachTimeIsAt
<1>2. PICK u \in Nat, n \in 0 .. p - 1 : At(a, p, u, n)
  BY EachTimeIsAt
<1>3. /\ Ceil(s, p) = IF m = 0 THEN q ELSE q + 1
      /\ Ceil(a, p) = IF n = 0 THEN u ELSE u + 1
  BY <1>1, <1>2, CeilAt
<1>4. /\ p * q \in Nat /\ p * u \in Nat /\ p * (q + u) = p * q + p * u
      /\ p * (q + u + 1) = p * q + p * u + p
  OBVIOUS
<1>5. CASE m + n < p
  <2>1. At(s + a, p, q + u, m + n)
    BY <1>1, <1>2, <1>4, <1>5 DEF At
  <2>2. Ceil(s + a, p) = IF m + n = 0 THEN q + u ELSE q + u + 1
    BY <2>1, CeilAt
  <2> QED BY <1>3, <2>2
<1>6. CASE m + n >= p
  <2>1. At(s + a, p, q + u + 1, m + n - p)
    BY <1>1, <1>2, <1>4, <1>6 DEF At
  <2>2. Ceil(s + a, p) = IF m + n - p = 0 THEN q + u + 1 ELSE q + u + 1 + 1
    BY <2>1, CeilAt
  <2>3. m > 0 /\ n > 0
    BY <1>6
  <2> QED BY <1>3, <2>2, <2>3
<1> QED BY <1>5, <1>6

\* Between a release and the next one there is none.
LEMMA NextRelease ==
    ASSUME NEW r \in Nat, NEW p \in Nat \ {0}, r % p = 0, NEW c \in Nat, r < c, c <= r + p
    PROVE  Ceil(c, p) = Ceil(r, p) + 1 /\ (c < r + p => c % p = c - r)
<1>1. PICK q \in Nat, m \in 0 .. p - 1 : At(r, p, q, m)
  BY EachTimeIsAt
<1>2. m = 0 /\ Ceil(r, p) = q
  BY <1>1, CeilAt
<1>3. p * q \in Nat /\ p * (q + 1) = p * q + p
  OBVIOUS
<1>4. CASE c < r + p
  <2>1. At(c, p, q, c - r)
    BY <1>1, <1>2, <1>3, <1>4 DEF At
  <2>2. c % p = c - r /\ Ceil(c, p) = q + 1
    BY <2>1, CeilAt
  <2> QED BY <1>2, <2>2
<1>5. CASE c = r + p
  <2>1. At(c, p, q + 1, 0)
    BY <1>1, <1>2, <1>3, <1>5 DEF At
  <2>2. Ceil(c, p) = q + 1
    BY <2>1, CeilAt
  <2> QED BY <1>2, <1>5, <2>2
<1> QED BY <1>4, <1>5

-----------------------------------------------------------------------------
(* One unit of the schedule *)

LEMMA RankNat ==
    ASSUME NEW ts, TaskSet(ts), NEW policy \in {"edf", "rm", "dm"}, NEW t \in Nat,
           NEW i \in DOMAIN ts
    PROVE  Rank(ts, policy, i, t) \in Nat
<1>1. ts[i].deadline \in Nat /\ ts[i].period \in Nat \ {0}
  BY TaskFacts
<1>2. Release(ts, i, t) \in Nat
  <2>1. PICK q \in Nat, m \in 0 .. ts[i].period - 1 : At(t, ts[i].period, q, m)
    BY <1>1, EachTimeIsAt
  <2>2. t % ts[i].period = m
    BY <1>1, <2>1, CeilAt
  <2>3. ts[i].period * q \in Nat
    BY <1>1
  <2> QED BY <2>1, <2>2, <2>3 DEF At, Release
<1>3. CASE policy = "edf"
  BY <1>1, <1>2, <1>3 DEF Rank
<1>4. CASE policy = "rm"
  BY <1>1, <1>4 DEF Rank
<1>5. CASE policy = "dm"
  BY <1>1, <1>5 DEF Rank
<1> QED BY <1>3, <1>4, <1>5

\* Of some tasks, one comes before all the others.
LEMMA FirstExists ==
    ASSUME NEW ts, TaskSet(ts), NEW policy \in {"edf", "rm", "dm"}, NEW t \in Nat,
           NEW W, W \subseteq DOMAIN ts, W # {}
    PROVE  \E k \in W : \A j \in W \ {k} : Before(ts, policy, t, k, j)
<1> DEFINE r(i) == Rank(ts, policy, i, t)
<1>1. \A i \in W : r(i) \in Nat /\ i \in Nat
  BY RankNat, TaskFacts
<1>2. PICK i \in W : \A j \in W : r(i) <= r(j)
  <2> DEFINE Q == {r(i) : i \in W}
  <2>1. Q \subseteq Nat /\ Q # {}
    BY <1>1
  <2>2. PICK x \in Q : \A y \in Q : x <= y
    <3> HIDE DEF Q
    <3> QED BY <2>1, MinimalNat
  <2> QED BY <2>2
<1>3. PICK k \in W : r(k) = r(i) /\ \A j \in W : r(j) = r(i) => k <= j
  <2> DEFINE Q == {j \in W : r(j) = r(i)}
  <2>1. Q \subseteq Nat /\ Q # {}
    BY <1>1
  <2>2. PICK x \in Q : \A y \in Q : x <= y
    <3> HIDE DEF Q
    <3> QED BY <2>1, MinimalNat
  <2> QED BY <2>2
<1>4. ASSUME NEW j \in W \ {k} PROVE Before(ts, policy, t, k, j)
  <2>1. r(k) <= r(j) /\ (r(j) = r(k) => k <= j) /\ j # k
    BY <1>2, <1>3
  <2>2. r(k) \in Nat /\ r(j) \in Nat /\ k \in Nat /\ j \in Nat
    BY <1>1
  <2>3. r(k) < r(j) \/ (r(k) = r(j) /\ k < j)
    <3> HIDE DEF r
    <3> QED BY <2>1, <2>2
  <2> QED BY <2>3 DEF Before
<1> QED BY <1>4

\* The work that is there in the unit that begins at t.
WorkAt(ts, t, left) ==
    [i \in DOMAIN ts |-> IF t % ts[i].period = 0 THEN ts[i].wcet ELSE left[i]]

\* The unit goes to a task that no other with work comes before.
Serves(ts, policy, t, work, next, f) ==
    /\ f \in DOMAIN ts /\ work[f] > 0
    /\ \A j \in DOMAIN ts : j # f /\ work[j] > 0 => Before(ts, policy, t, f, j)
    /\ next = [work EXCEPT ![f] = @ - 1]

LEMMA UnitServes ==
    ASSUME NEW ts, TaskSet(ts), NEW policy \in {"edf", "rm", "dm"}, NEW t \in Nat, NEW left
    PROVE  LET work == WorkAt(ts, t, left)
               next == OneUnit(ts, policy, t, left)
           IN  \/ next = work /\ \A i \in DOMAIN ts : ~(work[i] > 0)
               \/ \E f : Serves(ts, policy, t, work, next, f)
<1> DEFINE work == WorkAt(ts, t, left)
<1> DEFINE pending == {i \in DOMAIN ts : work[i] > 0}
<1> DEFINE first == CHOOSE i \in pending :
                      \A j \in pending \ {i} : Before(ts, policy, t, i, j)
<1>1. OneUnit(ts, policy, t, left)
      = IF pending = {} THEN work ELSE [work EXCEPT ![first] = @ - 1]
  BY DEF OneUnit, WorkAt
<1>2. CASE pending = {}
  BY <1>1, <1>2
<1>3. CASE pending # {}
  <2>1. \E i \in pending : \A j \in pending \ {i} : Before(ts, policy, t, i, j)
    <3>1. pending \subseteq DOMAIN ts
      OBVIOUS
    <3> HIDE DEF pending
    <3> QED BY <1>3, <3>1, FirstExists
  <2>2. first \in pending /\ \A j \in pending \ {first} : Before(ts, policy, t, first, j)
    <3> HIDE DEF pending
    <3> QED BY <2>1
  <2>3. Serves(ts, policy, t, work, OneUnit(ts, policy, t, left), first)
    BY <1>1, <1>3, <2>2 DEF Serves
  <2> QED BY <2>3
<1> QED BY <1>2, <1>3

-----------------------------------------------------------------------------
(* A schedule that has missed no deadline *)

Policies == {"edf", "rm", "dm"}

LEMMA WorkFacts ==
    ASSUME NEW ts, TaskSet(ts), NEW t \in Nat, NEW left,
           \A i \in DOMAIN ts : left[i] \in Nat /\ left[i] <= ts[i].wcet, NEW i \in DOMAIN ts
    PROVE  /\ WorkAt(ts, t, left)[i] = IF t % ts[i].period = 0 THEN ts[i].wcet ELSE left[i]
           /\ WorkAt(ts, t, left)[i] \in Nat /\ WorkAt(ts, t, left)[i] <= ts[i].wcet
  BY TaskFacts DEF WorkAt

\* In a unit each task keeps its work, or is served and has one less.
LEMMA UnitFacts ==
    ASSUME NEW ts, TaskSet(ts), NEW policy \in Policies, NEW t \in Nat, NEW left,
           \A i \in DOMAIN ts : left[i] \in Nat /\ left[i] <= ts[i].wcet, NEW i \in DOMAIN ts
    PROVE  /\ OneUnit(ts, policy, t, left)[i] \in Nat
           /\ \/ OneUnit(ts, policy, t, left)[i] = WorkAt(ts, t, left)[i]
              \/ OneUnit(ts, policy, t, left)[i] = WorkAt(ts, t, left)[i] - 1
           /\ OneUnit(ts, policy, t, left)[i] <= ts[i].wcet
<1> DEFINE work == WorkAt(ts, t, left)
<1> DEFINE next == OneUnit(ts, policy, t, left)
<1>1. work[i] \in Nat /\ work[i] <= ts[i].wcet /\ DOMAIN work = DOMAIN ts /\ ts[i].wcet \in Nat
  BY WorkFacts, TaskFacts DEF WorkAt
<1>2. next = work \/ \E f : Serves(ts, policy, t, work, next, f)
  BY UnitServes DEF Policies
<1> HIDE DEF work, next
<1>3. next[i] = work[i] \/ (work[i] > 0 /\ next[i] = work[i] - 1)
  BY <1>1, <1>2 DEF Serves
<1>4. next[i] \in Nat /\ (next[i] = work[i] \/ next[i] = work[i] - 1) /\ next[i] <= ts[i].wcet
  BY <1>1, <1>3
<1> QED BY <1>4 DEF work, next

LEMMA LeftFacts ==
    ASSUME NEW ts, TaskSet(ts), NEW policy \in Policies, NEW horizon \in Nat, NEW left,
           Follows(ts, policy, horizon, left)
    PROVE  \A t \in 0 .. horizon : \A i \in DOMAIN ts :
              left[t][i] \in Nat /\ left[t][i] <= ts[i].wcet
<1> DEFINE Q == {t \in 0 .. horizon : \A i \in DOMAIN ts :
                    left[t][i] \in Nat /\ left[t][i] <= ts[i].wcet}
<1>1. 0 \in Q
  <2>1. \A i \in DOMAIN ts : left[0][i] = 0 /\ ts[i].wcet \in Nat
    BY TaskFacts DEF Follows
  <2> QED BY <2>1
<1>2. ASSUME NEW t \in 0 .. horizon - 1, t \in Q PROVE t + 1 \in Q
  <2>1. left[t + 1] = OneUnit(ts, policy, t, left[t]) /\ t \in Nat
    BY DEF Follows
  <2>2. \A i \in DOMAIN ts : left[t][i] \in Nat /\ left[t][i] <= ts[i].wcet
    BY <1>2
  <2>3. \A i \in DOMAIN ts : left[t + 1][i] \in Nat /\ left[t + 1][i] <= ts[i].wcet
    BY <2>1, <2>2, UnitFacts
  <2> QED BY <2>3
<1>3. \A t \in 0 .. horizon : t \in Q
  <2> HIDE DEF Q
  <2> QED BY <1>1, <1>2, StepByStep
<1> QED BY <1>3

\* When a deadline is due.
LEMMA Due ==
    ASSUME NEW t \in Nat, NEW p \in Nat \ {0}, NEW d \in Nat, d <= p,
           t % p = d \/ (t % p = 0 /\ d = p /\ t > 0)
    PROVE  t >= d /\ (t - d) % p = 0
<1>1. PICK q \in Nat, m \in 0 .. p - 1 : At(t, p, q, m)
  BY EachTimeIsAt
<1>2. t % p = m
  BY <1>1, CeilAt
<1>3. t = p * q + m /\ p * q \in Nat
  BY <1>1 DEF At
<1>4. CASE m = d
  <2>1. At(t - d, p, q, 0)
    BY <1>3, <1>4 DEF At
  <2> QED BY <1>3, <1>4, <2>1, CeilAt
<1>5. CASE m = 0 /\ d = p /\ t > 0
  <2>1. q # 0
    BY <1>3, <1>5
  <2>2. p * (q - 1) = p * q - p /\ q - 1 \in Nat /\ p * (q - 1) \in Nat
    BY <2>1
  <2>3. At(t - d, p, q - 1, 0) /\ t >= d
    BY <1>3, <1>5, <2>2 DEF At
  <2> QED BY <2>3, CeilAt
<1> QED BY <1>2, <1>4, <1>5

\* From its deadline to its next release a task has nothing left.
LEMMA NothingLeft ==
    ASSUME NEW ts, TaskSet(ts), NEW policy \in Policies, NEW horizon \in Nat, NEW left,
           Follows(ts, policy, horizon, left), NEW i \in DOMAIN ts
    PROVE  \A t \in 0 .. horizon - 1 :
              t % ts[i].period = 0 \/ t % ts[i].period >= ts[i].deadline => left[t][i] = 0
<1> DEFINE p == ts[i].period
<1> DEFINE d == ts[i].deadline
<1> DEFINE Q == {t \in 0 .. horizon - 1 : t % p = 0 \/ t % p >= d => left[t][i] = 0}
<1>a. /\ p \in Nat \ {0} /\ d \in Nat /\ d <= p /\ ts[i].wcet \in Nat
      /\ d = 0 => ts[i].wcet = 0
  BY TaskFacts DEF Follows
<1>1. SUFFICES ASSUME horizon > 0 PROVE \A t \in 0 .. horizon - 1 : t \in Q
  OBVIOUS
<1>2. 0 \in Q
  BY <1>1 DEF Follows
<1>3. ASSUME NEW t \in 0 .. (horizon - 1) - 1, t \in Q PROVE t + 1 \in Q
  <2>1. t \in 0 .. horizon - 1 /\ t + 1 \in 0 .. horizon - 1 /\ t \in Nat /\ t \in 0 .. horizon
    OBVIOUS
  <2>2. \A j \in DOMAIN ts : left[t][j] \in Nat /\ left[t][j] <= ts[j].wcet
    BY <2>1, LeftFacts
  <2>3. /\ left[t + 1] = OneUnit(ts, policy, t, left[t])
        /\ ~ Misses(ts, t + 1, left[t + 1])
    BY <2>1 DEF Follows
  <2> DEFINE x == left[t + 1][i]
  <2> DEFINE y == WorkAt(ts, t, left[t])[i]
  <2> DEFINE m == t % p
  <2> DEFINE n == (t + 1) % p
  <2>4. x \in Nat /\ (x = y \/ x = y - 1)
    BY <2>1, <2>2, <2>3, UnitFacts
  <2>5. y = IF m = 0 THEN ts[i].wcet ELSE left[t][i]
    BY <2>1, <2>2, WorkFacts
  <2>6. m \in 0 .. p - 1 /\ n = IF m + 1 = p THEN 0 ELSE m + 1
    <3> HIDE DEF p, d, Q
    <3>1. m \in 0 .. p - 1
      BY <1>a, <2>1
    <3> QED BY <1>a, <2>1, <3>1, NextInPeriod
  <2>7. m = 0 \/ m >= d => left[t][i] = 0
    BY <1>3
  <2>8. CASE n = d \/ (n = 0 /\ d = p)
    <3>1. t + 1 >= d /\ ((t + 1) - d) % p = 0
      BY <1>a, <2>1, <2>8, Due
    <3>2. ASSUME x > 0 PROVE FALSE
      <4>1. Misses(ts, t + 1, left[t + 1])
        BY <3>1, <3>2 DEF Misses
      <4> QED BY <2>3, <4>1
    <3> HIDE DEF x
    <3>3. x = 0
      BY <2>4, <3>2
    <3> QED BY <2>1, <3>3 DEF x
  <2>9. CASE ~ (n = d \/ (n = 0 /\ d = p))
    <3> HIDE DEF x, y, m, n, p, d
    <3>1. ASSUME n = 0 \/ n >= d PROVE x = 0
      <4>1. m >= d
        BY <1>a, <2>6, <2>9, <3>1
      <4>2. y = 0
        BY <1>a, <2>5, <2>7, <4>1
      <4> QED BY <2>4, <4>2
    <3> QED BY <2>1, <3>1 DEF x, n
  <2> QED BY <2>8, <2>9
<1>4. \A t \in 0 .. horizon - 1 : t \in Q
  <2> HIDE DEF Q
  <2>1. horizon - 1 \in Nat /\ 0 \in Nat
    BY <1>1
  <2> QED BY <1>2, <1>3, <2>1, StepByStep
<1> QED BY <1>4

-----------------------------------------------------------------------------
(* The work that was done *)

\* What was done of each task by time t.
Served(ts, t, left) ==
    [i \in DOMAIN ts |-> Ceil(t, ts[i].period) * ts[i].wcet - left[t][i]]

LEMMA ServedFacts ==
    ASSUME NEW ts, TaskSet(ts), NEW policy \in Policies, NEW horizon \in Nat, NEW left,
           Follows(ts, policy, horizon, left), NEW t \in 0 .. horizon, NEW i \in DOMAIN ts
    PROVE  /\ Served(ts, t, left)[i] = Ceil(t, ts[i].period) * ts[i].wcet - left[t][i]
           /\ Served(ts, t, left)[i] \in Nat
           /\ Released(ts, t, {})[i] = Served(ts, t, left)[i] + left[t][i]
           /\ left[t][i] \in Nat
<1> DEFINE c == Ceil(t, ts[i].period)
<1> DEFINE w == ts[i].wcet
<1> DEFINE y == left[t][i]
<1>1. Released(ts, t, {})[i] = c * w
  BY ReleasedNat
<1>2. Served(ts, t, left)[i] = c * w - y
  BY DEF Served
<1>3. y \in Nat /\ y <= w /\ w \in Nat /\ (t = 0 => y = 0)
  BY LeftFacts, TaskFacts DEF Follows
<1>4. c \in Nat /\ (t > 0 => c > 0)
  <2>1. ts[i].period \in Nat \ {0} /\ t \in Nat
    BY TaskFacts
  <2> QED BY <2>1, CeilFacts
<1>5. c * w \in Nat /\ (c > 0 => c * w >= w)
  BY <1>3, <1>4
<1> HIDE DEF c, w, y
<1>6. c * w - y \in Nat /\ c * w = (c * w - y) + y
  BY <1>3, <1>4, <1>5
<1> QED BY <1>1, <1>2, <1>3, <1>6 DEF c, w, y

\* What is there in a unit was done by then, is done in it, or is left.
LEMMA ServedUnit ==
    ASSUME NEW ts, TaskSet(ts), NEW policy \in Policies, NEW horizon \in Nat, NEW left,
           Follows(ts, policy, horizon, left), NEW t \in 0 .. horizon - 1, NEW i \in DOMAIN ts
    PROVE  Served(ts, t + 1, left)[i] + left[t + 1][i]
           = Served(ts, t, left)[i] + WorkAt(ts, t, left[t])[i]
<1> DEFINE p == ts[i].period
<1> DEFINE w == ts[i].wcet
<1> DEFINE c == Ceil(t, p)
<1> DEFINE e == Ceil(t + 1, p)
<1> DEFINE x == Served(ts, t, left)[i]
<1> DEFINE y == Served(ts, t + 1, left)[i]
<1>1. t \in 0 .. horizon /\ t + 1 \in 0 .. horizon /\ t \in Nat
  OBVIOUS
<1>2. x = c * w - left[t][i] /\ y = e * w - left[t + 1][i] /\ x \in Nat /\ y \in Nat
      /\ left[t][i] \in Nat /\ left[t + 1][i] \in Nat
  BY <1>1, ServedFacts
<1>3. p \in Nat \ {0} /\ w \in Nat /\ c \in Nat
  BY <1>1, TaskFacts, CeilFacts
<1>4. e = c + IF t % p = 0 THEN 1 ELSE 0
  <2> HIDE DEF p
  <2> QED BY <1>1, <1>3, NextInPeriod
<1>5. WorkAt(ts, t, left[t])[i] = IF t % p = 0 THEN w ELSE left[t][i]
  BY DEF WorkAt
<1>6. t % p = 0 => left[t][i] = 0
  BY NothingLeft
<1>7. (c + 1) * w = c * w + w /\ c * w \in Nat
  BY <1>3
<1> HIDE DEF p, w, c, e, x, y
<1>8. CASE t % p = 0
  <2>1. e * w = c * w + w
    BY <1>4, <1>7, <1>8
  <2>2. y + left[t + 1][i] = x + WorkAt(ts, t, left[t])[i]
    BY <1>2, <1>3, <1>5, <1>6, <1>7, <1>8, <2>1
  <2> QED BY <2>2 DEF x, y
<1>9. CASE t % p # 0
  <2>1. e * w = c * w
    BY <1>3, <1>4, <1>9
  <2>2. y + left[t + 1][i] = x + WorkAt(ts, t, left[t])[i]
    BY <1>2, <1>3, <1>5, <1>7, <1>9, <2>1
  <2> QED BY <2>2 DEF x, y
<1> QED BY <1>8, <1>9

ServedOf(ts, t, left, js) == SumOver(Served(ts, t, left), js)

\* Some of the tasks js have work, and only tasks of js come before them.
Busy(ts, policy, t, left, js) ==
    /\ \E i \in js : WorkAt(ts, t, left[t])[i] > 0
    /\ \A i \in js, j \in DOMAIN ts :
          WorkAt(ts, t, left[t])[j] > 0 /\ Before(ts, policy, t, j, i) => j \in js

LEMMA ServedNext ==
    ASSUME NEW ts, TaskSet(ts), NEW policy \in Policies, NEW horizon \in Nat, NEW left,
           Follows(ts, policy, horizon, left), NEW t \in 0 .. horizon - 1,
           NEW js, js \subseteq DOMAIN ts
    PROVE  /\ ServedOf(ts, t, left, js) \in Nat
           /\ \/ ServedOf(ts, t + 1, left, js) = ServedOf(ts, t, left, js)
              \/ ServedOf(ts, t + 1, left, js) = ServedOf(ts, t, left, js) + 1
           /\ Busy(ts, policy, t, left, js)
                => ServedOf(ts, t + 1, left, js) = ServedOf(ts, t, left, js) + 1
<1> DEFINE f == Served(ts, t, left)
<1> DEFINE g == Served(ts, t + 1, left)
<1> DEFINE work == WorkAt(ts, t, left[t])
<1> DEFINE next == left[t + 1]
<1>1. t \in 0 .. horizon /\ t + 1 \in 0 .. horizon /\ t \in Nat
  OBVIOUS
<1>2. ASSUME NEW i \in DOMAIN ts
      PROVE  f[i] \in Nat /\ g[i] \in Nat /\ next[i] \in Nat /\ work[i] \in Nat
             /\ g[i] + next[i] = f[i] + work[i]
  <2>1. f[i] \in Nat /\ g[i] \in Nat /\ next[i] \in Nat
    BY <1>1, ServedFacts
  <2>2. work[i] \in Nat
    <3>1. \A j \in DOMAIN ts : left[t][j] \in Nat /\ left[t][j] <= ts[j].wcet
      BY <1>1, LeftFacts
    <3> QED BY <1>1, <3>1, WorkFacts
  <2> QED BY <2>1, <2>2, ServedUnit
<1>3. IsFiniteSet(js)
  BY TaskFacts, FS_Subset
<1>4. next = OneUnit(ts, policy, t, left[t]) /\ DOMAIN work = DOMAIN ts
  BY DEF Follows, WorkAt
<1>5. \/ next = work /\ \A i \in DOMAIN ts : ~(work[i] > 0)
      \/ \E k : Serves(ts, policy, t, work, next, k)
  BY <1>1, <1>4, UnitServes DEF Policies
<1>6. Busy(ts, policy, t, left, js)
      <=> /\ \E i \in js : work[i] > 0
          /\ \A i \in js, j \in DOMAIN ts :
                work[j] > 0 /\ Before(ts, policy, t, j, i) => j \in js
  BY DEF Busy
<1> HIDE DEF f, g, work, next
<1>7. SumOver(f, js) \in Nat
  BY <1>2, <1>3, SumNat
<1>8. CASE next = work /\ \A i \in DOMAIN ts : ~(work[i] > 0)
  <2>1. \A i \in js : f[i] \in Nat /\ g[i] = f[i]
    BY <1>2, <1>8
  <2>2. SumOver(g, js) = SumOver(f, js)
    BY <1>3, <2>1, SumSame
  <2> QED BY <1>6, <1>7, <1>8, <2>2 DEF ServedOf, f, g
<1>9. ASSUME NEW k, Serves(ts, policy, t, work, next, k)
      PROVE  /\ SumOver(g, js) = SumOver(f, js) + IF k \in js THEN 1 ELSE 0
             /\ Busy(ts, policy, t, left, js) => k \in js
  <2>1. /\ k \in DOMAIN ts /\ work[k] > 0 /\ next[k] = work[k] - 1
        /\ \A i \in DOMAIN ts : i # k => next[i] = work[i]
        /\ \A j \in DOMAIN ts : j # k /\ work[j] > 0 => Before(ts, policy, t, k, j)
    BY <1>4, <1>9 DEF Serves
  <2>2. \A i \in DOMAIN ts : g[i] = f[i] + IF i = k THEN 1 ELSE 0
    BY <1>2, <2>1
  <2>3. Busy(ts, policy, t, left, js) => k \in js
    BY <1>6, <2>1
  <2>4. CASE k \in js
    <3>1. \A i \in js : f[i] \in Nat /\ (i # k => g[i] = f[i])
      BY <1>2, <2>2
    <3>2. g[k] = f[k] + 1
      BY <2>1, <2>2
    <3>3. SumOver(g, js) = SumOver(f, js) + 1
      BY <1>3, <2>4, <3>1, <3>2, SumBump
    <3> QED BY <2>3, <2>4, <3>3
  <2>5. CASE k \notin js
    <3>1. \A i \in js : f[i] \in Nat /\ g[i] = f[i]
      BY <1>2, <2>2, <2>5
    <3>2. SumOver(g, js) = SumOver(f, js)
      BY <1>3, <3>1, SumSame
    <3> QED BY <1>7, <2>3, <2>5, <3>2
  <2> QED BY <2>4, <2>5
<1> QED BY <1>5, <1>7, <1>8, <1>9 DEF ServedOf, f, g

LEMMA ServedOver ==
    ASSUME NEW ts, TaskSet(ts), NEW policy \in Policies, NEW horizon \in Nat, NEW left,
           Follows(ts, policy, horizon, left), NEW s \in 0 .. horizon, NEW e \in s .. horizon,
           NEW js, js \subseteq DOMAIN ts
    PROVE  /\ ServedOf(ts, s, left, js) \in Nat /\ ServedOf(ts, e, left, js) \in Nat
           /\ ServedOf(ts, s, left, js) <= ServedOf(ts, e, left, js)
           /\ ServedOf(ts, e, left, js) <= ServedOf(ts, s, left, js) + (e - s)
           /\ (\A u \in s .. e - 1 : Busy(ts, policy, u, left, js))
                => ServedOf(ts, e, left, js) = ServedOf(ts, s, left, js) + (e - s)
<1> DEFINE F(u) == ServedOf(ts, u, left, js)
<1> DEFINE Q == {u \in s .. e : /\ F(u) \in Nat /\ F(s) <= F(u) /\ F(u) <= F(s) + (u - s)
                                /\ (\A v \in s .. u - 1 : Busy(ts, policy, v, left, js))
                                     => F(u) = F(s) + (u - s)}
<1>1. s \in Nat /\ e \in Nat /\ s <= e
  OBVIOUS
<1>2. F(s) \in Nat
  <2>1. IsFiniteSet(js) /\ \A i \in js : Served(ts, s, left)[i] \in Nat
    BY TaskFacts, ServedFacts, FS_Subset
  <2> QED BY <2>1, SumNat DEF ServedOf
<1>3. s \in Q
  <2> HIDE DEF F
  <2> QED BY <1>1, <1>2
<1>4. ASSUME NEW u \in s .. e - 1, u \in Q PROVE u + 1 \in Q
  <2>1. u \in 0 .. horizon - 1 /\ u \in s .. u /\ u + 1 \in s .. e /\ u \in Nat
    BY <1>1
  <2>2. /\ F(u + 1) = F(u) \/ F(u + 1) = F(u) + 1
        /\ Busy(ts, policy, u, left, js) => F(u + 1) = F(u) + 1
    BY <2>1, ServedNext
  <2>3. /\ F(u) \in Nat /\ F(s) <= F(u) /\ F(u) <= F(s) + (u - s)
        /\ (\A v \in s .. u - 1 : Busy(ts, policy, v, left, js)) => F(u) = F(s) + (u - s)
    BY <1>4
  <2> HIDE DEF F
  <2>4. /\ F(u + 1) \in Nat /\ F(s) <= F(u + 1) /\ F(u + 1) <= F(s) + ((u + 1) - s)
    BY <1>1, <1>2, <2>1, <2>2, <2>3
  <2>5. ASSUME \A v \in s .. (u + 1) - 1 : Busy(ts, policy, v, left, js)
        PROVE  F(u + 1) = F(s) + ((u + 1) - s)
    <3>1. Busy(ts, policy, u, left, js) /\ \A v \in s .. u - 1 : Busy(ts, policy, v, left, js)
      <4>1. u \in s .. (u + 1) - 1 /\ \A v \in s .. u - 1 : v \in s .. (u + 1) - 1
        BY <1>1, <2>1
      <4> QED BY <2>5, <4>1
    <3>2. F(u + 1) = F(u) + 1 /\ F(u) = F(s) + (u - s)
      BY <2>2, <2>3, <3>1
    <3> QED BY <1>1, <1>2, <2>1, <3>2
  <2> QED BY <2>1, <2>4, <2>5
<1>5. \A u \in s .. e : u \in Q
  <2> HIDE DEF Q
  <2> QED BY <1>1, <1>3, <1>4, StepByStep
<1>6. e \in Q
  BY <1>1, <1>5
<1> QED BY <1>2, <1>6

-----------------------------------------------------------------------------
(* The schedule by fixed priorities *)

KeyOf(policy) == IF policy = "rm" THEN "period" ELSE "deadline"

LEMMA HigherIsBefore ==
    ASSUME NEW ts, NEW policy \in {"rm", "dm"}, NEW t, NEW i \in DOMAIN ts, NEW j
    PROVE  Before(ts, policy, t, i, j) <=> i \in HigherTasks(ts, KeyOf(policy), j)
<1>1. CASE policy = "rm"
  BY <1>1 DEF Before, Rank, HigherTasks, KeyOf
<1>2. CASE policy = "dm"
  BY <1>2 DEF Before, Rank, HigherTasks, KeyOf
<1> QED BY <1>1, <1>2

LEMMA HigherOrder ==
    ASSUME NEW ts, TaskSet(ts), NEW key \in {"period", "deadline"}, NEW i \in DOMAIN ts
    PROVE  /\ i \notin HigherTasks(ts, key, i)
           /\ \A j \in HigherTasks(ts, key, i) : \A k \in HigherTasks(ts, key, j) :
                 k \in HigherTasks(ts, key, i)
<1>1. \A j \in DOMAIN ts : j \in Nat /\ ts[j][key] \in Nat
  BY TaskFacts
<1> QED BY <1>1 DEF HigherTasks

\* Nothing comes between a task and those above it, or between these.
LEMMA HigherBusy ==
    ASSUME NEW ts, TaskSet(ts), NEW policy \in {"rm", "dm"}, NEW t \in Nat, NEW left,
           NEW i \in DOMAIN ts,
           NEW js, js = HigherTasks(ts, KeyOf(policy), i)
                     \/ js = HigherTasks(ts, KeyOf(policy), i) \cup {i},
           \E j \in js : WorkAt(ts, t, left[t])[j] > 0
    PROVE  Busy(ts, policy, t, left, js)
<1> DEFINE H == HigherTasks(ts, KeyOf(policy), i)
<1>1. KeyOf(policy) \in {"period", "deadline"}
  BY DEF KeyOf
<1>2. ASSUME NEW a \in js, NEW b \in DOMAIN ts, Before(ts, policy, t, b, a) PROVE b \in js
  <2>1. b \in HigherTasks(ts, KeyOf(policy), a)
    BY <1>2, HigherIsBefore
  <2>2. a \in H \/ a = i
    BY <1>2
  <2>3. b \in H
    BY <1>1, <2>1, <2>2, HigherOrder
  <2> QED BY <2>3
<1> QED BY <1>2 DEF Busy

\* A task whose first job was done in time was done with all that those above
\* it had released: at the first time that it had nothing left.
LEMMA InTimeIsMet ==
    ASSUME NEW ts, TaskSet(ts), NEW policy \in {"rm", "dm"}, NEW horizon \in Nat, NEW left,
           Follows(ts, policy, horizon, left), NEW i \in DOMAIN ts,
           ts[i].deadline <= horizon, left[ts[i].deadline][i] = 0
    PROVE  Met(ts, KeyOf(policy), i)
<1> DEFINE key == KeyOf(policy)
<1> DEFINE H == HigherTasks(ts, key, i)
<1> DEFINE d == ts[i].deadline
<1> DEFINE p == ts[i].period
<1> DEFINE w == ts[i].wcet
<1>1. key \in {"period", "deadline"} /\ policy \in Policies
  BY DEF KeyOf, Policies
<1>2. d \in Nat /\ p \in Nat \ {0} /\ w \in Nat /\ d <= p /\ (d = 0 => w = 0)
  BY TaskFacts DEF Follows
<1>3. H \subseteq DOMAIN ts /\ IsFiniteSet(H) /\ i \notin H
  BY <1>1, HigherAreTasks, HigherOrder
<1>4. CASE w = 0
  <2>1. SumOver(Released(ts, 0, {}), H) = 0
    <3>1. ASSUME NEW j \in H PROVE Released(ts, 0, {})[j] = 0
      <4>1. Ceil(0, ts[j].period) = 0 /\ ts[j].wcet \in Nat
        BY <1>3, TaskFacts, CeilFacts
      <4> QED BY <1>3, <4>1, ReleasedNat
    <3> HIDE DEF H
    <3> QED BY <1>3, <3>1, SumZero
  <2>2. Done(ts, key, i, 0)
    BY <1>4, <2>1 DEF Done
  <2> QED BY <1>2, <2>2 DEF Met
<1>5. CASE w > 0
  <2> DEFINE Q == {t \in 1 .. d : left[t][i] = 0}
  <2>1. d > 0 /\ d \in Q
    BY <1>2, <1>5
  <2>2. PICK a \in Q : \A t \in Q : a <= t
    <3>1. Q \subseteq Nat /\ Q # {}
      BY <2>1
    <3> HIDE DEF Q
    <3> QED BY <3>1, MinimalNat
  <2>3. a \in 1 .. d /\ left[a][i] = 0 /\ \A t \in 1 .. a - 1 : left[t][i] # 0
    <3>1. \A t \in 1 .. a - 1 : t \in 1 .. d /\ ~ (a <= t)
      BY <1>2, <2>2
    <3> QED BY <2>2, <3>1
  <2> DEFINE b == a - 1
  <2>4. /\ b \in 0 .. horizon - 1 /\ b \in Nat /\ b + 1 = a /\ b < p /\ b \in 0 .. horizon
        /\ a \in 0 .. horizon /\ a \in Nat /\ a <= d /\ a > 0
    BY <1>2, <2>3
  <2> DEFINE work == WorkAt(ts, b, left[b])
  <2>5. \A j \in DOMAIN ts : left[b][j] \in Nat /\ left[b][j] <= ts[j].wcet
    BY <1>1, <2>4, LeftFacts
  <2>6. \A j \in DOMAIN ts : work[j] \in Nat
    BY <2>4, <2>5, WorkFacts
  <2>7. work[i] > 0
    <3>1. CASE b = 0
      <4>1. b % p = 0
        BY <1>2, <3>1
      <4>2. work[i] = w
        BY <2>4, <2>5, <4>1, WorkFacts
      <4> QED BY <1>5, <4>2
    <3>2. CASE b # 0
      <4>1. b \in 1 .. a - 1 /\ b % p # 0
        BY <1>2, <2>4, <3>2
      <4>2. work[i] = left[b][i] /\ left[b][i] # 0
        BY <2>3, <2>4, <2>5, <4>1, WorkFacts
      <4> QED BY <2>5, <4>2
    <3> QED BY <3>1, <3>2
  <2>8. left[a] = OneUnit(ts, policy, b, left[b]) /\ DOMAIN work = DOMAIN ts
    BY <2>4 DEF Follows, WorkAt
  <2>9. \A j \in H : left[a][j] = 0
    <3>1. PICK k : Serves(ts, policy, b, work, left[a], k)
      <4>1. \/ left[a] = work /\ \A j \in DOMAIN ts : ~(work[j] > 0)
            \/ \E k : Serves(ts, policy, b, work, left[a], k)
        BY <1>1, <2>4, <2>8, UnitServes DEF Policies
      <4> QED BY <2>7, <4>1
    <3>2. k = i
      BY <2>3, <2>6, <2>7, <2>8, <3>1 DEF Serves
    <3>3. ASSUME NEW j \in H, work[j] > 0 PROVE FALSE
      <4>1. Before(ts, policy, b, i, j)
        BY <1>3, <3>1, <3>2, <3>3 DEF Serves
      <4>2. i \in HigherTasks(ts, key, j)
        BY <4>1, HigherIsBefore
      <4> QED BY <1>1, <1>3, <4>2, HigherOrder
    <3>4. ASSUME NEW j \in H PROVE left[a][j] = work[j]
      BY <1>3, <2>8, <3>1, <3>2, <3>4 DEF Serves
    <3> HIDE DEF work, b
    <3> QED BY <1>3, <2>6, <3>3, <3>4
  <2> DEFINE js == H \cup {i}
  <2> DEFINE f == Released(ts, a, {})
  <2>10. js \subseteq DOMAIN ts /\ IsFiniteSet(js) /\ js \ {i} = H
    BY <1>3, TaskFacts, FS_Subset
  <2>11. \A j \in js : Served(ts, a, left)[j] = f[j] /\ f[j] \in Nat
    <3> TAKE j \in js
    <3>1. j \in DOMAIN ts /\ left[a][j] = 0
      BY <2>3, <2>9, <2>10
    <3>2. /\ f[j] = Served(ts, a, left)[j] + left[a][j] /\ f[j] \in Nat
          /\ Served(ts, a, left)[j] \in Nat
      BY <1>1, <2>4, <3>1, ServedFacts, ReleasedNat
    <3> QED BY <3>1, <3>2
  <2>12. ServedOf(ts, a, left, js) = SumOver(f, js)
    <3> HIDE DEF js, f
    <3> QED BY <2>10, <2>11, SumSame DEF ServedOf
  <2>13. ServedOf(ts, a, left, js) <= a
    <3>1. ServedOf(ts, 0, left, js) = 0
      <4>1. ASSUME NEW j \in js PROVE Served(ts, 0, left)[j] = 0
        <5>1. Ceil(0, ts[j].period) = 0 /\ ts[j].wcet \in Nat /\ left[0][j] = 0
          BY <2>10, TaskFacts, CeilFacts DEF Follows
        <5> QED BY <2>10, <5>1 DEF Served
      <4> HIDE DEF js
      <4> QED BY <2>10, <4>1, SumZero DEF ServedOf
    <3>2. 0 \in 0 .. horizon /\ a \in 0 .. horizon
      BY <2>4
    <3> HIDE DEF js
    <3>3. ServedOf(ts, a, left, js) <= ServedOf(ts, 0, left, js) + (a - 0)
      BY <1>1, <2>10, <3>2, ServedOver
    <3> QED BY <2>4, <3>1, <3>3
  <2>14. SumOver(f, js) = f[i] + SumOver(f, H)
    <3>1. i \in js
      OBVIOUS
    <3> HIDE DEF js, f
    <3> QED BY <2>10, <2>11, <3>1, SumRemove
  <2>15. f[i] = w
    <3>1. Ceil(a, p) = 1
      <4>1. a <= p
        BY <1>2, <2>4
      <4> QED BY <1>2, <2>4, <4>1, CeilFacts
    <3>2. f[i] = Ceil(a, p) * w
      BY <2>4, ReleasedNat
    <3> QED BY <1>2, <3>1, <3>2
  <2>16. Done(ts, key, i, a)
    <3> HIDE DEF f, js, H
    <3>1. w + SumOver(f, H) <= a
      BY <2>12, <2>13, <2>14, <2>15
    <3> QED BY <3>1 DEF Done, f, H
  <2> QED BY <2>4, <2>16 DEF Met
<1> QED BY <1>2, <1>4, <1>5

\* When a task and those above it, all released together, are done by its
\* deadline, it never misses one. Suppose that it misses one at e. Its job was
\* released at r, and s was the last time up to then at which those above it
\* had nothing left. They were served from s to r, and from r to e they or the
\* task were, yet what was released from s on would have been done in a.
LEMMA MetIsInTime ==
    ASSUME NEW ts, TaskSet(ts), NEW policy \in {"rm", "dm"}, NEW e \in Nat, NEW left,
           Follows(ts, policy, e, left), \A k \in DOMAIN ts : Met(ts, KeyOf(policy), k)
    PROVE  ~ Misses(ts, e, left[e])
<1> DEFINE key == KeyOf(policy)
<1>1. SUFFICES ASSUME NEW i \in DOMAIN ts, e >= ts[i].deadline,
                      (e - ts[i].deadline) % ts[i].period = 0, left[e][i] > 0
               PROVE  FALSE
  BY DEF Misses
<1> DEFINE H == HigherTasks(ts, key, i)
<1> DEFINE js == H \cup {i}
<1> DEFINE d == ts[i].deadline
<1> DEFINE p == ts[i].period
<1> DEFINE w == ts[i].wcet
<1> DEFINE r == e - d
<1>2. key \in {"period", "deadline"} /\ policy \in Policies
  BY DEF KeyOf, Policies
<1>3. \A t \in 0 .. e : \A j \in DOMAIN ts : left[t][j] \in Nat /\ left[t][j] <= ts[j].wcet
  BY <1>2, LeftFacts
<1>4. /\ d \in Nat /\ p \in Nat \ {0} /\ w \in Nat /\ d <= p /\ d > 0 /\ w > 0
      /\ r \in Nat /\ r < e /\ e = r + d /\ r % p = 0
  <2>1. d \in Nat /\ p \in Nat \ {0} /\ w \in Nat /\ d <= p /\ (d = 0 => w = 0)
    BY TaskFacts DEF Follows
  <2>2. w > 0
    <3>1. left[e][i] <= w /\ left[e][i] \in Nat /\ left[e][i] > 0
      BY <1>1, <1>3
    <3> QED BY <2>1, <3>1
  <2> QED BY <1>1, <2>1, <2>2
<1>5. H \subseteq DOMAIN ts /\ IsFiniteSet(H) /\ i \notin H /\ i \in js
      /\ js \subseteq DOMAIN ts /\ IsFiniteSet(js) /\ js \ {i} = H
  BY <1>2, HigherAreTasks, HigherOrder, TaskFacts, FS_Subset
<1>6. PICK a \in Nat : a <= d /\ Done(ts, key, i, a)
  BY DEF Met
<1> DEFINE Clear == {t \in 0 .. r : \A j \in H : left[t][j] = 0}
<1>7. PICK s \in Clear : \A t \in Clear : t <= s
  <2>1. 0 \in Clear
    BY <1>4, <1>5 DEF Follows
  <2> DEFINE Q == {r - t : t \in Clear}
  <2>2. Q \subseteq Nat /\ Q # {}
    <3>1. \A t \in Clear : t \in 0 .. r
      OBVIOUS
    <3>2. \A t \in 0 .. r : r - t \in Nat
      <4> HIDE DEF r
      <4> QED BY <1>4
    <3> HIDE DEF r, Clear
    <3> QED BY <2>1, <3>1, <3>2
  <2>3. PICK x \in Q : \A y \in Q : x <= y
    <3> HIDE DEF Q
    <3> QED BY <2>2, MinimalNat
  <2>4. PICK s \in Clear : x = r - s
    BY <2>3
  <2>5. \A t \in Clear : r - s <= r - t /\ t \in Nat /\ s \in Nat
    BY <2>3, <2>4
  <2>6. \A t \in Clear : t <= s
    <3> HIDE DEF Clear, r
    <3> QED BY <1>4, <2>5
  <2> QED BY <2>6
<1>8. /\ s \in 0 .. r /\ s \in Nat /\ s \in 0 .. e /\ \A j \in H : left[s][j] = 0
      /\ \A t \in s + 1 .. r : \E j \in H : left[t][j] # 0
  <2>1. \A t \in s + 1 .. r : t \in 0 .. r /\ ~ (t <= s)
    BY <1>7
  <2> QED BY <1>4, <1>7, <2>1
<1> HIDE DEF Clear
\* What is left after a unit was there in it.
<1>9. ASSUME NEW u \in 0 .. e - 1, NEW j \in DOMAIN ts, left[u + 1][j] > 0
      PROVE  WorkAt(ts, u, left[u])[j] > 0
  <2>1. u \in 0 .. e /\ u \in Nat
    OBVIOUS
  <2>2. \A k \in DOMAIN ts : left[u][k] \in Nat /\ left[u][k] <= ts[k].wcet
    BY <1>3, <2>1
  <2> DEFINE x == left[u + 1][j]
  <2> DEFINE y == WorkAt(ts, u, left[u])[j]
  <2>3. left[u + 1] = OneUnit(ts, policy, u, left[u])
    BY DEF Follows
  <2>4. x \in Nat /\ (x = y \/ x = y - 1) /\ y \in Nat
    BY <1>2, <2>1, <2>2, <2>3, UnitFacts, WorkFacts
  <2>5. x > 0
    BY <1>9
  <2> HIDE DEF x, y
  <2>6. y > 0
    BY <2>4, <2>5
  <2> QED BY <2>6 DEF y
\* From s to r the tasks above are served.
<1>10. \A u \in s .. r - 1 : Busy(ts, policy, u, left, H)
  <2> TAKE u \in s .. r - 1
  <2>1. u + 1 \in s + 1 .. r /\ u \in 0 .. e - 1 /\ u + 1 \in 0 .. e /\ u \in Nat
    BY <1>4, <1>8
  <2>2. PICK j \in H : left[u + 1][j] # 0
    BY <1>8, <2>1
  <2>3. left[u + 1][j] > 0
    BY <1>3, <1>5, <2>1, <2>2
  <2>4. WorkAt(ts, u, left[u])[j] > 0
    BY <1>5, <1>9, <2>1, <2>3
  <2> QED BY <2>1, <2>4, HigherBusy
\* The job has work in every unit from its release to its deadline.
<1>11. \A u \in r + 1 .. e : left[u][i] > 0
  <2> DEFINE Q == {k \in Nat : k <= d - 1 /\ ~ (left[e - k][i] > 0)}
  <2>1. SUFFICES ASSUME Q # {} PROVE FALSE
    <3>1. ASSUME NEW u \in r + 1 .. e, ~ (left[u][i] > 0) PROVE FALSE
      <4>1. e - u \in Nat /\ e - u <= d - 1 /\ e - (e - u) = u
        BY <1>4
      <4>2. e - u \in Q
        BY <3>1, <4>1
      <4> QED BY <2>1, <4>2
    <3> QED BY <3>1
  <2>2. PICK k \in Q : \A m \in Q : k <= m
    <3>1. Q \subseteq Nat
      OBVIOUS
    <3> HIDE DEF Q
    <3> QED BY <2>1, <3>1, MinimalNat
  <2>3. k \in Nat /\ k <= d - 1 /\ ~ (left[e - k][i] > 0)
    BY <2>2
  <2>4. k > 0
    <3>1. e - 0 = e
      BY <1>4
    <3> QED BY <1>1, <2>3, <3>1
  <2> DEFINE u == e - k
  <2>5. u \in r + 1 .. e - 1 /\ u \in 0 .. e - 1 /\ u + 1 = e - (k - 1) /\ u \in Nat
        /\ u < r + p /\ r < u /\ u <= r + p
    BY <1>4, <2>3, <2>4
  <2>6. left[u + 1][i] > 0
    <3>1. k - 1 \in Nat /\ k - 1 <= d - 1 /\ ~ (k <= k - 1)
      <4> HIDE DEF d
      <4> QED BY <1>4, <2>3, <2>4
    <3>2. k - 1 \notin Q
      <4> HIDE DEF Q
      <4> QED BY <2>2, <3>1
    <3>3. left[e - (k - 1)][i] > 0
      BY <3>1, <3>2
    <3> HIDE DEF u
    <3> QED BY <2>5, <3>3
  <2>7. WorkAt(ts, u, left[u])[i] > 0
    <3> HIDE DEF u
    <3> QED BY <1>9, <2>5, <2>6
  <2>8. u % p # 0
    <3>1. u % p = u - r
      <4> HIDE DEF u, p, r
      <4> QED BY <1>4, <2>5, NextRelease
    <3> HIDE DEF u, p, r, d
    <3> QED BY <1>4, <2>5, <3>1
  <2>9. WorkAt(ts, u, left[u])[i] = left[u][i]
    <3> HIDE DEF u
    <3> QED BY <2>8 DEF WorkAt
  <2> QED BY <2>3, <2>7, <2>9
<1>12. \A u \in r .. e - 1 : Busy(ts, policy, u, left, js)
  <2> TAKE u \in r .. e - 1
  <2>1. u \in 0 .. e - 1 /\ u + 1 \in r + 1 .. e /\ u \in Nat
    BY <1>4
  <2>2. WorkAt(ts, u, left[u])[i] > 0
    BY <1>9, <1>11, <2>1
  <2> QED BY <1>5, <2>1, <2>2, HigherBusy
<1> DEFINE c == s + a
<1> DEFINE f(t) == ServedOf(ts, t, left, H)
<1> DEFINE g(t) == Served(ts, t, left)[i]
<1> DEFINE x == SumOver(Released(ts, a, {}), H)
<1>13. c \in 0 .. e /\ c \in s .. e /\ c \in Nat /\ s <= c /\ c <= e
  BY <1>4, <1>6, <1>8
\* What the tasks above release from s to c is at most what they release in a.
<1>14. /\ f(c) <= f(s) + x
       /\ x \in Nat /\ f(s) \in Nat /\ f(c) \in Nat /\ w + x <= a
  <2>1. \A t \in Nat : \A j \in H : Released(ts, t, {})[j] \in Nat
    BY <1>5, ReleasedNat
  <2>2. x \in Nat
    <3> HIDE DEF H
    <3> QED BY <1>5, <1>6, <2>1, SumNat
  <2>3. f(s) \in Nat /\ f(c) \in Nat
    <3> HIDE DEF H, c
    <3> QED BY <1>2, <1>5, <1>8, <1>13, ServedOver
  <2>4. \A j \in H : /\ Served(ts, s, left)[j] \in Nat /\ Served(ts, c, left)[j] \in Nat
                     /\ Released(ts, a, {})[j] \in Nat
                     /\ Served(ts, c, left)[j]
                          <= Served(ts, s, left)[j] + Released(ts, a, {})[j]
    <3> TAKE j \in H
    <3>1. j \in DOMAIN ts /\ left[s][j] = 0 /\ left[c][j] \in Nat
      BY <1>3, <1>5, <1>8, <1>13
    <3>2. ts[j].period \in Nat \ {0} /\ ts[j].wcet \in Nat
      BY <3>1, TaskFacts
    <3> DEFINE cs == Ceil(s, ts[j].period)
    <3> DEFINE ca == Ceil(a, ts[j].period)
    <3> DEFINE cc == Ceil(c, ts[j].period)
    <3> DEFINE v == ts[j].wcet
    <3>3. cs \in Nat /\ ca \in Nat /\ cc \in Nat /\ cc <= cs + ca
      BY <1>8, <1>13, <3>2, CeilFacts, CeilSum
    <3>4. /\ Served(ts, s, left)[j] = cs * v - left[s][j] /\ Served(ts, s, left)[j] \in Nat
          /\ Served(ts, c, left)[j] = cc * v - left[c][j] /\ Served(ts, c, left)[j] \in Nat
          /\ Released(ts, a, {})[j] = ca * v /\ Released(ts, a, {})[j] \in Nat
      <4> HIDE DEF c, H
      <4> QED BY <1>2, <1>8, <1>13, <3>1, ServedFacts, ReleasedNat
    <3>5. cc * v <= cs * v + ca * v /\ cc * v \in Nat /\ cs * v \in Nat /\ ca * v \in Nat
      <4>1. v \in Nat
        BY <3>2
      <4> HIDE DEF cs, ca, cc, v
      <4>2. (cs + ca) * v = cs * v + ca * v
        BY <3>3, <4>1
      <4>3. cc * v <= (cs + ca) * v
        BY <3>3, <4>1
      <4> QED BY <3>3, <4>1, <4>2, <4>3
    <3> HIDE DEF cs, ca, cc, v, c
    <3> QED BY <3>1, <3>4, <3>5
  <2>5. f(c) <= f(s) + x
    <3> HIDE DEF H, c
    <3> QED BY <1>5, <2>4, SumAdd DEF ServedOf
  <2>6. w + x <= a
    BY <1>6 DEF Done
  <2> QED BY <2>2, <2>3, <2>5, <2>6
<1>15. CASE c <= r
  <2>1. c \in s .. r /\ \A u \in s .. c - 1 : Busy(ts, policy, u, left, H)
    <3>1. \A u \in s .. c - 1 : u \in s .. r - 1
      BY <1>4, <1>8, <1>13, <1>15
    <3> QED BY <1>4, <1>8, <1>10, <1>13, <1>15, <3>1
  <2>2. f(c) = f(s) + (c - s)
    <3> HIDE DEF H, c
    <3> QED BY <1>2, <1>5, <1>8, <1>13, <2>1, ServedOver
  <2>3. c - s = a
    BY <1>6, <1>8
  <2> HIDE DEF f, x, c
  <2> QED BY <1>4, <1>6, <1>14, <2>2, <2>3
<1>16. CASE r < c
  <2>1. r \in 0 .. e /\ c \in r .. e /\ r \in s .. e /\ r \in s .. r
        /\ \A u \in r .. c - 1 : u \in r .. e - 1
    BY <1>4, <1>8, <1>13, <1>16
  <2>2. f(r) = f(s) + (r - s) /\ f(r) \in Nat
    <3> HIDE DEF H, r
    <3> QED BY <1>2, <1>5, <1>8, <1>10, <2>1, ServedOver
  <2>3. ServedOf(ts, c, left, js) = ServedOf(ts, r, left, js) + (c - r)
    <3>1. \A u \in r .. c - 1 : Busy(ts, policy, u, left, js)
      BY <1>12, <2>1
    <3> HIDE DEF js, r, c
    <3> QED BY <1>2, <1>5, <2>1, <3>1, ServedOver
  <2>4. ASSUME NEW t \in 0 .. e PROVE ServedOf(ts, t, left, js) = g(t) + f(t) /\ g(t) \in Nat
    <3>1. \A j \in js : Served(ts, t, left)[j] \in Nat
      BY <1>2, <1>5, ServedFacts
    <3> HIDE DEF js, H
    <3> QED BY <1>5, <3>1, SumRemove DEF ServedOf
  <2>5. g(c) < g(r) + w
    <3> DEFINE q == Ceil(r, p)
    <3>1. Ceil(c, p) = q + 1 /\ q \in Nat
      <4>1. c <= r + p
        BY <1>4, <1>13
      <4> HIDE DEF c, r, p
      <4> QED BY <1>4, <1>13, <1>16, <4>1, NextRelease, CeilFacts
    <3>2. left[r][i] = 0
      <4>1. r \in 0 .. e - 1
        BY <1>4
      <4> QED BY <1>2, <1>4, <4>1, NothingLeft
    <3>3. left[c][i] > 0 /\ left[c][i] \in Nat
      <4>1. c \in r + 1 .. e
        BY <1>4, <1>13, <1>16
      <4> QED BY <1>3, <1>11, <1>13, <4>1
    <3>4. g(c) = Ceil(c, p) * w - left[c][i] /\ g(r) = Ceil(r, p) * w - left[r][i]
      BY DEF Served
    <3>5. (q + 1) * w = q * w + w /\ q * w \in Nat
      <4> HIDE DEF q, w, c, r, p, d
      <4> QED BY <1>4, <3>1
    <3> HIDE DEF q, g, w, c, r, p
    <3>6. g(c) = (q * w + w) - left[c][i] /\ g(r) = q * w - left[r][i]
      <4>1. Ceil(c, p) * w = q * w + w /\ Ceil(r, p) = q
        BY <3>1, <3>5 DEF q
      <4> QED BY <3>4, <4>1
    <3> QED BY <1>4, <3>2, <3>3, <3>5, <3>6
  <2>6. g(c) + f(c) = g(r) + f(r) + (c - r) /\ g(c) \in Nat /\ g(r) \in Nat
    <3> HIDE DEF js, f, g, c, r
    <3> QED BY <1>13, <2>1, <2>3, <2>4
  <2>7. c - s = a /\ (c - r) + (r - s) = a /\ c - r \in Int /\ r - s \in Int
    BY <1>4, <1>6, <1>8
  <2> HIDE DEF f, g, x, c, r, w
  <2> QED BY <1>4, <1>6, <1>14, <2>2, <2>5, <2>6, <2>7
<1> QED BY <1>4, <1>13, <1>15, <1>16

-----------------------------------------------------------------------------
(* The horizons *)

LEMMA MeetsByRun ==
    ASSUME NEW ts, NEW policy, NEW horizon \in Nat
    PROVE  \E run : /\ IsRun(ts, policy, horizon, run)
                    /\ MeetsDeadlines(ts, policy, horizon) = run[horizon].met
<1> DEFINE run == CHOOSE run : IsRun(ts, policy, horizon, run)
<1>1. IsRun(ts, policy, horizon, run)
  BY RunExists
<1>2. MeetsDeadlines(ts, policy, horizon) = run[horizon].met
  BY DEF MeetsDeadlines, IsRun
<1> QED BY <1>1, <1>2

\* No schedule is followed past a miss: it starts with one, or there is a first
\* one, or there is none.
LEMMA MeetsOrMisses ==
    ASSUME NEW ts, TaskSet(ts), NEW policy, NEW horizon \in Nat
    PROVE  \/ /\ ~ MeetsDeadlines(ts, policy, horizon)
              /\ \E i \in DOMAIN ts : ts[i].deadline = 0 /\ ts[i].wcet # 0
           \/ /\ ~ MeetsDeadlines(ts, policy, horizon)
              /\ \E e \in 0 .. horizon : \E left :
                    Follows(ts, policy, e, left) /\ Misses(ts, e, left[e])
           \/ /\ MeetsDeadlines(ts, policy, horizon)
              /\ \E left : /\ Follows(ts, policy, horizon, left)
                           /\ ~ Misses(ts, horizon, left[horizon])
<1>1. PICK run : /\ IsRun(ts, policy, horizon, run)
                 /\ MeetsDeadlines(ts, policy, horizon) = run[horizon].met
  BY MeetsByRun
<1>2. \A t \in 0 .. horizon :
         run[t] = IF t = 0 THEN Start(ts) ELSE NextUnit(ts, policy, t - 1, run[t - 1])
  BY <1>1 DEF IsRun
<1>3. run[0] = Start(ts)
  BY <1>2
<1>4. run[0].met = \A i \in DOMAIN ts : ts[i].deadline = 0 => ts[i].wcet = 0
  <2> DEFINE x == [i \in DOMAIN ts |-> 0]
  <2> DEFINE y == \A i \in DOMAIN ts : ts[i].deadline = 0 => ts[i].wcet = 0
  <2>1. run[0] = [left |-> x, met |-> y]
    BY <1>3 DEF Start
  <2> HIDE DEF x, y
  <2>2. run[0].met = y
    BY <2>1
  <2> QED BY <2>2 DEF y
<1>5. \A t \in 1 .. horizon : ~ run[t - 1].met => run[t] = run[t - 1]
  <2> TAKE t \in 1 .. horizon
  <2>1. t \in 0 .. horizon /\ t # 0
    OBVIOUS
  <2> QED BY <1>2, <2>1, Zenon DEF NextUnit
<1> DEFINE Q == {t \in 0 .. horizon : ~ run[t].met}
<1>6. CASE Q = {}
  <2>1. /\ run[horizon].met /\ run[0].met /\ horizon \in 0 .. horizon
        /\ \A t \in 0 .. horizon - 1 : run[t].met
    BY <1>6
  <2>2. /\ Follows(ts, policy, horizon, [t \in 0 .. horizon |-> run[t].left])
        /\ horizon > 0 => ~ Misses(ts, horizon, run[horizon].left)
    BY <1>1, <2>1, RunFollows
  <2> DEFINE left == [t \in 0 .. horizon |-> run[t].left]
  <2>3. left[horizon] = run[horizon].left
    BY <2>1
  <2>4. horizon = 0 => ~ Misses(ts, horizon, left[horizon])
    <3>1. \A i \in DOMAIN ts : left[0][i] = 0
      <4> HIDE DEF left
      <4> QED BY <2>2 DEF Follows, left
    <3> QED BY <3>1 DEF Misses
  <2>5. ~ Misses(ts, horizon, left[horizon])
    BY <2>2, <2>3, <2>4
  <2> QED BY <1>1, <2>1, <2>2, <2>5
<1>7. CASE Q # {}
  <2>1. PICK e \in Q : \A t \in Q : e <= t
    <3>1. Q \subseteq Nat
      OBVIOUS
    <3> HIDE DEF Q
    <3> QED BY <1>7, <3>1, MinimalNat
  <2>2. e \in 0 .. horizon /\ ~ run[e].met /\ \A t \in 0 .. e - 1 : run[t].met
    <3>1. \A t \in 0 .. e - 1 : t \in 0 .. horizon /\ ~ (e <= t)
      BY <2>1
    <3> QED BY <2>1, <3>1
  <2>3. ~ run[horizon].met
    <3> DEFINE R == {t \in 0 .. horizon : ~ run[t].met}
    <3>1. ASSUME NEW t \in e .. horizon - 1, t \in R PROVE t + 1 \in R
      <4>1. t + 1 \in 1 .. horizon /\ (t + 1) - 1 = t /\ t + 1 \in 0 .. horizon
        BY <2>2
      <4>2. run[t + 1] = run[t]
        BY <1>5, <3>1, <4>1
      <4> QED BY <3>1, <4>1, <4>2
    <3>2. e \in R /\ e \in Nat /\ horizon \in e .. horizon
      BY <2>2
    <3>3. horizon \in R
      <4> HIDE DEF R
      <4> QED BY <3>1, <3>2, StepByStep
    <3> QED BY <3>3
  <2>4. CASE e = 0
    BY <1>1, <1>4, <2>2, <2>3, <2>4
  <2>5. CASE e > 0
    <3>1. run[0].met
      BY <2>2, <2>5
    <3>2. /\ Follows(ts, policy, e, [t \in 0 .. e |-> run[t].left])
          /\ run[e].met <=> ~ Misses(ts, e, run[e].left)
      BY <1>1, <2>2, <2>5, <3>1, RunFollows
    <3> DEFINE left == [t \in 0 .. e |-> run[t].left]
    <3>3. left[e] = run[e].left
      BY <2>2
    <3>4. Misses(ts, e, left[e])
      BY <2>2, <3>2, <3>3
    <3> QED BY <1>1, <2>2, <2>3, <3>2, <3>4
  <2> QED BY <2>2, <2>4, <2>5
<1> QED BY <1>6, <1>7

\* A bounded set of natural numbers has a largest one.
LEMMA MaxNat ==
    ASSUME NEW S, S \subseteq Nat, S # {}, NEW b \in Nat, \A x \in S : x <= b
    PROVE  Max(S) \in S /\ \A x \in S : x <= Max(S)
<1> DEFINE Q == {b - x : x \in S}
<1>1. Q \subseteq Nat /\ Q # {}
  <2>1. \A x \in S : b - x \in Nat
    OBVIOUS
  <2> QED BY <2>1
<1>2. PICK m \in Q : \A y \in Q : m <= y
  <2> HIDE DEF Q
  <2> QED BY <1>1, MinimalNat
<1>3. PICK x \in S : m = b - x
  BY <1>2
<1>4. \A y \in S : x >= y
  <2> TAKE y \in S
  <2>1. b - x <= b - y /\ x \in Nat /\ y \in Nat
    BY <1>2, <1>3
  <2> QED BY <2>1
<1>5. Max(S) \in S /\ \A y \in S : Max(S) >= y
  BY <1>3, <1>4 DEF Max
<1>6. \A y \in S : y \in Nat
  OBVIOUS
<1> QED BY <1>5, <1>6

LEMMA LongestDeadlineFacts ==
    ASSUME NEW ts, TaskSet(ts)
    PROVE  /\ LongestDeadline(ts) \in Nat
           /\ \A i \in DOMAIN ts : ts[i].deadline <= LongestDeadline(ts)
<1> DEFINE f == [i \in DOMAIN ts |-> ts[i].deadline]
<1> DEFINE b == SumOver(f, DOMAIN ts)
<1> DEFINE S == {0} \cup {ts[i].deadline : i \in DOMAIN ts}
<1>1. IsFiniteSet(DOMAIN ts) /\ \A i \in DOMAIN ts : ts[i].deadline \in Nat
  BY TaskFacts
<1>2. b \in Nat
  BY <1>1, SumNat
<1>3. \A i \in DOMAIN ts : ts[i].deadline <= b
  <2> TAKE i \in DOMAIN ts
  <2>1. b = f[i] + SumOver(f, DOMAIN ts \ {i})
    BY <1>1, SumRemove
  <2>2. SumOver(f, DOMAIN ts \ {i}) \in Nat
    <3>1. IsFiniteSet(DOMAIN ts \ {i})
      BY <1>1, FS_Subset
    <3> QED BY <1>1, <3>1, SumNat
  <2>3. f[i] = ts[i].deadline /\ f[i] \in Nat
    BY <1>1
  <2> HIDE DEF f, b
  <2> QED BY <2>1, <2>2, <2>3
<1>4. S \subseteq Nat /\ S # {} /\ \A x \in S : x <= b
  <2> HIDE DEF b
  <2> QED BY <1>1, <1>2, <1>3
<1>5. Max(S) \in S /\ \A x \in S : x <= Max(S)
  <2> HIDE DEF b, S
  <2> QED BY <1>2, <1>4, MaxNat
<1> QED BY <1>4, <1>5 DEF LongestDeadline

\* Until the longest deadline no deadline is missed, whatever is released,
\* exactly if each task meets the response time test.
LEMMA FixedScheduleDecides ==
    ASSUME NEW ts, TaskSet(ts), NEW policy \in {"rm", "dm"}
    PROVE  Feasible(ts, policy) <=> \A i \in DOMAIN ts : Met(ts, KeyOf(policy), i)
<1> DEFINE horizon == LongestDeadline(ts)
<1> DEFINE meets == MeetsDeadlines(ts, policy, horizon)
<1>1. Feasible(ts, policy) = meets
  BY DEF Feasible
<1>2. horizon \in Nat /\ \A i \in DOMAIN ts : ts[i].deadline <= horizon
  BY LongestDeadlineFacts
<1>3. \/ /\ ~ meets
         /\ \E i \in DOMAIN ts : ts[i].deadline = 0 /\ ts[i].wcet # 0
      \/ /\ ~ meets
         /\ \E e \in 0 .. horizon : \E left :
               Follows(ts, policy, e, left) /\ Misses(ts, e, left[e])
      \/ /\ meets
         /\ \E left : /\ Follows(ts, policy, horizon, left)
                      /\ ~ Misses(ts, horizon, left[horizon])
  BY <1>2, MeetsOrMisses
<1> HIDE DEF horizon, meets
<1>4. ASSUME NEW i \in DOMAIN ts, ts[i].deadline = 0, ts[i].wcet # 0
      PROVE  ~ Met(ts, KeyOf(policy), i)
  <2> DEFINE H == HigherTasks(ts, KeyOf(policy), i)
  <2>1. SUFFICES ASSUME NEW a \in Nat, a <= 0, ts[i].wcet + SumOver(Released(ts, a, {}), H) <= a
                 PROVE  FALSE
    BY <1>4 DEF Met, Done
  <2>2. H \subseteq DOMAIN ts /\ IsFiniteSet(H)
    BY HigherAreTasks
  <2>3. \A j \in H : Released(ts, a, {})[j] \in Nat
    BY <2>2, ReleasedNat
  <2>4. SumOver(Released(ts, a, {}), H) \in Nat
    <3> HIDE DEF H
    <3> QED BY <2>2, <2>3, SumNat
  <2>5. ts[i].wcet \in Nat
    BY TaskFacts
  <2> HIDE DEF H
  <2> QED BY <1>4, <2>1, <2>4, <2>5
<1>5. ASSUME \A i \in DOMAIN ts : Met(ts, KeyOf(policy), i) PROVE meets
  <2>1. ASSUME NEW e \in 0 .. horizon, NEW left,
               Follows(ts, policy, e, left), Misses(ts, e, left[e])
        PROVE  FALSE
    <3>1. e \in Nat
      BY <1>2
    <3> QED BY <1>5, <2>1, <3>1, MetIsInTime
  <2> QED BY <1>3, <1>4, <1>5, <2>1
<1>6. ASSUME meets, NEW i \in DOMAIN ts PROVE Met(ts, KeyOf(policy), i)
  <2>1. PICK left : /\ Follows(ts, policy, horizon, left)
                    /\ ~ Misses(ts, horizon, left[horizon])
    BY <1>3, <1>6
  <2> DEFINE d == ts[i].deadline
  <2>2. /\ d \in Nat /\ d <= horizon /\ d \in 0 .. horizon /\ d >= d /\ (d - d) % ts[i].period = 0
        /\ policy \in Policies
    BY <1>2, TaskFacts DEF Policies
  <2>3. ~ Misses(ts, d, left[d])
    <3>1. CASE d = horizon
      BY <2>1, <3>1
    <3>2. CASE d # horizon
      <4>1. d \in 0 .. horizon - 1
        BY <1>2, <2>2, <3>2
      <4> QED BY <2>1, <4>1 DEF Follows
    <3> QED BY <3>1, <3>2
  <2>4. left[d][i] \in Nat
    BY <1>2, <2>1, <2>2, LeftFacts
  <2>5. left[d][i] = 0
    <3>1. ~ (left[d][i] > 0)
      BY <2>2, <2>3 DEF Misses
    <3> QED BY <2>4, <3>1
  <2> QED BY <1>2, <2>1, <2>2, <2>5, InTimeIsMet
<1> QED BY <1>1, <1>5, <1>6

-----------------------------------------------------------------------------
(* The schedule by deadlines *)

LEMMA CeilCount ==
    ASSUME NEW x \in Nat, NEW k \in Nat, NEW p \in Nat \ {0}
    PROVE  k < Ceil(x + 1, p) <=> k * p <= x
<1>1. PICK q \in Nat, m \in 0 .. p - 1 : At(x, p, q, m)
  BY EachTimeIsAt
<1>2. x % p = m /\ Ceil(x, p) = IF m = 0 THEN q ELSE q + 1
  BY <1>1, CeilAt
<1>3. Ceil(x + 1, p) = q + 1
  <2>1. Ceil(x + 1, p) = Ceil(x, p) + IF x % p = 0 THEN 1 ELSE 0
    BY NextInPeriod
  <2> QED BY <1>2, <2>1
<1>4. x = p * q + m /\ p * q \in Nat /\ k * p \in Nat
  BY <1>1 DEF At
<1>5. CASE k <= q
  <2>1. k * p <= q * p /\ q * p = p * q
    BY <1>5
  <2> QED BY <1>3, <1>4, <1>5, <2>1
<1>6. CASE k >= q + 1
  <2>1. k * p >= (q + 1) * p /\ (q + 1) * p = p * q + p
    BY <1>6
  <2> QED BY <1>3, <1>4, <1>6, <2>1
<1> QED BY <1>5, <1>6

\* How many jobs of task i are due by time e.
JobsDue(ts, i, e) ==
    IF ts[i].deadline <= e THEN Ceil((e - ts[i].deadline) + 1, ts[i].period) ELSE 0

LEMMA JobsDueFacts ==
    ASSUME NEW ts, TaskSet(ts), NEW e \in Nat, NEW i \in DOMAIN ts
    PROVE  /\ JobsDue(ts, i, e) \in Nat
           /\ \A k \in Nat : k < JobsDue(ts, i, e)
                             <=> k * ts[i].period + ts[i].deadline <= e
<1> DEFINE d == ts[i].deadline
<1> DEFINE p == ts[i].period
<1> DEFINE n == JobsDue(ts, i, e)
<1>1. d \in Nat /\ p \in Nat \ {0}
  BY TaskFacts
<1>2. CASE d <= e
  <2> DEFINE x == e - d
  <2>1. x \in Nat /\ n = Ceil(x + 1, p)
    BY <1>1, <1>2 DEF JobsDue
  <2>2. x + 1 \in Nat
    BY <2>1
  <2> HIDE DEF x, n
  <2>3. n \in Nat
    <3> HIDE DEF p
    <3> QED BY <1>1, <2>1, <2>2, CeilFacts
  <2>4. \A k \in Nat : k < n <=> k * p <= x
    <3> HIDE DEF p
    <3> QED BY <1>1, <2>1, CeilCount
  <2>5. \A k \in Nat : k * p <= x <=> k * p + d <= e
    <3> TAKE k \in Nat
    <3>1. k * p \in Nat
      BY <1>1
    <3> QED BY <1>1, <3>1 DEF x
  <2> QED BY <2>3, <2>4, <2>5 DEF n
<1>3. CASE ~ (d <= e)
  <2>1. n = 0
    BY <1>3 DEF JobsDue
  <2>2. \A k \in Nat : ~ (k * p + d <= e) /\ ~ (k < 0)
    <3> TAKE k \in Nat
    <3>1. k * p \in Nat
      BY <1>1
    <3> QED BY <1>1, <1>3, <3>1
  <2> HIDE DEF n
  <2> QED BY <2>1, <2>2 DEF n
<1> QED BY <1>2, <1>3

\* The job of task i that is there in the unit from t on is due by e.
LEMMA RankIsDue ==
    ASSUME NEW ts, TaskSet(ts), NEW e \in Nat, NEW i \in DOMAIN ts, NEW t \in Nat
    PROVE  Rank(ts, "edf", i, t) <= e <=> Ceil(t + 1, ts[i].period) <= JobsDue(ts, i, e)
<1> DEFINE d == ts[i].deadline
<1> DEFINE p == ts[i].period
<1> DEFINE n == JobsDue(ts, i, e)
<1>1. d \in Nat /\ p \in Nat \ {0}
  BY TaskFacts
<1>2. PICK q \in Nat, m \in 0 .. p - 1 : At(t, p, q, m)
  <2> HIDE DEF p
  <2> QED BY <1>1, EachTimeIsAt
<1>3. t % p = m /\ Ceil(t, p) = IF m = 0 THEN q ELSE q + 1
  <2> HIDE DEF p
  <2> QED BY <1>1, <1>2, CeilAt
<1>4. Ceil(t + 1, p) = q + 1
  <2> HIDE DEF p
  <2>1. Ceil(t + 1, p) = Ceil(t, p) + IF t % p = 0 THEN 1 ELSE 0
    BY <1>1, NextInPeriod
  <2> QED BY <1>3, <2>1
<1>5. Rank(ts, "edf", i, t) = q * p + d
  <2>1. t = p * q + m /\ p * q \in Nat /\ q * p = p * q
    BY <1>1, <1>2 DEF At
  <2>2. Rank(ts, "edf", i, t) = t - (t % p) + d
    BY DEF Rank, Release
  <2> HIDE DEF p, d
  <2> QED BY <1>1, <1>3, <2>1, <2>2
<1>6. n \in Nat /\ (q < n <=> q * p + d <= e)
  BY JobsDueFacts
<1> HIDE DEF n, p, d
<1>7. q + 1 <= n <=> q < n
  BY <1>6
<1> QED BY <1>4, <1>5, <1>6, <1>7 DEF n, p

\* What was done by time t of the jobs of each task that are due by e.
EarlyServed(ts, t, left, e) ==
    [i \in DOMAIN ts |-> IF Ceil(t, ts[i].period) <= JobsDue(ts, i, e)
                         THEN Served(ts, t, left)[i]
                         ELSE JobsDue(ts, i, e) * ts[i].wcet]

LEMMA EarlyUnit ==
    ASSUME NEW ts, TaskSet(ts), NEW policy \in Policies, NEW horizon \in Nat, NEW left,
           Follows(ts, policy, horizon, left), NEW t \in 0 .. horizon - 1, NEW i \in DOMAIN ts,
           NEW e \in Nat
    PROVE  /\ EarlyServed(ts, t, left, e)[i] \in Nat
           /\ EarlyServed(ts, t + 1, left, e)[i]
              = EarlyServed(ts, t, left, e)[i]
                + IF Ceil(t + 1, ts[i].period) <= JobsDue(ts, i, e)
                  THEN WorkAt(ts, t, left[t])[i] - left[t + 1][i] ELSE 0
<1> DEFINE p == ts[i].period
<1> DEFINE w == ts[i].wcet
<1> DEFINE n == JobsDue(ts, i, e)
<1> DEFINE c == Ceil(t, p)
<1> DEFINE b == Ceil(t + 1, p)
<1> DEFINE x == Served(ts, t, left)[i]
<1> DEFINE y == Served(ts, t + 1, left)[i]
<1> DEFINE v == WorkAt(ts, t, left[t])[i]
<1> DEFINE z == left[t + 1][i]
<1>1. t \in 0 .. horizon /\ t + 1 \in 0 .. horizon /\ t \in Nat
  OBVIOUS
<1>2. p \in Nat \ {0} /\ w \in Nat /\ n \in Nat
  BY TaskFacts, JobsDueFacts
<1>3. n * w \in Nat
  BY <1>2
<1>4. c \in Nat /\ b = c + IF t % p = 0 THEN 1 ELSE 0
  <2> HIDE DEF p
  <2> QED BY <1>1, <1>2, CeilFacts, NextInPeriod
<1>5. x \in Nat /\ y \in Nat /\ z \in Nat /\ x = c * w - left[t][i]
  BY <1>1, ServedFacts
<1>6. y + z = x + v
  BY ServedUnit
<1>7. v \in Nat
  <2>1. \A j \in DOMAIN ts : left[t][j] \in Nat /\ left[t][j] <= ts[j].wcet
    BY <1>1, LeftFacts
  <2> QED BY <1>1, <2>1, WorkFacts
<1>8. t % p = 0 => x = c * w
  <2>1. t % p = 0 => left[t][i] = 0
    BY NothingLeft
  <2>2. c * w \in Nat
    BY <1>2, <1>4
  <2> QED BY <1>5, <2>1, <2>2
<1>9. /\ EarlyServed(ts, t, left, e)[i] = IF c <= n THEN x ELSE n * w
      /\ EarlyServed(ts, t + 1, left, e)[i] = IF b <= n THEN y ELSE n * w
  BY DEF EarlyServed
<1> HIDE DEF p, w, n, c, b, x, y, v, z
<1>10. (IF b <= n THEN y ELSE n * w)
       = (IF c <= n THEN x ELSE n * w) + IF b <= n THEN v - z ELSE 0
  <2>1. CASE b <= n
    <3>1. c <= n /\ y = x + (v - z)
      BY <1>2, <1>4, <1>5, <1>6, <1>7, <2>1
    <3> QED BY <2>1, <3>1
  <2>2. CASE ~ (b <= n) /\ c <= n
    <3>1. c = n /\ t % p = 0
      BY <1>2, <1>4, <2>2
    <3> QED BY <1>3, <1>8, <2>2, <3>1
  <2>3. CASE ~ (b <= n) /\ ~ (c <= n)
    BY <1>3, <2>3
  <2> QED BY <2>1, <2>2, <2>3
<1>11. EarlyServed(ts, t, left, e)[i] \in Nat
  BY <1>3, <1>5, <1>9
<1>12. EarlyServed(ts, t + 1, left, e)[i]
       = EarlyServed(ts, t, left, e)[i] + IF b <= n THEN v - z ELSE 0
  BY <1>9, <1>10
<1> QED BY <1>11, <1>12 DEF b, n, v, z, p

\* While a job that is due by e has work, such a job is served.
LEMMA EarlyNext ==
    ASSUME NEW ts, TaskSet(ts), NEW horizon \in Nat, NEW left,
           Follows(ts, "edf", horizon, left), NEW t \in 0 .. horizon - 1, NEW e \in Nat,
           \E i \in DOMAIN ts : /\ WorkAt(ts, t, left[t])[i] > 0
                                /\ Ceil(t + 1, ts[i].period) <= JobsDue(ts, i, e)
    PROVE  SumOver(EarlyServed(ts, t + 1, left, e), DOMAIN ts)
           = SumOver(EarlyServed(ts, t, left, e), DOMAIN ts) + 1
<1> DEFINE f == EarlyServed(ts, t, left, e)
<1> DEFINE g == EarlyServed(ts, t + 1, left, e)
<1> DEFINE work == WorkAt(ts, t, left[t])
<1> DEFINE next == left[t + 1]
<1> DEFINE early(i) == Ceil(t + 1, ts[i].period) <= JobsDue(ts, i, e)
<1> DEFINE rank(i) == Rank(ts, "edf", i, t)
<1>1. "edf" \in Policies /\ t \in Nat /\ t \in 0 .. horizon
  BY DEF Policies
<1>2. \A i \in DOMAIN ts : /\ f[i] \in Nat
                           /\ g[i] = f[i] + IF early(i) THEN work[i] - next[i] ELSE 0
  BY <1>1, EarlyUnit
<1>3. \A i \in DOMAIN ts : rank(i) \in Nat /\ (early(i) <=> rank(i) <= e)
  BY <1>1, RankNat, RankIsDue
<1>4. \A i \in DOMAIN ts : work[i] \in Nat
  <2>1. \A j \in DOMAIN ts : left[t][j] \in Nat /\ left[t][j] <= ts[j].wcet
    BY <1>1, LeftFacts
  <2> QED BY <1>1, <2>1, WorkFacts
<1>5. PICK i \in DOMAIN ts : work[i] > 0 /\ early(i)
  OBVIOUS
<1>6. DOMAIN work = DOMAIN ts /\ next = OneUnit(ts, "edf", t, left[t])
  BY DEF WorkAt, Follows
<1>7. PICK k : Serves(ts, "edf", t, work, next, k)
  <2>1. \/ next = work /\ \A j \in DOMAIN ts : ~(work[j] > 0)
        \/ \E k : Serves(ts, "edf", t, work, next, k)
    BY <1>1, <1>6, UnitServes
  <2> QED BY <1>5, <2>1
<1> HIDE DEF f, g, work, next
<1>8. /\ k \in DOMAIN ts /\ work[k] > 0 /\ next[k] = work[k] - 1
      /\ \A j \in DOMAIN ts : j # k => next[j] = work[j]
      /\ k # i => Before(ts, "edf", t, k, i)
  BY <1>5, <1>6, <1>7 DEF Serves
<1>9. early(k)
  <2>1. rank(k) <= rank(i)
    <3>1. k = i \/ rank(k) < rank(i) \/ rank(k) = rank(i)
      BY <1>8 DEF Before
    <3>2. rank(k) \in Nat /\ rank(i) \in Nat
      BY <1>3, <1>8
    <3> HIDE DEF rank
    <3> QED BY <3>1, <3>2
  <2>2. rank(i) <= e /\ rank(i) \in Nat /\ rank(k) \in Nat
    BY <1>3, <1>5, <1>8
  <2>3. rank(k) <= e
    <3> HIDE DEF rank
    <3> QED BY <2>1, <2>2
  <2> QED BY <1>3, <1>8, <2>3
<1> HIDE DEF early
<1>10. g[k] = f[k] + 1 /\ \A j \in DOMAIN ts : j # k => g[j] = f[j]
  BY <1>2, <1>4, <1>8, <1>9
<1>11. SumOver(g, DOMAIN ts) = SumOver(f, DOMAIN ts) + 1
  BY <1>2, <1>8, <1>10, TaskFacts, SumBump
<1> QED BY <1>11 DEF f, g

\* What a task has left it had in the unit before.
LEMMA LeftWasThere ==
    ASSUME NEW ts, TaskSet(ts), NEW policy \in Policies, NEW horizon \in Nat, NEW left,
           Follows(ts, policy, horizon, left), NEW u \in 0 .. horizon - 1, NEW i \in DOMAIN ts,
           left[u + 1][i] > 0
    PROVE  WorkAt(ts, u, left[u])[i] > 0
<1>1. u \in 0 .. horizon /\ u \in Nat
  OBVIOUS
<1>2. \A k \in DOMAIN ts : left[u][k] \in Nat /\ left[u][k] <= ts[k].wcet
  BY <1>1, LeftFacts
<1> DEFINE x == left[u + 1][i]
<1> DEFINE y == WorkAt(ts, u, left[u])[i]
<1>3. left[u + 1] = OneUnit(ts, policy, u, left[u])
  BY DEF Follows
<1>4. x \in Nat /\ (x = y \/ x = y - 1) /\ y \in Nat
  BY <1>1, <1>2, <1>3, UnitFacts, WorkFacts
<1>5. x > 0
  OBVIOUS
<1> HIDE DEF x, y
<1>6. y > 0
  BY <1>4, <1>5
<1> QED BY <1>6 DEF y

\* A set that is not overloaded up to e misses no deadline at e under EDF.
\* Suppose that it misses one at e, and let s be the last time before at which
\* no job that is due by e had work left. From then on such jobs were served,
\* and were more than fits; released together, they overload the time from s
\* to e.
LEMMA NoOverloadInTime ==
    ASSUME NEW ts, TaskSet(ts), NEW e \in Nat, NEW left, Follows(ts, "edf", e, left),
           \A d \in 0 .. e : ~ OverloadedAt(ts, d)
    PROVE  ~ Misses(ts, e, left[e])
<1>1. SUFFICES ASSUME NEW i \in DOMAIN ts, e >= ts[i].deadline,
                      (e - ts[i].deadline) % ts[i].period = 0, left[e][i] > 0
               PROVE  FALSE
  BY DEF Misses
<1> DEFINE n(j) == JobsDue(ts, j, e)
<1> DEFINE c(t, j) == Ceil(t, ts[j].period)
<1> DEFINE w(j) == ts[j].wcet
<1>2. "edf" \in Policies
  BY DEF Policies
<1>3. \A t \in 0 .. e : \A j \in DOMAIN ts : left[t][j] \in Nat /\ left[t][j] <= w(j)
  BY <1>2, LeftFacts
<1>4. \A j \in DOMAIN ts : /\ ts[j].period \in Nat \ {0} /\ ts[j].deadline \in Nat
                           /\ ts[j].deadline <= ts[j].period
                           /\ w(j) \in Nat /\ n(j) \in Nat /\ n(j) * w(j) \in Nat
  BY TaskFacts, JobsDueFacts
<1>5. \A t \in Nat : \A j \in DOMAIN ts : c(t, j) \in Nat
  BY <1>4, CeilFacts
<1>6. IsFiniteSet(DOMAIN ts)
  BY TaskFacts
<1>7. ts[i].deadline > 0 /\ e > 0
  <2>1. left[e][i] <= w(i) /\ left[e][i] \in Nat
    BY <1>3
  <2>2. w(i) # 0
    BY <1>1, <1>4, <2>1
  <2>3. ts[i].deadline # 0
    BY <2>2 DEF Follows
  <2> QED BY <1>1, <1>4, <2>3
\* The job that misses its deadline is the last one that is due.
<1>8. c(e, i) = n(i)
  <2> DEFINE r == e - ts[i].deadline
  <2> DEFINE p == ts[i].period
  <2>1. r \in Nat /\ p \in Nat \ {0} /\ r % p = 0 /\ r < e /\ e <= r + p
    <3> DEFINE d == ts[i].deadline
    <3>1. /\ d \in Nat /\ d <= p /\ d > 0 /\ e >= d /\ p \in Nat \ {0}
          /\ r = e - d /\ r % p = 0
      BY <1>1, <1>4, <1>7
    <3> HIDE DEF d, p, r
    <3> QED BY <3>1
  <2>2. Ceil(e, p) = Ceil(r, p) + 1
    <3> HIDE DEF r, p
    <3> QED BY <2>1, NextRelease
  <2>3. Ceil(r + 1, p) = Ceil(r, p) + 1
    <3> HIDE DEF r, p
    <3>1. Ceil(r + 1, p) = Ceil(r, p) + IF r % p = 0 THEN 1 ELSE 0
      BY <2>1, NextInPeriod
    <3> QED BY <2>1, <3>1
  <2>4. n(i) = Ceil(r + 1, p)
    BY <1>1, <1>4 DEF JobsDue
  <2> QED BY <2>2, <2>3, <2>4
<1> DEFINE Clear == {t \in 0 .. e - 1 : \A j \in DOMAIN ts : c(t, j) <= n(j) => left[t][j] = 0}
<1>9. PICK s \in Clear : \A t \in Clear : t <= s
  <2>1. 0 \in Clear
    BY <1>7 DEF Follows
  <2> DEFINE b == e - 1
  <2>2. Clear \subseteq Nat /\ Clear # {} /\ b \in Nat /\ \A t \in Clear : t <= b
    BY <1>7, <2>1
  <2>3. Max(Clear) \in Clear /\ \A t \in Clear : t <= Max(Clear)
    <3> HIDE DEF Clear, b
    <3> QED BY <2>2, MaxNat
  <2> HIDE DEF Clear
  <2> QED BY <2>3
<1>10. /\ s \in 0 .. e - 1 /\ s \in Nat /\ s \in 0 .. e /\ s < e /\ e - s \in Nat
       /\ \A j \in DOMAIN ts : c(s, j) <= n(j) => left[s][j] = 0
       /\ \A t \in s + 1 .. e - 1 : \E j \in DOMAIN ts : c(t, j) <= n(j) /\ left[t][j] # 0
  <2>1. \A t \in s + 1 .. e - 1 : t \in 0 .. e - 1 /\ ~ (t <= s)
    BY <1>9
  <2>2. \A t \in s + 1 .. e - 1 : t \notin Clear
    <3> HIDE DEF Clear
    <3> QED BY <1>9, <2>1
  <2>3. \A t \in s + 1 .. e - 1 : \E j \in DOMAIN ts : c(t, j) <= n(j) /\ left[t][j] # 0
    <3> HIDE DEF c, n
    <3> QED BY <2>1, <2>2
  <2> QED BY <1>9, <2>3
<1> HIDE DEF Clear
\* From s on such a job always has work.
<1>11. ASSUME NEW u \in s .. e - 1
       PROVE  \E j \in DOMAIN ts : WorkAt(ts, u, left[u])[j] > 0 /\ c(u + 1, j) <= n(j)
  <2>1. u \in 0 .. e - 1 /\ u + 1 \in 0 .. e
    BY <1>10
  <2>2. PICK j \in DOMAIN ts : c(u + 1, j) <= n(j) /\ left[u + 1][j] > 0
    <3>1. CASE u + 1 = e
      <4>1. c(u + 1, i) <= n(i)
        <5>1. c(u + 1, i) = n(i) /\ n(i) \in Nat
          BY <1>4, <1>8, <3>1
        <5> HIDE DEF c, n
        <5> QED BY <5>1
      <4> QED BY <1>1, <3>1, <4>1
    <3>2. CASE u + 1 # e
      <4>1. u + 1 \in s + 1 .. e - 1
        BY <1>10, <3>2
      <4>2. PICK j \in DOMAIN ts : c(u + 1, j) <= n(j) /\ left[u + 1][j] # 0
        BY <1>10, <4>1
      <4>3. left[u + 1][j] > 0
        BY <1>3, <2>1, <4>2
      <4> QED BY <4>2, <4>3
    <3> QED BY <3>1, <3>2
  <2>3. WorkAt(ts, u, left[u])[j] > 0
    BY <1>2, <2>1, <2>2, LeftWasThere
  <2> QED BY <2>2, <2>3
<1> DEFINE G(t) == SumOver(EarlyServed(ts, t, left, e), DOMAIN ts)
<1> DEFINE m == [j \in DOMAIN ts |-> IF n(j) > c(s, j) THEN n(j) - c(s, j) ELSE 0]
<1> DEFINE due == [j \in DOMAIN ts |-> n(j) * w(j)]
<1> DEFINE gs == EarlyServed(ts, s, left, e)
<1> DEFINE ge == EarlyServed(ts, e, left, e)
<1>12. ASSUME NEW j \in DOMAIN ts
       PROVE  /\ m[j] \in Nat /\ gs[j] \in Nat /\ due[j] = n(j) * w(j) /\ due[j] \in Nat
              /\ JobWork(ts, m)[j] \in Nat
              /\ due[j] = JobWork(ts, m)[j] + gs[j]
  <2> DEFINE a == c(s, j)
  <2> DEFINE b == n(j)
  <2> DEFINE v == w(j)
  <2>1. a \in Nat /\ b \in Nat /\ v \in Nat
    BY <1>4, <1>5, <1>10
  <2>2. m[j] = IF b > a THEN b - a ELSE 0
    OBVIOUS
  <2>3. gs[j] = IF a <= b THEN a * v ELSE b * v
    <3>1. gs[j] = IF a <= b THEN Served(ts, s, left)[j] ELSE b * v
      BY DEF EarlyServed
    <3>2. Served(ts, s, left)[j] = a * v - left[s][j]
      BY DEF Served
    <3>3. a <= b => left[s][j] = 0
      BY <1>10
    <3>4. a * v \in Nat
      BY <2>1
    <3> HIDE DEF a, b, v, gs
    <3> QED BY <2>1, <3>1, <3>2, <3>3, <3>4
  <2>4. JobWork(ts, m)[j] = m[j] * v
    BY DEF JobWork
  <2>5. due[j] = b * v
    OBVIOUS
  <2> HIDE DEF a, b, v, m, gs, due
  <2>6. m[j] \in Nat /\ a * v \in Nat /\ b * v \in Nat /\ m[j] * v \in Nat
    BY <2>1, <2>2
  <2>7. b * v = m[j] * v + IF a <= b THEN a * v ELSE b * v
    <3>1. CASE a <= b
      <4>1. m[j] = b - a
        BY <2>1, <2>2, <3>1
      <4>2. b * v = (b - a) * v + a * v
        BY <2>1
      <4> QED BY <3>1, <4>1, <4>2
    <3>2. CASE ~ (a <= b)
      <4>1. m[j] = 0
        BY <2>1, <2>2, <3>2
      <4>2. m[j] * v = 0
        BY <2>1, <4>1
      <4> QED BY <2>6, <3>2, <4>2
    <3> QED BY <3>1, <3>2
  <2>8. due[j] = JobWork(ts, m)[j] + gs[j] /\ gs[j] \in Nat
    BY <2>3, <2>4, <2>5, <2>6, <2>7
  <2> QED BY <2>4, <2>5, <2>6, <2>8 DEF b, v
<1>13. m \in [DOMAIN ts -> Nat]
  BY <1>4, <1>5, <1>10
\* They are due in the time from s to e.
<1>14. ASSUME NEW j \in DOMAIN ts, m[j] > 0
       PROVE  ts[j].deadline + (m[j] - 1) * ts[j].period <= e - s
  <2> DEFINE p == ts[j].period
  <2> DEFINE d == ts[j].deadline
  <2> DEFINE a == c(s, j)
  <2> DEFINE k == n(j) - 1
  <2>1. p \in Nat \ {0} /\ d \in Nat /\ a \in Nat /\ n(j) \in Nat
    BY <1>4, <1>5, <1>10
  <2>2. n(j) > a /\ m[j] = n(j) - a /\ k \in Nat /\ k < n(j)
    <3>1. m[j] = IF n(j) > a THEN n(j) - a ELSE 0
      OBVIOUS
    <3> HIDE DEF m, n, a
    <3> QED BY <1>14, <2>1, <3>1
  <2>3. k * p + d <= e
    <3> HIDE DEF k, p, d
    <3>1. k * ts[j].period + ts[j].deadline <= e
      BY <2>2, JobsDueFacts
    <3> QED BY <3>1 DEF p, d
  <2>4. s <= a * p
    <3>1. s <= Ceil(s, p) * p
      <4> HIDE DEF p
      <4> QED BY <1>10, <2>1, CeilFacts
    <3> QED BY <3>1
  <2>5. m[j] - 1 = k - a
    BY <2>1, <2>2
  <2> HIDE DEF k, p, d, a, m, n
  <2>6. (m[j] - 1) * p = k * p - a * p /\ k * p \in Nat /\ a * p \in Nat
    BY <2>1, <2>2, <2>5
  <2>7. d + (m[j] - 1) * p <= e - s
    BY <1>10, <2>1, <2>3, <2>4, <2>6
  <2> QED BY <2>7 DEF d, p
\* But they were not done by then.
<1>15. ASSUME NEW j \in DOMAIN ts
       PROVE  ge[j] \in Nat /\ ge[j] <= due[j] /\ (j = i => ge[j] < due[j])
  <2> DEFINE a == c(e, j)
  <2> DEFINE b == n(j)
  <2> DEFINE v == w(j)
  <2> DEFINE x == Served(ts, e, left)[j]
  <2>1. a \in Nat /\ b \in Nat /\ v \in Nat /\ due[j] = b * v /\ b * v \in Nat
    BY <1>4, <1>5
  <2>2. ge[j] = IF a <= b THEN x ELSE b * v
    BY DEF EarlyServed
  <2>3. x = a * v - left[e][j] /\ x \in Nat /\ left[e][j] \in Nat
    <3>1. e \in 0 .. e
      OBVIOUS
    <3> QED BY <1>2, <3>1, ServedFacts
  <2>4. j = i => a = b /\ left[e][j] > 0
    BY <1>1, <1>8
  <2> HIDE DEF a, b, v, x, ge, due, n, c, w
  <2>5. a * v \in Nat /\ (a <= b => a * v <= b * v)
    BY <2>1
  <2> QED BY <2>1, <2>2, <2>3, <2>4, <2>5
<1>16. G(e) = G(s) + (e - s)
  <2> DEFINE Q == {t \in s .. e : G(t) \in Nat /\ G(t) = G(s) + (t - s)}
  <2>1. G(s) \in Nat
    <3> HIDE DEF n, c, w
    <3>1. \A j \in DOMAIN ts : EarlyServed(ts, s, left, e)[j] \in Nat
      BY <1>12
    <3> QED BY <1>6, <3>1, SumNat
  <2>2. s \in Q
    <3> HIDE DEF G
    <3> QED BY <1>10, <2>1
  <2>3. ASSUME NEW u \in s .. e - 1, u \in Q PROVE u + 1 \in Q
    <3>1. u \in 0 .. e - 1 /\ u \in Nat /\ u + 1 \in s .. e
      BY <1>10
    <3>2. G(u + 1) = G(u) + 1
      BY <1>11, <3>1, EarlyNext
    <3>3. G(u) \in Nat /\ G(u) = G(s) + (u - s)
      BY <2>3
    <3> HIDE DEF G
    <3> QED BY <1>10, <2>1, <3>1, <3>2, <3>3
  <2>4. \A t \in s .. e : t \in Q
    <3> HIDE DEF Q
    <3> QED BY <1>10, <2>2, <2>3, StepByStep
  <2> QED BY <1>10, <2>4
<1> HIDE DEF n, c, w, m, due, gs, ge
<1>17. SumOver(due, DOMAIN ts) = SumOver(JobWork(ts, m), DOMAIN ts) + SumOver(gs, DOMAIN ts)
  BY <1>6, <1>12, SumPlus
<1>18. SumOver(ge, DOMAIN ts) < SumOver(due, DOMAIN ts)
  BY <1>6, <1>12, <1>15, SumStrict
<1>19. /\ SumOver(due, DOMAIN ts) \in Nat /\ SumOver(JobWork(ts, m), DOMAIN ts) \in Nat
       /\ SumOver(gs, DOMAIN ts) \in Nat /\ SumOver(ge, DOMAIN ts) \in Nat
  BY <1>6, <1>12, <1>15, SumNat
<1>20. SumOver(ge, DOMAIN ts) = SumOver(gs, DOMAIN ts) + (e - s)
  BY <1>16 DEF gs, ge
<1>21. SumOver(JobWork(ts, m), DOMAIN ts) > e - s
  <2> HIDE DEF G
  <2> QED BY <1>10, <1>17, <1>18, <1>19, <1>20
<1>22. OverloadedAt(ts, e - s)
  BY <1>13, <1>14, <1>21 DEF OverloadedAt
<1>23. e - s \in 0 .. e
  BY <1>10
<1> QED BY <1>22, <1>23

-----------------------------------------------------------------------------
(* Overload *)

\* If what is released in the first a units fits in them, an overload after
\* them is one of a time that is a shorter.
LEMMA EarlierOverload ==
    ASSUME NEW ts, TaskSet(ts), NEW a \in Nat, NEW d \in Nat, a <= d,
           SumOver(Released(ts, a, {}), DOMAIN ts) <= a, OverloadedAt(ts, d)
    PROVE  OverloadedAt(ts, d - a)
<1>1. PICK n \in [DOMAIN ts -> Nat] :
         /\ \A i \in DOMAIN ts : n[i] > 0 => ts[i].deadline + (n[i] - 1) * ts[i].period <= d
         /\ SumOver(JobWork(ts, n), DOMAIN ts) > d
  BY DEF OverloadedAt
<1>2. PICK m \in [DOMAIN ts -> Nat] :
         /\ \A i \in DOMAIN ts :
               m[i] > 0 => ts[i].deadline + (m[i] - 1) * ts[i].period <= d - a
         /\ \A i \in DOMAIN ts :
               JobWork(ts, n)[i] <= Released(ts, a, {})[i] + JobWork(ts, m)[i]
  BY <1>1, OverloadLeft
<1> DEFINE f == JobWork(ts, n)
<1> DEFINE g == Released(ts, a, {})
<1> DEFINE r == JobWork(ts, m)
<1>3. \A i \in DOMAIN ts : f[i] \in Nat /\ g[i] \in Nat /\ r[i] \in Nat
  BY JobWorkNat, ReleasedNat
<1>4. IsFiniteSet(DOMAIN ts)
  BY TaskFacts
<1>5. \A i \in DOMAIN ts : f[i] <= g[i] + r[i]
  BY <1>2
<1>6. SumOver(f, DOMAIN ts) > d /\ SumOver(g, DOMAIN ts) <= a
  BY <1>1
<1> HIDE DEF f, g, r
<1>7. SumOver(f, DOMAIN ts) <= SumOver(g, DOMAIN ts) + SumOver(r, DOMAIN ts)
  BY <1>3, <1>4, <1>5, SumAdd
<1>8. /\ SumOver(f, DOMAIN ts) \in Nat /\ SumOver(g, DOMAIN ts) \in Nat
      /\ SumOver(r, DOMAIN ts) \in Nat
  BY <1>3, <1>4, SumNat
<1>9. SumOver(r, DOMAIN ts) > d - a
  BY <1>6, <1>7, <1>8
<1> QED BY <1>2, <1>9 DEF OverloadedAt, r

\* So a set that is not overloaded within such a time never is.
LEMMA OverloadWithin ==
    ASSUME NEW ts, TaskSet(ts), NEW a \in Nat \ {0},
           SumOver(Released(ts, a, {}), DOMAIN ts) <= a,
           \A d \in Nat : d < a => ~ OverloadedAt(ts, d)
    PROVE  \A d \in Nat : ~ OverloadedAt(ts, d)
<1> DEFINE Q == {d \in Nat : OverloadedAt(ts, d)}
<1>1. SUFFICES ASSUME Q # {} PROVE FALSE
  OBVIOUS
<1>2. PICK d \in Q : \A e \in Q : d <= e
  <2>1. Q \subseteq Nat
    OBVIOUS
  <2> HIDE DEF Q
  <2> QED BY <1>1, <2>1, MinimalNat
<1>3. d \in Nat /\ OverloadedAt(ts, d) /\ a <= d
  <2>1. d \in Nat /\ OverloadedAt(ts, d)
    BY <1>2
  <2> QED BY <2>1
<1>4. OverloadedAt(ts, d - a)
  BY <1>3, EarlierOverload
<1>5. d - a \in Nat /\ ~ (d <= d - a)
  BY <1>3
<1>6. d - a \in Q
  BY <1>4, <1>5
<1> QED BY <1>2, <1>5, <1>6

\* The jobs due by d are over 100/99 of the work that fits before it.
HeavyAt(ts, d) ==
    \E n \in [DOMAIN ts -> Nat] :
       /\ \A i \in DOMAIN ts : n[i] > 0 => ts[i].deadline + (n[i] - 1) * ts[i].period <= d
       /\ 99 * SumOver(JobWork(ts, n), DOMAIN ts) > 100 * d

LEMMA EarlierHeavy ==
    ASSUME NEW ts, TaskSet(ts), NEW a \in Nat, NEW d \in Nat, a <= d,
           99 * SumOver(Released(ts, a, {}), DOMAIN ts) <= 100 * a, HeavyAt(ts, d)
    PROVE  HeavyAt(ts, d - a)
<1>1. PICK n \in [DOMAIN ts -> Nat] :
         /\ \A i \in DOMAIN ts : n[i] > 0 => ts[i].deadline + (n[i] - 1) * ts[i].period <= d
         /\ 99 * SumOver(JobWork(ts, n), DOMAIN ts) > 100 * d
  BY DEF HeavyAt
<1>2. PICK m \in [DOMAIN ts -> Nat] :
         /\ \A i \in DOMAIN ts :
               m[i] > 0 => ts[i].deadline + (m[i] - 1) * ts[i].period <= d - a
         /\ \A i \in DOMAIN ts :
               JobWork(ts, n)[i] <= Released(ts, a, {})[i] + JobWork(ts, m)[i]
  BY <1>1, OverloadLeft
<1> DEFINE f == JobWork(ts, n)
<1> DEFINE g == Released(ts, a, {})
<1> DEFINE r == JobWork(ts, m)
<1>3. \A i \in DOMAIN ts : f[i] \in Nat /\ g[i] \in Nat /\ r[i] \in Nat
  BY JobWorkNat, ReleasedNat
<1>4. IsFiniteSet(DOMAIN ts)
  BY TaskFacts
<1>5. \A i \in DOMAIN ts : f[i] <= g[i] + r[i]
  BY <1>2
<1>6. 99 * SumOver(f, DOMAIN ts) > 100 * d /\ 99 * SumOver(g, DOMAIN ts) <= 100 * a
  BY <1>1
<1> HIDE DEF f, g, r
<1>7. SumOver(f, DOMAIN ts) <= SumOver(g, DOMAIN ts) + SumOver(r, DOMAIN ts)
  BY <1>3, <1>4, <1>5, SumAdd
<1>8. /\ SumOver(f, DOMAIN ts) \in Nat /\ SumOver(g, DOMAIN ts) \in Nat
      /\ SumOver(r, DOMAIN ts) \in Nat
  BY <1>3, <1>4, SumNat
<1>9. 99 * SumOver(r, DOMAIN ts) > 100 * (d - a)
  BY <1>6, <1>7, <1>8
<1> QED BY <1>2, <1>9 DEF HeavyAt, r

\* If no time before a is overloaded, and what is released in it is at most
\* 100/99 of it, no time is heavier than that: take the earliest that is, and
\* leave out the first a units.
LEMMA HeavyWithin ==
    ASSUME NEW ts, TaskSet(ts), NEW a \in Nat \ {0},
           99 * SumOver(Released(ts, a, {}), DOMAIN ts) <= 100 * a,
           \A d \in Nat : d < a => ~ OverloadedAt(ts, d)
    PROVE  \A d \in Nat : ~ HeavyAt(ts, d)
<1> DEFINE Q == {d \in Nat : HeavyAt(ts, d)}
<1>1. SUFFICES ASSUME Q # {} PROVE FALSE
  OBVIOUS
<1>2. PICK d \in Q : \A e \in Q : d <= e
  <2>1. Q \subseteq Nat
    OBVIOUS
  <2> HIDE DEF Q
  <2> QED BY <1>1, <2>1, MinimalNat
<1>3. d \in Nat /\ HeavyAt(ts, d)
  BY <1>2
<1>4. a <= d
  <2>1. PICK n \in [DOMAIN ts -> Nat] :
           /\ \A i \in DOMAIN ts : n[i] > 0 => ts[i].deadline + (n[i] - 1) * ts[i].period <= d
           /\ 99 * SumOver(JobWork(ts, n), DOMAIN ts) > 100 * d
    BY <1>3 DEF HeavyAt
  <2> DEFINE x == SumOver(JobWork(ts, n), DOMAIN ts)
  <2>2. x \in Nat
    BY JobWorkNat, TaskFacts, SumNat
  <2>3. 99 * x > 100 * d
    BY <2>1
  <2>4. x > d
    <3> HIDE DEF x
    <3> QED BY <1>3, <2>2, <2>3
  <2>5. OverloadedAt(ts, d)
    BY <2>1, <2>4 DEF OverloadedAt
  <2> QED BY <1>3, <2>5
<1>5. HeavyAt(ts, d - a)
  BY <1>3, <1>4, EarlierHeavy
<1>6. d - a \in Nat /\ ~ (d <= d - a)
  BY <1>3, <1>4
<1>7. d - a \in Q
  BY <1>5, <1>6
<1> QED BY <1>2, <1>6, <1>7

\* Then the work due by a time is no more than that either.
LEMMA LightWorkDue ==
    ASSUME NEW ts, TaskSet(ts), NEW d \in Nat, ~ HeavyAt(ts, d)
    PROVE  99 * WorkDue(ts, d) <= 100 * d
<1> DEFINE n == [i \in DOMAIN ts |-> DueJobs(ts, i, d)]
<1> DEFINE f == JobWork(ts, n)
<1>1. ASSUME NEW i \in DOMAIN ts
      PROVE  /\ n[i] \in Nat
             /\ n[i] > 0 => ts[i].deadline + (n[i] - 1) * ts[i].period <= d
  <2> DEFINE D == ts[i].deadline
  <2> DEFINE T == ts[i].period
  <2> DEFINE c == n[i]
  <2>1. D \in Nat /\ T \in Nat \ {0} /\ c = IF d < D THEN 0 ELSE (d - D) \div T + 1
    BY TaskFacts DEF DueJobs
  <2> HIDE DEF D, T, c, n
  <2>2. CASE d < D
    BY <2>1, <2>2 DEF c
  <2>3. CASE d >= D
    <3> DEFINE x == d - D
    <3>1. x \in Nat
      BY <2>1, <2>3
    <3>2. PICK q \in Nat, m \in 0 .. T - 1 : At(x, T, q, m)
      <4> HIDE DEF x
      <4> QED BY <2>1, <3>1, EachTimeIsAt
    <3>3. x = T * q + m /\ T * q \in Nat /\ q * T = T * q
      BY <2>1, <3>2 DEF At
    <3>4. x \div T = q
      <4> HIDE DEF x
      <4> QED BY <2>1, <3>1, <3>2, <3>3, DivUnique
    <3>5. c = q + 1 /\ (c - 1) * T = T * q
      BY <2>1, <2>3, <3>2, <3>3, <3>4
    <3> QED BY <2>1, <2>3, <3>1, <3>2, <3>3, <3>5 DEF c, D, T
  <2> QED BY <2>1, <2>2, <2>3
<1>2. n \in [DOMAIN ts -> Nat]
  BY <1>1
<1>3. WorkDue(ts, d) = SumOver(f, DOMAIN ts)
  <2> DEFINE IsFold(it) == it = [s \in SUBSET DOMAIN ts |->
                                    IF s = {} THEN 0
                                    ELSE LET x == CHOOSE x \in s : TRUE
                                         IN DueJobs(ts, x, d) * ts[x].wcet + it[s \ {x}]]
  <2> DEFINE fold == CHOOSE it : IsFold(it)
  <2>1. \A it : IsFold(it) <=> IsIter(it, "sum", f, DOMAIN ts)
    BY DEF IsIter, Combine, Neutral, JobWork
  <2>2. IsFiniteSet(DOMAIN ts)
    BY TaskFacts
  <2>3. WorkDue(ts, d) = fold[DOMAIN ts]
    BY DEF WorkDue, MapThenSumSet, MapThenFoldSet
  <2> HIDE DEF f
  <2>4. IsIter(Iter("sum", f, DOMAIN ts), "sum", f, DOMAIN ts)
    BY <2>2, IterExists
  <2>5. IsIter(fold, "sum", f, DOMAIN ts)
    <3> HIDE DEF IsFold
    <3>1. IsFold(fold)
      BY <2>1, <2>4
    <3> QED BY <2>1, <3>1
  <2>6. fold = Iter("sum", f, DOMAIN ts)
    <3> HIDE DEF fold
    <3> QED BY <2>2, <2>4, <2>5, IterUnique
  <2> QED BY <2>3, <2>6 DEF SumOver, FoldOver
<1> HIDE DEF n
<1>4. \A i \in DOMAIN ts : f[i] \in Nat
  BY <1>2, JobWorkNat
<1> DEFINE x == SumOver(f, DOMAIN ts)
<1>5. x \in Nat
  <2> HIDE DEF f
  <2> QED BY <1>4, TaskFacts, SumNat
<1>6. ~ (99 * x > 100 * d)
  BY <1>1, <1>2 DEF HeavyAt
<1> HIDE DEF x
<1>7. 99 * x <= 100 * d
  BY <1>5, <1>6
<1> QED BY <1>3, <1>7 DEF x

-----------------------------------------------------------------------------
(* The hyperperiod *)

\* Each period divides it.
LEMMA HyperperiodFacts ==
    ASSUME NEW ts, TaskSet(ts)
    PROVE  /\ Hyperperiod(ts) \in Nat \ {0}
           /\ \A i \in DOMAIN ts : Hyperperiod(ts) % ts[i].period = 0
<1> DEFINE f == [i \in DOMAIN ts |-> ts[i].period]
<1> DEFINE product == ProductOver(f, DOMAIN ts)
<1>1. IsFiniteSet(DOMAIN ts) /\ \A i \in DOMAIN ts : f[i] \in Nat \ {0} /\ f[i] = ts[i].period
  BY TaskFacts
<1>2. FoldSet(LAMBDA i, p : ts[i].period * p, 1, DOMAIN ts) = product
  <2> DEFINE IsFold(it) == it = [s \in SUBSET DOMAIN ts |->
                                    IF s = {} THEN 1
                                    ELSE LET x == CHOOSE x \in s : TRUE
                                         IN ts[x].period * it[s \ {x}]]
  <2> DEFINE fold == CHOOSE it : IsFold(it)
  <2>1. \A it : IsFold(it) <=> IsIter(it, "product", f, DOMAIN ts)
    BY DEF IsIter, Combine, Neutral
  <2>2. IsIter(Iter("product", f, DOMAIN ts), "product", f, DOMAIN ts)
    BY <1>1, IterExists
  <2>3. FoldSet(LAMBDA i, p : ts[i].period * p, 1, DOMAIN ts) = fold[DOMAIN ts]
    BY DEF FoldSet, MapThenFoldSet
  <2>4. IsIter(fold, "product", f, DOMAIN ts)
    <3> HIDE DEF IsFold
    <3>1. IsFold(fold)
      BY <2>1, <2>2
    <3> QED BY <2>1, <3>1
  <2>5. fold = Iter("product", f, DOMAIN ts)
    <3> HIDE DEF f, fold
    <3> QED BY <1>1, <2>2, <2>4, IterUnique
  <2> QED BY <2>3, <2>5 DEF ProductOver, FoldOver
<1>3. product \in Nat \ {0} /\ \A i \in DOMAIN ts : \E k \in Nat : product = f[i] * k
  <2> HIDE DEF f
  <2> QED BY <1>1, ProductFacts
<1> DEFINE S == {n \in 1 .. product : \A i \in DOMAIN ts : n % ts[i].period = 0}
<1>4. product \in S
  <2>1. ASSUME NEW i \in DOMAIN ts PROVE product % ts[i].period = 0
    <3>1. PICK k \in Nat : product = f[i] * k
      BY <1>3
    <3> DEFINE p == ts[i].period
    <3>2. p \in Nat \ {0} /\ At(product, p, k, 0)
      BY <1>1, <3>1 DEF At
    <3> HIDE DEF p, product
    <3>3. product % p = 0
      BY <3>2, CeilAt
    <3> QED BY <3>3 DEF p
  <2> HIDE DEF product
  <2> QED BY <1>3, <2>1
<1>5. Min(S) \in S
  <2>1. S \subseteq Nat
    OBVIOUS
  <2> HIDE DEF S
  <2> QED BY <1>4, <2>1, MinNat
<1>6. Hyperperiod(ts) = Min(S)
  BY <1>2 DEF Hyperperiod
<1> HIDE DEF product
<1> QED BY <1>3, <1>5, <1>6

\* A schedule that misses no deadline in the hyperperiod has nothing left at
\* its end, and has before each time in it done what is due by then.
LEMMA NothingLeftAtEnd ==
    ASSUME NEW ts, TaskSet(ts), NEW policy \in Policies, NEW horizon \in Nat \ {0}, NEW left,
           Follows(ts, policy, horizon, left), ~ Misses(ts, horizon, left[horizon]),
           NEW i \in DOMAIN ts, horizon % ts[i].period = 0
    PROVE  left[horizon][i] = 0
<1> DEFINE p == ts[i].period
<1> DEFINE d == ts[i].deadline
<1> DEFINE u == horizon - 1
<1>1. /\ p \in Nat \ {0} /\ d \in Nat /\ d <= p /\ ts[i].wcet \in Nat
      /\ d = 0 => ts[i].wcet = 0
  BY TaskFacts DEF Follows
<1>2. u \in 0 .. horizon - 1 /\ u + 1 = horizon /\ u \in Nat /\ horizon \in 0 .. horizon
  OBVIOUS
<1>3. left[horizon][i] \in Nat
  BY <1>2, LeftFacts
<1>4. CASE d = p
  <2>1. horizon % p = 0 /\ horizon > 0
    OBVIOUS
  <2>2. horizon >= d /\ (horizon - d) % p = 0
    <3> HIDE DEF p, d
    <3> QED BY <1>1, <1>4, <2>1, Due
  <2> QED BY <1>3, <2>2 DEF Misses
<1>5. CASE d < p
  <2>1. SUFFICES ASSUME left[u + 1][i] > 0 PROVE FALSE
    BY <1>2, <1>3
  <2>2. WorkAt(ts, u, left[u])[i] > 0
    BY <1>2, <2>1, LeftWasThere
  <2>3. (u % p) + 1 = p
    <3>1. (u + 1) % p = IF (u % p) + 1 = p THEN 0 ELSE (u % p) + 1
      <4> HIDE DEF u, p
      <4> QED BY <1>1, <1>2, NextInPeriod
    <3>2. (u + 1) % p = 0
      BY <1>2
    <3>3. u % p \in Nat
      BY <1>1
    <3> HIDE DEF u, p
    <3> QED BY <3>1, <3>2, <3>3
  <2>4. u % p >= d
    <3>1. u % p \in Nat
      BY <1>1
    <3> HIDE DEF u, p, d
    <3> QED BY <1>1, <1>5, <2>3, <3>1
  <2>5. left[u][i] = 0
    BY <1>2, <2>4, NothingLeft
  <2>6. u % p = 0 => ts[i].wcet = 0
    BY <1>1, <2>4
  <2>7. WorkAt(ts, u, left[u])[i] = 0
    BY <2>5, <2>6 DEF WorkAt
  <2> QED BY <2>2, <2>7
<1> QED BY <1>1, <1>4, <1>5

LEMMA DueIsServed ==
    ASSUME NEW ts, TaskSet(ts), NEW policy \in Policies, NEW horizon \in Nat, NEW left,
           Follows(ts, policy, horizon, left), NEW t \in 0 .. horizon - 1, NEW i \in DOMAIN ts,
           NEW n \in Nat, n > 0 => ts[i].deadline + (n - 1) * ts[i].period <= t
    PROVE  n * ts[i].wcet <= Served(ts, t, left)[i]
<1> DEFINE p == ts[i].period
<1> DEFINE d == ts[i].deadline
<1> DEFINE w == ts[i].wcet
<1> DEFINE x == left[t][i]
<1>1. /\ p \in Nat \ {0} /\ d \in Nat /\ d <= p /\ w \in Nat
      /\ d = 0 => w = 0
  BY TaskFacts DEF Follows
<1>2. t \in 0 .. horizon /\ t \in Nat
  OBVIOUS
<1>3. /\ Served(ts, t, left)[i] = Ceil(t, p) * w - x
      /\ Served(ts, t, left)[i] \in Nat /\ x \in Nat /\ x <= w
  BY <1>2, ServedFacts, LeftFacts
<1>4. PICK q \in Nat, m \in 0 .. p - 1 : At(t, p, q, m)
  <2> HIDE DEF p
  <2> QED BY <1>1, <1>2, EachTimeIsAt
<1>5. t % p = m /\ Ceil(t, p) = IF m = 0 THEN q ELSE q + 1
  <2> HIDE DEF p
  <2> QED BY <1>1, <1>4, CeilAt
<1>6. m = 0 \/ m >= d => x = 0
  <2>1. t % p = 0 \/ t % p >= d => left[t][i] = 0
    BY NothingLeft
  <2> QED BY <1>5, <2>1
<1>7. n > 0 => d + (n - 1) * p <= t
  OBVIOUS
<1> HIDE DEF p, d, w, x
<1>8. t = p * q + m
  BY <1>4 DEF At
<1>9. n <= q + 1
  <2>1. SUFFICES ASSUME n >= q + 2 PROVE FALSE
    OBVIOUS
  <2>2. (n - 1) * p >= (q + 1) * p /\ (q + 1) * p = p * q + p /\ (n - 1) * p \in Nat
    BY <1>1, <2>1
  <2>3. p * q \in Nat
    BY <1>1
  <2> QED BY <1>1, <1>7, <1>8, <2>1, <2>2, <2>3
<1>10. n = q + 1 => m >= d
  <2>1. SUFFICES ASSUME n = q + 1 PROVE m >= d
    OBVIOUS
  <2>2. (n - 1) * p = p * q /\ p * q \in Nat
    BY <1>1, <2>1
  <2> QED BY <1>1, <1>7, <1>8, <2>1, <2>2
<1>11. CASE n <= q
  <2>1. n * w <= q * w /\ (q + 1) * w = q * w + w /\ q * w \in Nat /\ n * w \in Nat
    BY <1>1, <1>11
  <2>2. CASE m = 0
    BY <1>3, <1>5, <1>6, <2>1, <2>2 DEF w
  <2>3. CASE m # 0
    BY <1>1, <1>3, <1>5, <2>1, <2>3 DEF w
  <2> QED BY <2>2, <2>3
<1>12. CASE n = q + 1
  <2>1. x = 0
    BY <1>6, <1>10, <1>12
  <2>2. CASE m = 0
    <3>1. d = 0 /\ w = 0
      BY <1>1, <1>10, <1>12, <2>2
    <3>2. n * w = 0
      BY <3>1
    <3> QED BY <1>3, <3>2 DEF w
  <2>3. CASE m # 0
    <3>1. Ceil(t, p) * w = n * w /\ n * w \in Nat
      BY <1>1, <1>5, <1>12, <2>3
    <3> QED BY <1>3, <2>1, <3>1 DEF w
  <2> QED BY <2>2, <2>3
<1> QED BY <1>9, <1>11, <1>12 DEF w

\* A task with a deadline of 0 and some work overloads time 0.
LEMMA DueAtOnce ==
    ASSUME NEW ts, TaskSet(ts), NEW i \in DOMAIN ts, ts[i].deadline = 0, ts[i].wcet # 0
    PROVE  OverloadedAt(ts, 0)
<1> DEFINE n == [j \in DOMAIN ts |-> IF j = i THEN 1 ELSE 0]
<1> DEFINE f == JobWork(ts, n)
<1>1. n \in [DOMAIN ts -> Nat] /\ n[i] = 1 /\ \A j \in DOMAIN ts : j # i => n[j] = 0
  OBVIOUS
<1>2. ts[i].wcet \in Nat /\ ts[i].period \in Nat /\ ts[i].wcet > 0
  BY TaskFacts
<1>3. f[i] = ts[i].wcet /\ \A j \in DOMAIN ts : f[j] \in Nat
  <2>1. f[i] = n[i] * ts[i].wcet /\ \A j \in DOMAIN ts : f[j] \in Nat
    BY <1>1, JobWorkNat
  <2> QED BY <1>1, <1>2, <2>1
<1>4. IsFiniteSet(DOMAIN ts) /\ IsFiniteSet(DOMAIN ts \ {i})
  BY TaskFacts, FS_Subset
<1> HIDE DEF f
<1>5. SumOver(f, DOMAIN ts) = f[i] + SumOver(f, DOMAIN ts \ {i})
  BY <1>3, <1>4, SumRemove
<1>6. SumOver(f, DOMAIN ts \ {i}) \in Nat
  BY <1>3, <1>4, SumNat
<1>7. SumOver(JobWork(ts, n), DOMAIN ts) > 0
  BY <1>2, <1>3, <1>5, <1>6 DEF f
<1>8. ASSUME NEW j \in DOMAIN ts, n[j] > 0
      PROVE  ts[j].deadline + (n[j] - 1) * ts[j].period <= 0
  <2>1. j = i /\ n[j] - 1 = 0
    BY <1>1, <1>8
  <2>2. 0 * ts[i].period = 0
    BY <1>2
  <2> QED BY <2>1, <2>2
<1> HIDE DEF n
<1> QED BY <1>1, <1>7, <1>8 DEF OverloadedAt

\* A set that is not overloaded in its hyperperiod misses no deadline in it.
LEMMA FitsIsFeasible ==
    ASSUME NEW ts, TaskSet(ts), \A d \in 0 .. Hyperperiod(ts) : ~ OverloadedAt(ts, d)
    PROVE  Feasible(ts, "edf")
<1> DEFINE horizon == Hyperperiod(ts)
<1> DEFINE meets == MeetsDeadlines(ts, "edf", horizon)
<1>1. Feasible(ts, "edf") = meets
  BY DEF Feasible
<1>2. horizon \in Nat /\ 0 \in 0 .. horizon
  BY HyperperiodFacts
<1>3. \/ /\ ~ meets
         /\ \E i \in DOMAIN ts : ts[i].deadline = 0 /\ ts[i].wcet # 0
      \/ /\ ~ meets
         /\ \E e \in 0 .. horizon : \E left :
               Follows(ts, "edf", e, left) /\ Misses(ts, e, left[e])
      \/ /\ meets
         /\ \E left : /\ Follows(ts, "edf", horizon, left)
                      /\ ~ Misses(ts, horizon, left[horizon])
  <2> HIDE DEF horizon
  <2> QED BY <1>2, MeetsOrMisses
<1>4. \A i \in DOMAIN ts : ~ (ts[i].deadline = 0 /\ ts[i].wcet # 0)
  BY <1>2, DueAtOnce
<1>5. ASSUME NEW e \in 0 .. horizon, NEW left,
             Follows(ts, "edf", e, left), Misses(ts, e, left[e])
      PROVE  FALSE
  <2>1. e \in Nat /\ \A d \in 0 .. e : d \in 0 .. horizon
    BY <1>2
  <2>2. \A d \in 0 .. e : ~ OverloadedAt(ts, d)
    BY <2>1
  <2> QED BY <1>5, <2>1, <2>2, NoOverloadInTime
<1> HIDE DEF horizon, meets
<1> QED BY <1>1, <1>3, <1>4, <1>5

\* And a set that misses none in it is never overloaded: what is due in it is
\* done in time, and what is released in it is done at its end.
LEMMA FeasibleFits ==
    ASSUME NEW ts, TaskSet(ts), Feasible(ts, "edf")
    PROVE  \A d \in Nat : ~ OverloadedAt(ts, d)
<1> DEFINE horizon == Hyperperiod(ts)
<1>1. MeetsDeadlines(ts, "edf", horizon)
  BY DEF Feasible
<1>2. horizon \in Nat \ {0} /\ \A i \in DOMAIN ts : horizon % ts[i].period = 0
  BY HyperperiodFacts
<1> HIDE DEF horizon
<1>3. PICK left : /\ Follows(ts, "edf", horizon, left)
                  /\ ~ Misses(ts, horizon, left[horizon])
  BY <1>1, <1>2, MeetsOrMisses
<1>4. "edf" \in Policies /\ IsFiniteSet(DOMAIN ts)
  BY TaskFacts DEF Policies
<1>5. \A t \in 0 .. horizon : SumOver(Served(ts, t, left), DOMAIN ts) <= t
  <2>1. TAKE t \in 0 .. horizon
  <2>2. 0 \in 0 .. horizon /\ t \in 0 .. horizon /\ DOMAIN ts \subseteq DOMAIN ts /\ t - 0 = t
    BY <1>2
  <2>3. /\ ServedOf(ts, 0, left, DOMAIN ts) \in Nat /\ ServedOf(ts, t, left, DOMAIN ts) \in Nat
        /\ ServedOf(ts, t, left, DOMAIN ts) <= ServedOf(ts, 0, left, DOMAIN ts) + (t - 0)
    BY <1>2, <1>3, <1>4, <2>2, ServedOver
  <2>4. \A i \in DOMAIN ts : Served(ts, 0, left)[i] = 0
    <3> TAKE i \in DOMAIN ts
    <3>1. /\ Served(ts, 0, left)[i] = Ceil(0, ts[i].period) * ts[i].wcet - left[0][i]
      BY <1>2, <1>3, <1>4, <2>2, ServedFacts
    <3>2. ts[i].wcet \in Nat /\ Ceil(0, ts[i].period) = 0
      BY TaskFacts, CeilFacts
    <3>3. left[0][i] = 0
      BY <1>3 DEF Follows
    <3> QED BY <3>1, <3>2, <3>3
  <2>5. ServedOf(ts, 0, left, DOMAIN ts) = 0
    BY <1>4, <2>4, SumZero DEF ServedOf
  <2> QED BY <2>2, <2>3, <2>5 DEF ServedOf
<1>6. SumOver(Released(ts, horizon, {}), DOMAIN ts) <= horizon
  <2>1. horizon \in 0 .. horizon
    BY <1>2
  <2>2. \A i \in DOMAIN ts : /\ Served(ts, horizon, left)[i] \in Nat
                             /\ Released(ts, horizon, {})[i] = Served(ts, horizon, left)[i]
    <3> TAKE i \in DOMAIN ts
    <3>1. left[horizon][i] = 0
      BY <1>2, <1>3, <1>4, NothingLeftAtEnd
    <3>2. /\ Served(ts, horizon, left)[i] \in Nat
          /\ Released(ts, horizon, {})[i] = Served(ts, horizon, left)[i] + left[horizon][i]
      BY <1>2, <1>3, <1>4, <2>1, ServedFacts
    <3> QED BY <3>1, <3>2
  <2>3. SumOver(Released(ts, horizon, {}), DOMAIN ts) = SumOver(Served(ts, horizon, left), DOMAIN ts)
    BY <1>4, <2>2, SumSame
  <2> QED BY <1>5, <2>1, <2>3
<1>7. ASSUME NEW d \in Nat, d < horizon PROVE ~ OverloadedAt(ts, d)
  <2>1. SUFFICES ASSUME NEW n \in [DOMAIN ts -> Nat],
                        \A i \in DOMAIN ts :
                           n[i] > 0 => ts[i].deadline + (n[i] - 1) * ts[i].period <= d,
                        SumOver(JobWork(ts, n), DOMAIN ts) > d
                 PROVE  FALSE
    BY DEF OverloadedAt
  <2>2. d \in 0 .. horizon - 1 /\ d \in 0 .. horizon
    BY <1>2, <1>7
  <2>3. \A i \in DOMAIN ts : /\ JobWork(ts, n)[i] \in Nat /\ Served(ts, d, left)[i] \in Nat
                             /\ JobWork(ts, n)[i] <= Served(ts, d, left)[i]
    <3> TAKE i \in DOMAIN ts
    <3>1. n[i] \in Nat /\ (n[i] > 0 => ts[i].deadline + (n[i] - 1) * ts[i].period <= d)
      BY <2>1
    <3>2. n[i] * ts[i].wcet <= Served(ts, d, left)[i]
      BY <1>2, <1>3, <1>4, <2>2, <3>1, DueIsServed
    <3>3. JobWork(ts, n)[i] = n[i] * ts[i].wcet /\ JobWork(ts, n)[i] \in Nat
      BY <2>1, JobWorkNat
    <3>4. Served(ts, d, left)[i] \in Nat
      BY <1>2, <1>3, <1>4, <2>2, ServedFacts
    <3> QED BY <3>2, <3>3, <3>4
  <2>4. SumOver(JobWork(ts, n), DOMAIN ts) <= SumOver(Served(ts, d, left), DOMAIN ts)
    BY <1>4, <2>3, SumWithin
  <2>5. SumOver(Served(ts, d, left), DOMAIN ts) <= d
    BY <1>5, <2>2
  <2>6. /\ SumOver(JobWork(ts, n), DOMAIN ts) \in Nat
        /\ SumOver(Served(ts, d, left), DOMAIN ts) \in Nat
    BY <1>4, <2>3, SumNat
  <2> QED BY <2>1, <2>4, <2>5, <2>6
<1> QED BY <1>2, <1>6, <1>7, OverloadWithin

-----------------------------------------------------------------------------
(* Types *)

\* Where the calls are: each analysis has stages of its own, and the iteration
\* of a response time goes on only from a value within the period.
Stages ==
    /\ running = "end" <=> at = "end"
    /\ running = "edf" => at \in {"density", "length", "load", "returned"}
    /\ running \in {"rm", "dm"} => at \in {"iterate", "compare", "returned"}
    /\ at = "load" => time_stamps \in [Indices -> Nat]
    /\ (at = "compare" => task \in Indices)
    /\ (at = "iterate" /\ task \in Indices => a_n1 <= tasks[task].period)

Inv == TypeOK /\ Stages

LEMMA TasksFacts ==
    ASSUME TasksOK
    PROVE  /\ Indices = 1 .. Len(tasks) /\ Len(tasks) \in Nat
           /\ IsFiniteSet(Indices)
           /\ \A i \in Indices :
                 /\ tasks[i].wcet \in Nat /\ tasks[i].deadline \in Nat
                 /\ tasks[i].period \in Nat \ {0}
<1>1. Indices = 1 .. Len(tasks) /\ Len(tasks) \in Nat
  BY DEF TasksOK, Indices
<1>2. IsFiniteSet(Indices)
  BY <1>1, FS_Interval
<1>3. \A i \in Indices : tasks[i] \in Task
  BY <1>1 DEF TasksOK
<1> QED BY <1>1, <1>2, <1>3 DEF Task

LEMMA DemandNat ==
    ASSUME TasksOK, NEW js, js \subseteq Indices, NEW time \in Nat, NEW up
    PROVE  Demand(js, time, up) \in Nat
<1>1. IsFiniteSet(js)
  BY TasksFacts, FS_Subset
<1>2. \A j \in js : Released(tasks, time, up)[j] \in Nat
  <2>1. TAKE j \in js
  <2>2. j \in DOMAIN tasks
    BY DEF Indices
  <2>3. Ceil(time, tasks[j].period) \in Nat /\ tasks[j].wcet \in Nat
    BY <2>2, TasksFacts, CeilFacts DEF Indices
  <2>4. (IF j \in up THEN 1 ELSE 0) \in Nat
    OBVIOUS
  <2>5. (Ceil(time, tasks[j].period) + IF j \in up THEN 1 ELSE 0) * tasks[j].wcet \in Nat
    BY <2>3, <2>4
  <2> QED BY <2>2, <2>5 DEF Released
<1>3. Demand(js, time, up) = SumOver(Released(tasks, time, up), js)
  BY <1>1, DemandIsSum
<1> QED BY <1>1, <1>2, <1>3, SumNat

\* The sum of the wcets, as edf.c computes it.
LEMMA WcetsSum ==
    ASSUME TasksOK
    PROVE  MapThenSumSet(LAMBDA i : tasks[i].wcet, Indices)
           = SumOver([i \in Indices |-> tasks[i].wcet], Indices)
<1> DEFINE f == [i \in Indices |-> tasks[i].wcet]
<1>1. \A it : it = [s \in SUBSET Indices |->
                      IF s = {} THEN 0
                      ELSE LET x == CHOOSE x \in s : TRUE
                           IN tasks[x].wcet + it[s \ {x}]]
              <=> IsIter(it, "sum", f, Indices)
  BY DEF IsIter, Combine, Neutral
<1>2. IsFiniteSet(Indices)
  BY TasksFacts
<1>3. MapThenSumSet(LAMBDA i : tasks[i].wcet, Indices) = SumOver(f, Indices)
  BY <1>1, <1>2, IterExists, IterUnique
     DEF MapThenSumSet, MapThenFoldSet, SumOver, FoldOver
<1> QED BY <1>3

LEMMA WcetsNat ==
    ASSUME TasksOK
    PROVE  MapThenSumSet(LAMBDA i : tasks[i].wcet, Indices) \in Nat
<1> DEFINE f == [i \in Indices |-> tasks[i].wcet]
<1>1. IsFiniteSet(Indices) /\ \A i \in Indices : f[i] \in Nat
  BY TasksFacts
<1>2. MapThenSumSet(LAMBDA i : tasks[i].wcet, Indices) = SumOver(f, Indices)
  BY WcetsSum
<1> HIDE DEF f
<1> QED BY <1>1, <1>2, SumNat

LEMMA DemandsAgree ==
    ASSUME NEW js, NEW time, NEW up
    PROVE  /\ Edf!Demand(js, time, up) = Demand(js, time, up)
           /\ RM!Demand(js, time, up) = Demand(js, time, up)
           /\ DM!Demand(js, time, up) = Demand(js, time, up)
<1>1. Edf!Demand(js, time, up) = Demand(js, time, up)
  BY DEF Edf!Demand, Demand, Edf!Ceil, Ceil,
         Edf!MapThenSumSet, MapThenSumSet, Edf!MapThenFoldSet, MapThenFoldSet
<1>2. RM!Demand(js, time, up) = Demand(js, time, up)
  BY DEF RM!Demand, Demand, RM!Ceil, Ceil,
         RM!MapThenSumSet, MapThenSumSet, RM!MapThenFoldSet, MapThenFoldSet
<1>3. DM!Demand(js, time, up) = Demand(js, time, up)
  BY DEF DM!Demand, Demand, DM!Ceil, Ceil,
         DM!MapThenSumSet, MapThenSumSet, DM!MapThenFoldSet, MapThenFoldSet
<1> QED BY <1>1, <1>2, <1>3

-----------------------------------------------------------------------------
(* The step that rm.c and dm.c have in common *)

Response(key, i, a, up) == tasks[i].wcet + Demand(HigherTasks(tasks, key, i), a, up)

IterateStep(key) ==
    /\ at = "iterate" /\ task \in Indices
    /\ a_n' = a_n1
    /\ \E up \in RoundedUp(a_n1) : a_n1' = Response(key, task, a_n1, up)
    /\ \/ a_n1' = a_n1 /\ at' = "compare" /\ is_schedulable' = is_schedulable
       \/ /\ FALSE \in Above(a_n1', tasks[task].period)
          /\ at' = at /\ is_schedulable' = is_schedulable
       \/ /\ TRUE \in Above(a_n1', tasks[task].period)
          /\ at' = "returned" /\ is_schedulable' = 0
    /\ task' = task

CompareStep ==
    /\ at = "compare"
    /\ \/ /\ TRUE \in Above(a_n1, tasks[task].deadline)
          /\ at' = "returned" /\ is_schedulable' = 0
          /\ UNCHANGED <<task, a_n, a_n1>>
       \/ /\ FALSE \in Above(a_n1, tasks[task].deadline)
          /\ at' = "iterate" /\ is_schedulable' = is_schedulable
          /\ task' = task + 1 /\ a_n' = 0 /\ a_n1' = 0

AcceptStep ==
    /\ at = "iterate" /\ task \notin Indices
    /\ at' = "returned" /\ is_schedulable' = 1
    /\ UNCHANGED <<task, a_n, a_n1>>

Unmoved == UNCHANGED <<tasks, whole, running, results, l, new_l, time_stamps, h>>

\* running is "rm", the key "period", or it is "dm" and "deadline".
Runs(key) == running = IF key = "period" THEN "rm" ELSE "dm"

FixedStep(key) ==
    Runs(key) /\ Unmoved /\ (IterateStep(key) \/ CompareStep \/ AcceptStep)

LEMMA FixedSteps ==
    /\ RmStep => FixedStep("period")
    /\ DmStep => FixedStep("deadline")
<1>1. ASSUME RmStep PROVE FixedStep("period")
  <2> USE <1>1 DEF RmStep, RM!Next, edfLocals, RM!locals, RM!Return
  <2>1. Runs("period") /\ Unmoved
    BY DEF RM!Iterate, RM!Compare, RM!Accept, Runs, Unmoved
  <2>2. CASE RM!Iterate
    <3>1. \A up : RM!Response(task, a_n1, up) = Response("period", task, a_n1, up)
      <4>1. \A i : {j \in RM!Indices : RM!HigherPriority(j, i)}
                     = HigherTasks(tasks, "period", i)
        BY DEF RM!HigherPriority, HigherTasks, RM!Indices
      <4> QED BY <4>1, DemandsAgree DEF RM!Response, Response
    <3>2. RM!RoundedUp(a_n1) = RoundedUp(a_n1)
      BY DEF RM!RoundedUp, RoundedUp, RM!Indices, Indices
    <3>3. \A x : RM!PastPeriod(x) = Above(x, tasks[task].period)
      BY DEF RM!PastPeriod, RM!Above, Above
    <3>4. IterateStep("period")
      BY <2>2, <3>1, <3>2, <3>3 DEF RM!Iterate, IterateStep, RM!Indices, Indices
    <3> QED BY <2>1, <3>4 DEF FixedStep
  <2>3. CASE RM!Compare
    <3>1. CompareStep
      BY <2>3 DEF RM!Compare, CompareStep, RM!Above, Above
    <3> QED BY <2>1, <3>1 DEF FixedStep
  <2>4. CASE RM!Accept
    <3>1. AcceptStep
      BY <2>4 DEF RM!Accept, AcceptStep, RM!Indices, Indices
    <3> QED BY <2>1, <3>1 DEF FixedStep
  <2> QED BY <2>2, <2>3, <2>4
<1>2. ASSUME DmStep PROVE FixedStep("deadline")
  <2> USE <1>2 DEF DmStep, DM!Next, edfLocals, DM!locals, DM!Return
  <2>1. Runs("deadline") /\ Unmoved
    BY DEF DM!Iterate, DM!Compare, DM!Accept, Runs, Unmoved
  <2>2. CASE DM!Iterate
    <3>1. \A up : DM!Response(task, a_n1, up) = Response("deadline", task, a_n1, up)
      <4>1. \A i : {j \in DM!Indices : DM!HigherPriority(j, i)}
                     = HigherTasks(tasks, "deadline", i)
        BY DEF DM!HigherPriority, HigherTasks, DM!Indices
      <4> QED BY <4>1, DemandsAgree DEF DM!Response, Response
    <3>2. DM!RoundedUp(a_n1) = RoundedUp(a_n1)
      BY DEF DM!RoundedUp, RoundedUp, DM!Indices, Indices
    <3>3. \A x : DM!PastPeriod(x) = Above(x, tasks[task].period)
      BY DEF DM!PastPeriod, DM!Above, Above
    <3>4. IterateStep("deadline")
      BY <2>2, <3>1, <3>2, <3>3 DEF DM!Iterate, IterateStep, DM!Indices, Indices
    <3> QED BY <2>1, <3>4 DEF FixedStep
  <2>3. CASE DM!Compare
    <3>1. CompareStep
      BY <2>3 DEF DM!Compare, CompareStep, DM!Above, Above
    <3> QED BY <2>1, <3>1 DEF FixedStep
  <2>4. CASE DM!Accept
    <3>1. AcceptStep
      BY <2>4 DEF DM!Accept, AcceptStep, DM!Indices, Indices
    <3> QED BY <2>1, <3>1 DEF FixedStep
  <2> QED BY <2>2, <2>3, <2>4
<1> QED BY <1>1, <1>2

\* A comparison is wrong on equal numbers only, and then only one way.
LEMMA AboveFacts ==
    ASSUME NEW x \in Int, NEW y \in Int
    PROVE  /\ FALSE \in Above(x, y) => x <= y
           /\ TRUE \in Above(x, y) => x >= y
           /\ whole /\ TRUE \in Above(x, y) => x > y
           /\ Above(x, y) \subseteq {TRUE, FALSE}
           /\ Edf!Above(x, y) = Above(x, y)
<1>a. Edf!Above(x, y) = Above(x, y)
  BY DEF Edf!Above, Above
<1>1. x > y \/ x = y \/ x < y
  OBVIOUS
<1>2. CASE x > y
  <2>1. Above(x, y) = {TRUE}
    BY <1>2 DEF Above
  <2>2. Above(x, y) \subseteq {TRUE, FALSE}
    BY <2>1
  <2> QED BY <1>a, <1>2, <2>1, <2>2
<1>3. CASE x = y
  <2>1. (x > y) = FALSE
    BY <1>3
  <2>5. Above(x, y) \subseteq {TRUE, FALSE}
    BY <2>1 DEF Above
  <2>2. whole => Above(x, y) = {FALSE}
    BY <2>1 DEF Above
  <2>3. whole => TRUE \notin Above(x, y)
    BY <2>2
  <2>4. x <= y /\ x >= y
    BY <1>3
  <2> QED BY <1>a, <2>3, <2>4, <2>5, Zenon
<1>4. CASE x < y
  <2>1. (x > y) = FALSE
    BY <1>4
  <2>2. Above(x, y) = {FALSE}
    BY <1>4, <2>1 DEF Above
  <2>3. Above(x, y) \subseteq {TRUE, FALSE}
    BY <2>2
  <2> QED BY <1>a, <1>4, <2>2, <2>3
<1> QED BY <1>1, <1>2, <1>3, <1>4, Zenon

LEMMA ResponseNat ==
    ASSUME TasksOK, NEW key, NEW i \in Indices, NEW a \in Nat, NEW up
    PROVE  Response(key, i, a, up) \in Nat
<1>1. tasks[i].wcet \in Nat
  BY TasksFacts
<1>2. HigherTasks(tasks, key, i) \subseteq Indices
  BY DEF HigherTasks, Indices
<1> QED BY <1>1, <1>2, DemandNat DEF Response

\* The deadline that is visited next is the earliest, or one of the earliest.
LEMMA EarliestIsNext ==
    ASSUME TasksOK, time_stamps \in [Indices -> Nat], Edf!SomeIndexLessThanOrEqual,
           NEW index \in Edf!SmallestIndex
    PROVE  index \in Indices /\ \A j \in Indices : time_stamps[index] <= time_stamps[j]
<1> DEFINE S == {i \in Indices : \A j \in Indices : time_stamps[i] <= time_stamps[j]}
<1>1. Edf!SmallestIndex = IF whole THEN {Edf!Min(S)} ELSE S
  BY DEF Edf!SmallestIndex, Edf!Indices, Indices
<1>2. S # {}
  <2> DEFINE Q == {time_stamps[i] : i \in Indices}
  <2>1. Q # {} /\ Q \subseteq Nat
    BY DEF Edf!SomeIndexLessThanOrEqual, Edf!Indices, Indices
  <2>2. PICK x \in Q : \A y \in Q : x <= y
    <3> HIDE DEF Q
    <3> QED BY <2>1, MinimalNat
  <2> QED BY <2>2
<1>3. Edf!Min(S) \in S
  <2>1. S \subseteq Nat
    BY TasksFacts
  <2>2. \E x \in S : \A y \in S : x <= y
    <3> HIDE DEF S
    <3> QED BY <1>2, <2>1, MinimalNat
  <2> HIDE DEF S
  <2> QED BY <2>2 DEF Edf!Min
<1> QED BY <1>1, <1>3

LEMMA InitInv == Init => Inv
<1> SUFFICES ASSUME Init PROVE Inv
  OBVIOUS
<1> USE DEF Init, Edf!Begin
<1>1. TasksOK
  BY TaskSetsAssumption DEF TasksOK
<1>3. Edf!LocalsOK
  BY MaxDoubleAssumption DEF Edf!LocalsOK, Edf!Infinity
<1>4. results \in [Analyses -> {0, 1, NotWritten}]
  BY DEF Analyses
<1>5. TypeOK
  BY <1>1, <1>3, <1>4 DEF TypeOK, Analyses
<1>6. Stages
  <2>1. task \in Indices => a_n1 <= tasks[task].period
    BY <1>1, TasksFacts
  <2> QED BY <2>1 DEF Stages
<1> QED BY <1>5, <1>6 DEF Inv

LEMMA NextInv == Inv /\ [Next]_vars => Inv'
<1> SUFFICES ASSUME Inv, [Next]_vars PROVE Inv'
  OBVIOUS
<1>a. TypeOK /\ Stages /\ TasksOK
  BY DEF Inv, TypeOK
<1>b. /\ \A i \in Indices : /\ tasks[i].wcet \in Nat /\ tasks[i].deadline \in Nat
                            /\ tasks[i].period \in Nat \ {0}
      /\ Indices = 1 .. Len(tasks) /\ Len(tasks) \in Nat
  BY <1>a, TasksFacts
<1>1. CASE EdfStep /\ Edf!Density
  <2> USE <1>1 DEF EdfStep, Edf!Density, Edf!Return, Edf!locals, fixedLocals
  <2>1. TypeOK'
    BY <1>a DEF TypeOK, TasksOK, Edf!LocalsOK, Indices, Edf!Indices, Edf!Infinity
  <2>2. Stages'
    BY <1>a DEF Stages, Indices
  <2> QED BY <2>1, <2>2 DEF Inv
<1>2. CASE EdfStep /\ Edf!SumWcets
  <2> USE <1>2 DEF EdfStep, Edf!SumWcets, Edf!locals, fixedLocals
  <2>1. MapThenSumSet(LAMBDA i : tasks[i].wcet, Indices) \in Nat
    BY <1>a, WcetsNat
  <2>2. Edf!MapThenSumSet(LAMBDA i : tasks[i].wcet, Edf!Indices)
          = MapThenSumSet(LAMBDA i : tasks[i].wcet, Indices)
    BY DEF Edf!MapThenSumSet, MapThenSumSet, Edf!MapThenFoldSet, MapThenFoldSet,
           Edf!Indices, Indices
  <2>3. l' \in 0 .. Edf!Infinity /\ new_l' \in 0 .. Edf!Infinity
    BY <2>1, <2>2, MaxDoubleAssumption DEF Edf!ToDouble, Edf!Infinity
  <2>4. TypeOK'
    BY <1>a, <2>3 DEF TypeOK, TasksOK, Edf!LocalsOK, Indices, Edf!Indices, Edf!Infinity
  <2>5. Stages'
    BY <1>a DEF Stages, Indices
  <2> QED BY <2>4, <2>5 DEF Inv
<1>3. CASE EdfStep /\ Edf!Length
  <2> USE <1>3 DEF EdfStep, Edf!Length, fixedLocals
  <2>1. \A up : Edf!Demand(Edf!Indices, new_l, up) \in Nat
    <3>1. new_l \in Nat
      BY <1>a, MaxDoubleAssumption DEF TypeOK, Edf!LocalsOK, Edf!Infinity
    <3>2. TAKE up
    <3>3. Demand(Indices, new_l, up) \in Nat
      BY <1>a, <3>1, DemandNat
    <3>4. Edf!Demand(Edf!Indices, new_l, up) = Demand(Indices, new_l, up)
      BY DemandsAgree DEF Edf!Indices, Indices
    <3> QED BY <3>3, <3>4
  <2>2. l' \in 0 .. Edf!Infinity
    BY <1>a DEF TypeOK, Edf!LocalsOK, Edf!Infinity
  <2>3. new_l' \in 0 .. Edf!Infinity
    <3>1. CASE new_l = Edf!Infinity
      BY <3>1, MaxDoubleAssumption DEF Edf!NextLengths, Edf!Infinity
    <3>2. CASE new_l # Edf!Infinity
      <4>1. PICK up \in Edf!RoundedUp(new_l) :
               new_l' = Edf!ToDouble(Edf!Demand(Edf!Indices, new_l, up))
        BY <3>2 DEF Edf!NextLengths
      <4> QED BY <2>1, <4>1, MaxDoubleAssumption DEF Edf!ToDouble, Edf!Infinity
    <3> QED BY <3>1, <3>2
  <2>4. \/ at' = at /\ time_stamps' = time_stamps
        \/ at' = "load" /\ time_stamps' = [i \in Indices |-> tasks[i].deadline]
    BY DEF Indices, Edf!Indices
  <2>5. time_stamps' \in {<<>>} \cup [Indices -> Nat]
        /\ (at' = "load" => time_stamps' \in [Indices -> Nat])
    BY <1>a, <1>b, <2>4 DEF TypeOK, Edf!LocalsOK, Stages, Indices, Edf!Indices
  <2>6. TypeOK'
    BY <1>a, <2>2, <2>3, <2>4, <2>5
    DEF TypeOK, TasksOK, Edf!LocalsOK, Indices, Edf!Indices, Edf!Infinity
  <2>7. Stages'
    BY <1>a, <2>4, <2>5 DEF Stages, Indices
  <2> QED BY <2>6, <2>7 DEF Inv
<1>4. CASE EdfStep /\ Edf!Load
  <2> USE <1>4 DEF EdfStep, fixedLocals
  <2>1. PICK index \in Edf!SmallestIndex :
           /\ h' = h + tasks[index].wcet
           /\ \/ Edf!Return(0) /\ UNCHANGED time_stamps
              \/ /\ time_stamps' = Edf!NextTimeStamp(index)
                 /\ UNCHANGED <<at, is_schedulable>>
    BY DEF Edf!Load
  <2>2. UNCHANGED <<tasks, whole, l, new_l, running, results, task, a_n, a_n1>>
        /\ at = "load" /\ running = "edf"
    BY DEF Edf!Load
  <2>3. time_stamps \in [Indices -> Nat]
    BY <1>a, <2>2 DEF Stages
  <2>4. index \in Indices
    <3>1. Edf!SomeIndexLessThanOrEqual
      BY DEF Edf!Load
    <3> QED BY <1>a, <2>1, <2>3, <3>1, EarliestIsNext DEF TypeOK
  <2>5. h' \in Nat
    BY <1>a, <1>b, <2>1, <2>4 DEF TypeOK, Edf!LocalsOK
  <2>6. /\ time_stamps' \in [Indices -> Nat]
        /\ \/ at' = "returned" /\ is_schedulable' = 0
           \/ at' = at /\ is_schedulable' = is_schedulable
    <3>1. Edf!NextTimeStamp(index) \in [Indices -> Nat]
      BY <1>b, <2>3, <2>4 DEF Edf!NextTimeStamp
    <3> QED BY <2>1, <2>3, <3>1 DEF Edf!Return
  <2>7. TypeOK'
    BY <1>a, <2>2, <2>5, <2>6
    DEF TypeOK, TasksOK, Edf!LocalsOK, Indices, Edf!Indices, Edf!Infinity
  <2>8. Stages'
    BY <1>a, <2>2, <2>6 DEF Stages, Indices
  <2> QED BY <2>7, <2>8 DEF Inv
<1>5. CASE EdfStep /\ Edf!LoadEnds
  <2> USE <1>5 DEF EdfStep, Edf!LoadEnds, Edf!Return, Edf!locals, fixedLocals
  <2>1. TypeOK'
    BY <1>a DEF TypeOK, TasksOK, Edf!LocalsOK, Indices, Edf!Indices, Edf!Infinity
  <2>2. Stages'
    BY <1>a DEF Stages, Indices
  <2> QED BY <2>1, <2>2 DEF Inv
<1>6. CASE WriteFile
  <2> USE <1>6 DEF WriteFile
  <2>1. running \in Analyses
    BY <1>a DEF TypeOK, Stages
  <2>2. results' \in [Analyses -> {0, 1, NotWritten}]
    BY <1>a, <2>1 DEF TypeOK
  <2>3. TypeOK'
    BY <1>a, <1>b, <2>1, <2>2, MaxDoubleAssumption
    DEF TypeOK, TasksOK, Edf!LocalsOK, RM!LocalsOK, DM!LocalsOK, Indices, Edf!Indices,
        RM!Indices, DM!Indices, Edf!Infinity, Analyses
  <2>4. Stages'
    BY <1>a, <1>b, <2>1 DEF Stages, Indices, Analyses
  <2> QED BY <2>3, <2>4 DEF Inv
<1>7. ASSUME NEW key \in {"period", "deadline"}, FixedStep(key) PROVE Inv'
  <2> USE <1>7 DEF FixedStep, Unmoved
  <2>a. /\ running \in {"rm", "dm"} /\ task \in 1 .. Len(tasks) + 1
        /\ a_n \in Nat /\ a_n1 \in Nat
        /\ at = "compare" => a_n1 = a_n
        /\ task \in Indices => a_n <= tasks[task].period
        /\ is_schedulable \in {0, 1}
    BY <1>a DEF Runs, TypeOK, RM!LocalsOK, DM!LocalsOK, RM!Indices, DM!Indices, Indices
  <2>b. SUFFICES /\ task' \in 1 .. Len(tasks) + 1
                 /\ a_n' \in Nat /\ a_n1' \in Nat
                 /\ at' = "compare" => (a_n1' = a_n' /\ task' \in Indices)
                 /\ task' \in Indices => a_n' <= tasks[task'].period
                 /\ (at' = "iterate" /\ task' \in Indices) => a_n1' <= tasks[task'].period
                 /\ is_schedulable' \in {0, 1}
                 /\ at' \in {"iterate", "compare", "returned"}
    <3>1. TypeOK'
      BY <1>a, <2>a, <2>b
      DEF TypeOK, TasksOK, Edf!LocalsOK, RM!LocalsOK, DM!LocalsOK, Indices, Edf!Indices,
          RM!Indices, DM!Indices, Edf!Infinity
    <3>2. Stages'
      BY <1>a, <2>a, <2>b DEF Stages, Indices
    <3> QED BY <3>1, <3>2 DEF Inv
  <2>1. CASE IterateStep(key)
    <3>1. task \in Indices /\ a_n' = a_n1 /\ task' = task /\ a_n1 <= tasks[task].period
      BY <1>a, <2>1 DEF IterateStep, Stages
    <3>2. a_n1' \in Nat
      BY <1>a, <2>1, <2>a, <3>1, ResponseNat DEF IterateStep
    <3>3. FALSE \in Above(a_n1', tasks[task].period) => a_n1' <= tasks[task].period
      <4>1. \A x \in Nat : FALSE \in Above(x, tasks[task].period) => x <= tasks[task].period
        <5>1. tasks[task].period \in Int /\ Nat \subseteq Int
          BY <1>b, <3>1
        <5> QED BY <5>1, AboveFacts, Zenon
      <4> QED BY <3>2, <4>1
    <3> QED BY <1>a, <1>b, <2>1, <2>a, <3>1, <3>2, <3>3 DEF IterateStep
  <2>2. CASE CompareStep
    <3>1. task \in Indices
      BY <1>a, <2>2 DEF CompareStep, Stages
    <3>2. \/ /\ at' = "returned" /\ is_schedulable' = 0
             /\ task' = task /\ a_n' = a_n /\ a_n1' = a_n1
          \/ /\ at' = "iterate" /\ is_schedulable' = is_schedulable
             /\ task' = task + 1 /\ a_n' = 0 /\ a_n1' = 0
      BY <2>2 DEF CompareStep
    <3>3. task + 1 \in 1 .. Len(tasks) + 1
      BY <1>b, <3>1
    <3>4. \A i \in Indices : 0 <= tasks[i].period
      BY <1>b
    <3> QED BY <2>a, <3>1, <3>2, <3>3, <3>4
  <2>3. CASE AcceptStep
    BY <1>a, <2>3, <2>a DEF AcceptStep
  <2> QED BY <2>1, <2>2, <2>3
<1>8. CASE UNCHANGED vars
  <2> USE <1>8 DEF vars, edfLocals, fixedLocals
  <2>1. TypeOK'
    BY <1>a DEF TypeOK, TasksOK, Edf!LocalsOK, RM!LocalsOK, DM!LocalsOK, Indices,
                Edf!Indices, RM!Indices, DM!Indices, Edf!Infinity
  <2>2. Stages'
    BY <1>a DEF Stages, Indices
  <2> QED BY <2>1, <2>2 DEF Inv
<1> QED
  BY <1>1, <1>2, <1>3, <1>4, <1>5, <1>6, <1>7, <1>8, FixedSteps DEF Next, EdfStep, Edf!Next

LEMMA SpecInv == Spec => []Inv
  BY InitInv, NextInv, PTL DEF Spec

\* Every variable of the analyses stays in its type, for task sets of any size:
\* no length overflows the largest double, and no iteration starts from a
\* response time above the period.
THEOREM Typing == Spec => []TypeOK
<1>1. Inv => TypeOK
  BY DEF Inv
<1> QED BY <1>1, SpecInv, PTL

-----------------------------------------------------------------------------
(* The verdicts of exact sums *)

Exact == whole /\ Constrained

\* What a turn of the loop starts from is not above any time by which the task
\* is done, so the loop ends at the first such time or finds that it is late.
Judges(key) ==
    /\ at \in {"iterate", "compare"} => \A j \in Indices : j < task => Met(tasks, key, j)
    /\ (at \in {"iterate", "compare"} /\ task \in Indices) =>
           \A t \in Nat : Done(tasks, key, task, t) => a_n1 <= t
    /\ at = "compare" => Done(tasks, key, task, a_n1)
    /\ at = "returned" => (is_schedulable = 1 <=> \A j \in Indices : Met(tasks, key, j))

\* n[i] deadlines of each task i have been visited, none of them after one
\* that is still to come, and h is the work due at them.
Visited(n) ==
    /\ \A i \in Indices : time_stamps[i] = tasks[i].deadline + n[i] * tasks[i].period
    /\ \A i, j \in Indices : n[i] > 0 => time_stamps[i] - tasks[i].period <= time_stamps[j]
    /\ h = SumOver(JobWork(tasks, n), Indices)

Overloaded == \E d \in Nat : OverloadedAt(tasks, d)

Demands ==
    /\ at \in {"density", "length"} => h = 0
    /\ at = "load" => \E n \in [Indices -> Nat] : Visited(n)
    /\ (at = "returned" /\ is_schedulable = 0) => Overloaded

\* The verdicts that are written, and whether each is.
Verdicts ==
    /\ running # "edf" => results["edf"] # NotWritten
    /\ running \in {"dm", "end"} => results["rm"] # NotWritten
    /\ running = "end" => results["dm"] # NotWritten
    /\ results["edf"] = 0 => Overloaded
    /\ results["rm"] # NotWritten =>
           (results["rm"] = 1 <=> \A j \in Indices : Met(tasks, "period", j))
    /\ results["dm"] # NotWritten =>
           (results["dm"] = 1 <=> \A j \in Indices : Met(tasks, "deadline", j))

ExactInv ==
    Exact => /\ running = "edf" => Demands
             /\ running = "rm" => Judges("period")
             /\ running = "dm" => Judges("deadline")
             /\ Verdicts

LEMMA ExactTasks == TasksOK /\ Constrained => TaskSet(tasks) /\ Indices = DOMAIN tasks
  BY DEF TasksOK, Constrained, TaskSet, Indices

\* One more job of a task is its wcet more work.
LEMMA OneJobMore ==
    ASSUME NEW ts, TaskSet(ts), NEW n \in [DOMAIN ts -> Nat], NEW i \in DOMAIN ts,
           NEW m \in [DOMAIN ts -> Nat], m = [n EXCEPT ![i] = @ + 1]
    PROVE  SumOver(JobWork(ts, m), DOMAIN ts) = SumOver(JobWork(ts, n), DOMAIN ts) + ts[i].wcet
<1> DEFINE f == JobWork(ts, n)
<1> DEFINE g == JobWork(ts, m)
<1> DEFINE S == DOMAIN ts
<1> DEFINE R == DOMAIN ts \ {i}
<1>1. IsFiniteSet(S) /\ IsFiniteSet(R)
  BY TaskFacts, FS_Subset
<1>2. \A x \in S : f[x] \in Nat /\ g[x] \in Nat
  BY JobWorkNat
<1>3. \A x \in R : f[x] = g[x]
  <2>1. \A x \in R : m[x] = n[x]
    OBVIOUS
  <2> QED BY <2>1 DEF JobWork
<1>4. g[i] = f[i] + ts[i].wcet
  <2>1. m[i] = n[i] + 1 /\ n[i] \in Nat /\ ts[i].wcet \in Nat
    BY TaskFacts
  <2>2. f[i] = n[i] * ts[i].wcet /\ g[i] = m[i] * ts[i].wcet
    BY JobWorkNat
  <2>3. (n[i] + 1) * ts[i].wcet = n[i] * ts[i].wcet + ts[i].wcet
    BY <2>1
  <2> QED BY <2>1, <2>2, <2>3
<1>5. SumOver(f, R) = SumOver(g, R)
  <2>1. \A x \in R : f[x] \in Nat /\ g[x] \in Nat /\ x \in R /\ f[x] <= g[x] /\ g[x] <= f[x]
    <3> HIDE DEF f, g
    <3> QED BY <1>2, <1>3
  <2> HIDE DEF f, g, R
  <2>2. SumOver(f, R) <= SumOver(g, R) /\ SumOver(g, R) <= SumOver(f, R)
    BY <1>1, <2>1, SumWithin
  <2>3. SumOver(f, R) \in Nat /\ SumOver(g, R) \in Nat
    BY <1>1, <2>1, SumNat
  <2> QED BY <2>2, <2>3
<1>6. SumOver(f, S) = f[i] + SumOver(f, R) /\ SumOver(g, S) = g[i] + SumOver(g, R)
  <2> HIDE DEF f, g
  <2> QED BY <1>1, <1>2, SumRemove
<1>7. f[i] \in Nat /\ ts[i].wcet \in Nat /\ SumOver(f, R) \in Nat
  <2>1. ts[i].wcet \in Nat
    BY TaskFacts
  <2>2. \A x \in R : f[x] \in Nat
    BY <1>2
  <2> HIDE DEF f, R
  <2> QED BY <1>1, <1>2, <2>1, <2>2, SumNat
<1>8. SumOver(g, S) = SumOver(f, S) + ts[i].wcet
  <2> HIDE DEF f, g, R
  <2> QED BY <1>4, <1>5, <1>6, <1>7
<1> QED BY <1>8

\* With whole numbers one turn of the loop computes the sum in Done, and a
\* later time gives no smaller one.
LEMMA ResponseFacts ==
    ASSUME TasksOK, NEW key, NEW i \in Indices, NEW a \in Nat, NEW t \in Nat, a <= t
    PROVE  /\ Response(key, i, a, {}) \in Nat
           /\ Done(tasks, key, i, a) <=> Response(key, i, a, {}) <= a
           /\ Response(key, i, a, {}) <= Response(key, i, t, {})
<1> DEFINE H == HigherTasks(tasks, key, i)
<1> DEFINE f == Released(tasks, a, {})
<1> DEFINE g == Released(tasks, t, {})
<1>1. H \subseteq Indices /\ IsFiniteSet(H)
  <2>1. H \subseteq Indices
    BY DEF HigherTasks, Indices
  <2> QED BY <2>1, TasksFacts, FS_Subset
<1>2. \A x \in H : f[x] \in Nat /\ g[x] \in Nat /\ f[x] <= g[x]
  <2>1. TAKE x \in H
  <2>2. x \in DOMAIN tasks
    BY DEF HigherTasks
  <2>3. tasks[x].wcet \in Nat /\ tasks[x].period \in Nat \ {0}
    BY <2>2, TasksFacts DEF Indices
  <2> DEFINE c == Ceil(a, tasks[x].period)
  <2> DEFINE e == Ceil(t, tasks[x].period)
  <2>4. c \in Nat /\ e \in Nat /\ c <= e
    BY <2>3, CeilFacts, CeilMonotone
  <2>5. f[x] = c * tasks[x].wcet /\ g[x] = e * tasks[x].wcet
    <3> HIDE DEF c, e
    <3>1. f[x] = (c + 0) * tasks[x].wcet /\ g[x] = (e + 0) * tasks[x].wcet
      BY <2>2 DEF Released, c, e
    <3> QED BY <2>4, <3>1
  <2> HIDE DEF c, e, f, g
  <2>6. c * tasks[x].wcet <= e * tasks[x].wcet
    BY <2>3, <2>4
  <2> QED BY <2>3, <2>4, <2>5, <2>6
<1>3. Demand(H, a, {}) = SumOver(f, H) /\ Demand(H, t, {}) = SumOver(g, H)
  <2> HIDE DEF H
  <2> QED BY <1>1, DemandIsSum
<1>4. SumOver(f, H) <= SumOver(g, H) /\ SumOver(f, H) \in Nat /\ SumOver(g, H) \in Nat
  <2> HIDE DEF f, g, H
  <2> QED BY <1>1, <1>2, SumWithin, SumNat
<1>5. tasks[i].wcet \in Nat
  BY TasksFacts
<1>6. /\ Response(key, i, a, {}) = tasks[i].wcet + SumOver(f, H)
      /\ Response(key, i, t, {}) = tasks[i].wcet + SumOver(g, H)
  BY <1>3 DEF Response
<1>7. Done(tasks, key, i, a) <=> tasks[i].wcet + SumOver(f, H) <= a
  BY DEF Done
<1> HIDE DEF f, g, H
<1> QED BY <1>4, <1>5, <1>6, <1>7

LEMMA InitExact == Init => ExactInv
<1> SUFFICES ASSUME Init PROVE ExactInv
  OBVIOUS
<1>1. running = "edf" /\ at = "density" /\ h = 0
  BY DEF Init, Edf!Begin
<1>2. \A a \in Analyses : results[a] = NotWritten
  BY DEF Init
<1>3. Demands
  BY <1>1 DEF Demands
<1>4. Verdicts
  BY <1>1, <1>2 DEF Verdicts, Analyses, NotWritten
<1> QED BY <1>1, <1>3, <1>4 DEF ExactInv

\* A step that writes no verdict leaves those written alone.
LEMMA VerdictsStay ==
    ASSUME Verdicts, UNCHANGED <<tasks, running, results>>
    PROVE  Verdicts'
  BY DEF Verdicts, Overloaded, Indices

LEMMA FixedExact ==
    ASSUME Inv, ExactInv, NEW key \in {"period", "deadline"}, FixedStep(key)
    PROVE  ExactInv'
<1> USE DEF FixedStep, Unmoved
<1> SUFFICES ASSUME Exact PROVE ExactInv'
  BY DEF ExactInv, Exact, Constrained, Indices
<1>a. TasksOK /\ Stages /\ TypeOK /\ TaskSet(tasks) /\ Indices = DOMAIN tasks
  BY ExactTasks DEF Inv, TypeOK, Exact
<1>b. Judges(key) /\ Verdicts
  BY DEF ExactInv, Runs
<1>c. \A i \in Indices : /\ tasks[i].deadline \in Nat /\ tasks[i].period \in Nat
                         /\ tasks[i].deadline <= tasks[i].period
  BY <1>a, TaskFacts
<1>d. Indices = 1 .. Len(tasks) /\ Len(tasks) \in Nat /\ task \in 1 .. Len(tasks) + 1
      /\ a_n1 \in Nat
  BY <1>a, TasksFacts DEF TypeOK, RM!LocalsOK, DM!LocalsOK, Runs
<1>1. SUFFICES Judges(key)'
  <2>1. Verdicts'
    BY <1>b, VerdictsStay
  <2> QED BY <1>1, <2>1 DEF ExactInv, Runs
<1>2. CASE IterateStep(key)
  <2>1. task \in Indices /\ task' = task /\ at = "iterate"
    BY <1>2 DEF IterateStep
  <2>2. PICK r \in Nat : r = a_n1' /\ r = Response(key, task, a_n1, {})
    <3>1. a_n1' = Response(key, task, a_n1, {})
      BY <1>2 DEF IterateStep, RoundedUp, Exact
    <3>2. Response(key, task, a_n1, {}) \in Nat
      BY <1>a, <1>d, <2>1, ResponseNat
    <3> QED BY <3>1, <3>2
  <2>3. ASSUME NEW t \in Nat, Done(tasks, key, task, t) PROVE r <= t
    <3>1. a_n1 <= t
      BY <1>b, <2>1, <2>3 DEF Judges
    <3>2. r <= Response(key, task, t, {}) /\ Response(key, task, t, {}) \in Nat
      BY <1>a, <1>d, <2>1, <2>2, <3>1, ResponseFacts
    <3>3. Response(key, task, t, {}) <= t
      BY <1>a, <2>1, <2>3, ResponseFacts
    <3> QED BY <2>2, <3>2, <3>3
  <2>4. \A j \in Indices : j < task => Met(tasks, key, j)
    BY <1>b, <2>1 DEF Judges
  <2>5. CASE r = a_n1 /\ at' = "compare"
    <3>1. Done(tasks, key, task, r)
      BY <1>a, <1>d, <2>1, <2>2, <2>5, ResponseFacts
    <3> QED BY <2>1, <2>2, <2>3, <2>4, <2>5, <3>1 DEF Judges, Indices
  <2>6. CASE at' = "iterate"
    BY <2>1, <2>2, <2>3, <2>4, <2>6 DEF Judges, Indices
  <2>7. CASE TRUE \in Above(r, tasks[task].period) /\ at' = "returned" /\ is_schedulable' = 0
    <3>1. tasks[task].period \in Int /\ r \in Int /\ whole
      BY <1>c, <2>1, <2>2 DEF Exact
    <3>2. r > tasks[task].period
      BY <2>7, <3>1, AboveFacts, Zenon
    <3>3. r > tasks[task].deadline
      BY <1>c, <2>1, <2>2, <3>2
    <3>4. ~ Met(tasks, key, task)
      <4> SUFFICES ASSUME NEW t \in Nat, t <= tasks[task].deadline, Done(tasks, key, task, t)
                   PROVE  FALSE
        BY DEF Met
      <4>1. r <= t
        BY <2>3
      <4> QED BY <1>c, <2>1, <2>2, <3>3, <4>1
    <3> QED BY <2>1, <2>7, <3>4 DEF Judges, Indices
  <2>8. \/ r = a_n1 /\ at' = "compare"
        \/ at' = "iterate"
        \/ TRUE \in Above(r, tasks[task].period) /\ at' = "returned" /\ is_schedulable' = 0
    BY <1>2, <2>1, <2>2 DEF IterateStep
  <2> QED BY <2>5, <2>6, <2>7, <2>8
<1>3. CASE CompareStep
  <2>1. at = "compare" /\ task \in Indices
    BY <1>3, <1>a DEF CompareStep, Stages
  <2>2. /\ \A j \in Indices : j < task => Met(tasks, key, j)
        /\ \A t \in Nat : Done(tasks, key, task, t) => a_n1 <= t
        /\ Done(tasks, key, task, a_n1)
    BY <1>b, <2>1 DEF Judges
  <2>3. tasks[task].deadline \in Int /\ tasks[task].deadline \in Nat /\ a_n1 \in Int /\ whole
    BY <1>c, <1>d, <2>1 DEF Exact
  <2>4. CASE TRUE \in Above(a_n1, tasks[task].deadline)
             /\ at' = "returned" /\ is_schedulable' = 0
    <3>1. a_n1 > tasks[task].deadline
      BY <2>3, <2>4, AboveFacts, Zenon
    <3>2. ~ Met(tasks, key, task)
      BY <1>d, <2>2, <2>3, <3>1 DEF Met
    <3> QED BY <2>1, <2>4, <3>2 DEF Judges, Indices
  <2>5. CASE FALSE \in Above(a_n1, tasks[task].deadline)
             /\ at' = "iterate" /\ task' = task + 1 /\ a_n1' = 0
    <3>1. a_n1 <= tasks[task].deadline
      BY <2>3, <2>5, AboveFacts, Zenon
    <3>2. Met(tasks, key, task)
      BY <1>d, <2>2, <3>1 DEF Met
    <3>3. \A j \in Indices : j < task + 1 => Met(tasks, key, j)
      BY <1>d, <2>2, <3>2
    <3> QED BY <2>5, <3>3 DEF Judges, Indices
  <2> QED BY <1>3, <2>4, <2>5 DEF CompareStep
<1>4. CASE AcceptStep
  <2>1. \A j \in Indices : Met(tasks, key, j)
    BY <1>b, <1>d, <1>4 DEF AcceptStep, Judges
  <2> QED BY <1>4, <2>1 DEF AcceptStep, Judges, Indices
<1> QED BY <1>2, <1>3, <1>4

\* A turn of edf.c visits the earliest deadline, so that every job it has
\* counted is due by then.
LEMMA LoadExact ==
    ASSUME Inv, Exact, Demands, EdfStep, Edf!Load
    PROVE  Demands'
<1>a. TasksOK /\ Stages /\ TypeOK /\ TaskSet(tasks) /\ Indices = DOMAIN tasks
  BY ExactTasks DEF Inv, TypeOK, Exact
<1>b. /\ at = "load" /\ running = "edf"
      /\ UNCHANGED <<tasks, whole, l, new_l, running, results, task, a_n, a_n1>>
  BY DEF Edf!Load, EdfStep, fixedLocals
<1>c. \A i \in Indices : /\ tasks[i].deadline \in Nat /\ tasks[i].wcet \in Nat
                         /\ tasks[i].period \in Nat \ {0}
  BY <1>a, TaskFacts
<1>d. /\ time_stamps \in [Indices -> Nat] /\ Indices \subseteq Nat
      /\ h \in Nat /\ Edf!Indices = Indices
  BY <1>a, <1>b, TasksFacts DEF Stages, TypeOK, Edf!LocalsOK, Indices, Edf!Indices
<1>1. PICK n \in [Indices -> Nat] : Visited(n)
  BY <1>b DEF Demands
<1>2. PICK index \in Edf!SmallestIndex :
         /\ h' = h + tasks[index].wcet
         /\ \E above \in Edf!Above(h', time_stamps[index]) :
               IF above
               THEN Edf!Return(0) /\ UNCHANGED time_stamps
               ELSE /\ time_stamps' = Edf!NextTimeStamp(index)
                    /\ UNCHANGED <<at, is_schedulable>>
  BY DEF Edf!Load
<1>3. index \in Indices /\ \A j \in Indices : time_stamps[index] <= time_stamps[j]
  <2>1. Edf!SomeIndexLessThanOrEqual
    BY DEF Edf!Load
  <2> QED BY <1>a, <1>d, <1>2, <2>1, EarliestIsNext
<1> DEFINE C == tasks[index].wcet
<1> DEFINE D == tasks[index].deadline
<1> DEFINE T == tasks[index].period
<1> DEFINE d == time_stamps[index]
<1> DEFINE m == [n EXCEPT ![index] = @ + 1]
<1>4. /\ C \in Nat /\ D \in Nat /\ T \in Nat \ {0} /\ d \in Nat
      /\ n[index] \in Nat /\ d = D + n[index] * T
  BY <1>1, <1>3, <1>c, <1>d DEF Visited
<1>5. m \in [Indices -> Nat] /\ m[index] = n[index] + 1
      /\ \A i \in Indices : i # index => m[i] = n[i]
  BY <1>3
<1>6. SumOver(JobWork(tasks, m), Indices) = h + C
  <2>1. SumOver(JobWork(tasks, m), DOMAIN tasks) = SumOver(JobWork(tasks, n), DOMAIN tasks) + C
    BY <1>3, <1>5, <1>a, OneJobMore
  <2> HIDE DEF m, C
  <2> QED BY <1>1, <1>a, <2>1 DEF Visited
\* Every job counted is due by d.
<1>7. ASSUME NEW i \in Indices, m[i] > 0
      PROVE  tasks[i].deadline + (m[i] - 1) * tasks[i].period <= d
  <2>1. CASE i = index
    <3>1. m[i] - 1 = n[index]
      BY <1>4, <1>5, <2>1
    <3> QED BY <1>4, <2>1, <3>1
  <2>2. CASE i # index
    <3>1. n[i] > 0 /\ m[i] = n[i] /\ n[i] \in Nat
      BY <1>5, <1>7, <2>2
    <3>2. time_stamps[i] - tasks[i].period <= d
      BY <1>1, <1>3, <3>1 DEF Visited
    <3>3. time_stamps[i] = tasks[i].deadline + n[i] * tasks[i].period
      BY <1>1 DEF Visited
    <3>4. (n[i] - 1) * tasks[i].period = n[i] * tasks[i].period - tasks[i].period
      BY <1>c, <3>1
    <3>5. n[i] * tasks[i].period \in Nat /\ tasks[i].period \in Nat
          /\ tasks[i].deadline \in Nat
      BY <1>c, <3>1
    <3> HIDE DEF m
    <3> QED BY <1>4, <3>1, <3>2, <3>3, <3>4, <3>5
  <2> QED BY <2>1, <2>2
<1>8. PICK x \in Nat : x = h' /\ x = h + C
  BY <1>2, <1>4, <1>d
<1>9. CASE /\ TRUE \in Edf!Above(x, d)
           /\ at' = "returned" /\ is_schedulable' = 0 /\ time_stamps' = time_stamps
  <2>1. TRUE \in Above(x, d) /\ whole /\ x \in Int /\ d \in Int
    <3>1. x \in Int /\ d \in Int
      BY <1>4
    <3> HIDE DEF d
    <3> QED BY <1>9, <3>1, AboveFacts, Zenon DEF Exact
  <2>2. x > d
    <3> HIDE DEF d
    <3> QED BY <2>1, AboveFacts, Zenon
  <2>3. OverloadedAt(tasks, d)
    <3>1. SumOver(JobWork(tasks, m), DOMAIN tasks) > d
      BY <1>6, <1>8, <1>a, <2>2
    <3> HIDE DEF m, d
    <3> QED BY <1>5, <1>7, <1>a, <3>1 DEF OverloadedAt
  <2>4. Overloaded
    <3> HIDE DEF d
    <3> QED BY <1>4, <2>3 DEF Overloaded
  <2>5. Overloaded'
    BY <1>b, <2>4 DEF Overloaded
  <2> QED BY <1>9, <2>5 DEF Demands
<1>10. CASE time_stamps' = Edf!NextTimeStamp(index) /\ UNCHANGED <<at, is_schedulable>>
  <2>1. /\ time_stamps'[index] = d + T
        /\ \A i \in Indices : i # index => time_stamps'[i] = time_stamps[i]
    BY <1>3, <1>10, <1>d DEF Edf!NextTimeStamp
  <2>2. ASSUME NEW i \in Indices
        PROVE  time_stamps'[i] = tasks[i].deadline + m[i] * tasks[i].period
    <3>1. CASE i = index
      <4>1. (n[index] + 1) * T = n[index] * T + T
        BY <1>4
      <4> QED BY <1>4, <1>5, <2>1, <3>1, <4>1
    <3>2. CASE i # index
      BY <1>1, <1>5, <2>1, <3>2 DEF Visited
    <3> QED BY <3>1, <3>2
  <2>3. \A j \in Indices : d <= time_stamps'[j]
    BY <1>3, <1>4, <1>d, <2>1
  <2>4. ASSUME NEW i \in Indices, NEW j \in Indices, m[i] > 0
        PROVE  time_stamps'[i] - tasks[i].period <= time_stamps'[j]
    <3>1. CASE i = index
      BY <1>4, <2>1, <2>3, <3>1
    <3>2. CASE i # index
      <4>1. n[i] > 0
        BY <1>5, <2>4, <3>2
      <4>2. time_stamps[i] - tasks[i].period <= d
        BY <1>1, <1>3, <4>1 DEF Visited
      <4>3. time_stamps'[i] = time_stamps[i] /\ time_stamps[i] \in Nat
            /\ tasks[i].period \in Nat /\ d <= time_stamps'[j]
        BY <1>c, <1>d, <2>1, <2>3, <3>2
      <4>4. time_stamps'[j] \in Nat
        BY <1>4, <1>d, <2>1
      <4> HIDE DEF d
      <4> QED BY <1>4, <4>2, <4>3, <4>4
    <3> QED BY <3>1, <3>2
  <2>5. h' = SumOver(JobWork(tasks, m), Indices)
    BY <1>6, <1>8
  <2>6. Indices' = Indices /\ tasks' = tasks
    BY <1>b DEF Indices
  <2>7. Visited(m)'
    <3> HIDE DEF m, d
    <3> QED BY <2>2, <2>4, <2>5, <2>6 DEF Visited, m
  <2> QED BY <1>5, <1>10, <1>b, <2>6, <2>7 DEF Demands
<1>11. \/ /\ TRUE \in Edf!Above(x, d)
          /\ at' = "returned" /\ is_schedulable' = 0 /\ time_stamps' = time_stamps
       \/ time_stamps' = Edf!NextTimeStamp(index) /\ UNCHANGED <<at, is_schedulable>>
  <2>1. PICK above \in Edf!Above(x, d) :
           IF above
           THEN Edf!Return(0) /\ UNCHANGED time_stamps
           ELSE /\ time_stamps' = Edf!NextTimeStamp(index)
                /\ UNCHANGED <<at, is_schedulable>>
    BY <1>2, <1>8
  <2>2. above \in {TRUE, FALSE}
    <3>1. x \in Int /\ d \in Int
      BY <1>4
    <3> HIDE DEF d
    <3> QED BY <2>1, <3>1, AboveFacts, Zenon
  <2> HIDE DEF d
  <2>3. CASE above = TRUE
    BY <2>1, <2>3 DEF Edf!Return
  <2>4. CASE above = FALSE
    BY <2>1, <2>4
  <2> QED BY <2>2, <2>3, <2>4
<1> QED BY <1>9, <1>10, <1>11

LEMMA EdfExact ==
    ASSUME Inv, ExactInv, EdfStep
    PROVE  ExactInv'
<1> SUFFICES ASSUME Exact PROVE ExactInv'
  <2>1. UNCHANGED <<tasks, whole>>
    BY DEF EdfStep, Edf!Next, Edf!Density, Edf!SumWcets, Edf!Length, Edf!Load, Edf!LoadEnds
  <2> QED BY <2>1 DEF ExactInv, Exact, Constrained, Indices
<1>a. TasksOK /\ TaskSet(tasks) /\ Indices = DOMAIN tasks
  BY ExactTasks DEF Inv, TypeOK, Exact
<1>b. running = "edf" /\ Demands /\ Verdicts /\ UNCHANGED <<running, results>>
  BY DEF ExactInv, EdfStep
<1>1. SUFFICES Demands' /\ tasks' = tasks
  <2>1. Verdicts'
    BY <1>b, <1>1, VerdictsStay
  <2> QED BY <1>1, <1>b, <2>1 DEF ExactInv
<1>2. CASE Edf!Density
  BY <1>2 DEF Edf!Density, Edf!Return, Demands
<1>3. CASE Edf!SumWcets
  BY <1>b, <1>3 DEF Edf!SumWcets, Demands
<1>4. CASE Edf!Length
  <2>1. /\ h' = h /\ h = 0 /\ tasks' = tasks /\ Indices' = Indices
        /\ \/ at' = "length"
           \/ at' = "load" /\ time_stamps' = [i \in Indices |-> tasks[i].deadline]
    BY <1>b, <1>4 DEF Edf!Length, Demands, Indices, Edf!Indices
  <2>2. CASE at' = "length"
    BY <2>1, <2>2 DEF Demands
  <2>3. CASE at' = "load" /\ time_stamps' = [i \in Indices |-> tasks[i].deadline]
    <3> DEFINE n == [i \in Indices |-> 0]
    <3>1. n \in [Indices -> Nat] /\ \A i \in Indices : n[i] = 0
      OBVIOUS
    <3>2. \A i \in Indices : JobWork(tasks, n)[i] = 0
      <4>1. TAKE i \in Indices
      <4>2. tasks[i].wcet \in Nat /\ 0 * tasks[i].wcet = 0
        BY <1>a, TasksFacts
      <4> QED BY <1>a, <4>2 DEF JobWork
    <3>3. SumOver(JobWork(tasks, n), Indices) = 0
      <4> HIDE DEF n
      <4> QED BY <1>a, <3>2, TasksFacts, SumZero
    <3>4. \A i \in Indices : time_stamps'[i] = tasks[i].deadline + n[i] * tasks[i].period
      <4>1. TAKE i \in Indices
      <4>2. /\ tasks[i].deadline \in Nat /\ tasks[i].period \in Nat
            /\ 0 * tasks[i].period = 0
        BY <1>a, TasksFacts
      <4> QED BY <2>3, <4>2
    <3>5. Visited(n)'
      <4> HIDE DEF n
      <4> QED BY <2>1, <3>1, <3>3, <3>4 DEF Visited, n
    <3> QED BY <2>1, <2>3, <3>1, <3>5 DEF Demands
  <2> QED BY <2>1, <2>2, <2>3
<1>5. CASE Edf!Load
  <2>1. tasks' = tasks
    BY <1>5 DEF Edf!Load
  <2> QED BY <1>5, <1>b, <2>1, LoadExact
<1>6. CASE Edf!LoadEnds
  BY <1>6 DEF Edf!LoadEnds, Edf!Return, Demands
<1> QED BY <1>2, <1>3, <1>4, <1>5, <1>6 DEF EdfStep, Edf!Next

LEMMA WriteExact ==
    ASSUME Inv, ExactInv, WriteFile
    PROVE  ExactInv'
<1> SUFFICES ASSUME Exact PROVE ExactInv'
  BY DEF WriteFile, ExactInv, Exact, Constrained, Indices
<1>a. TasksOK /\ Stages /\ TypeOK /\ Indices = 1 .. Len(tasks) /\ Len(tasks) \in Nat
  BY TasksFacts DEF Inv, TypeOK
<1>b. /\ running \in Analyses /\ at = "returned" /\ is_schedulable \in {0, 1}
      /\ results \in [Analyses -> {0, 1, NotWritten}]
      /\ tasks' = tasks /\ Indices' = Indices
  BY <1>a DEF WriteFile, TypeOK, Stages, Indices
<1>c. /\ running = "edf" => Demands
      /\ running = "rm" => Judges("period")
      /\ running = "dm" => Judges("deadline")
      /\ Verdicts
  BY DEF ExactInv
<1>d. /\ results'[running] = is_schedulable
      /\ \A a \in Analyses : a # running => results'[a] = results[a]
  BY <1>b DEF WriteFile
<1>e. /\ 0 # NotWritten /\ 1 # NotWritten /\ 0 # 1
      /\ {"edf", "rm", "dm"} = Analyses
  BY DEF NotWritten, Analyses
<1>1. /\ Overloaded' <=> Overloaded
      /\ \A key \in {"period", "deadline"} :
            (\A j \in Indices : Met(tasks, key, j))' <=> (\A j \in Indices : Met(tasks, key, j))
  BY <1>b DEF Overloaded
<1>2. CASE running = "edf"
  <2>1. running' = "rm" /\ at' = "iterate" /\ task' = 1 /\ a_n1' = 0
    BY <1>2 DEF WriteFile
  <2>2. Judges("period")'
    <3>1. \A j \in Indices : ~ (j < 1)
      BY <1>a
    <3>2. \A t \in Nat : 0 <= t
      OBVIOUS
    <3> QED BY <1>b, <2>1, <3>1, <3>2 DEF Judges
  <2>3. Verdicts'
    <3>1. results'["edf"] = is_schedulable /\ results'["rm"] = results["rm"]
          /\ results'["dm"] = results["dm"]
      BY <1>2, <1>d, <1>e
    <3>2. is_schedulable = 0 => Overloaded
      BY <1>2, <1>b, <1>c DEF Demands
    <3> QED BY <1>1, <1>b, <1>c, <1>e, <2>1, <3>1, <3>2 DEF Verdicts
  <2> QED BY <2>1, <2>2, <2>3 DEF ExactInv
<1>3. CASE running = "rm"
  <2>1. running' = "dm" /\ at' = "iterate" /\ task' = 1 /\ a_n1' = 0
    BY <1>3 DEF WriteFile
  <2>2. Judges("deadline")'
    <3>1. \A j \in Indices : ~ (j < 1)
      BY <1>a
    <3>2. \A t \in Nat : 0 <= t
      OBVIOUS
    <3> QED BY <1>b, <2>1, <3>1, <3>2 DEF Judges
  <2>3. Verdicts'
    <3>1. results'["rm"] = is_schedulable /\ results'["edf"] = results["edf"]
          /\ results'["dm"] = results["dm"]
      BY <1>3, <1>d, <1>e
    <3>2. is_schedulable = 1 <=> \A j \in Indices : Met(tasks, "period", j)
      BY <1>3, <1>b, <1>c DEF Judges
    <3> QED BY <1>1, <1>3, <1>b, <1>c, <1>e, <2>1, <3>1, <3>2 DEF Verdicts
  <2> QED BY <2>1, <2>2, <2>3 DEF ExactInv
<1>4. CASE running = "dm"
  <2>1. running' = "end"
    BY <1>4 DEF WriteFile
  <2>2. Verdicts'
    <3>1. results'["dm"] = is_schedulable /\ results'["edf"] = results["edf"]
          /\ results'["rm"] = results["rm"]
      BY <1>4, <1>d, <1>e
    <3>2. is_schedulable = 1 <=> \A j \in Indices : Met(tasks, "deadline", j)
      BY <1>4, <1>b, <1>c DEF Judges
    <3> QED BY <1>1, <1>4, <1>b, <1>c, <1>e, <2>1, <3>1, <3>2 DEF Verdicts
  <2> QED BY <2>1, <2>2 DEF ExactInv
<1> QED BY <1>2, <1>3, <1>4, <1>b DEF Analyses

LEMMA NextExact == Inv /\ ExactInv /\ [Next]_vars => ExactInv'
<1> SUFFICES ASSUME Inv, ExactInv, [Next]_vars PROVE ExactInv'
  OBVIOUS
<1>1. CASE EdfStep
  BY <1>1, EdfExact
<1>2. CASE RmStep
  BY <1>2, FixedSteps, FixedExact
<1>3. CASE DmStep
  BY <1>3, FixedSteps, FixedExact
<1>4. CASE WriteFile
  BY <1>4, WriteExact
<1>5. CASE UNCHANGED vars
  <2> USE <1>5 DEF vars, edfLocals, fixedLocals
  <2>1. Demands => Demands'
    BY DEF Demands, Visited, Overloaded, Indices
  <2>2. \A key \in {"period", "deadline"} : Judges(key) => Judges(key)'
    BY DEF Judges, Indices
  <2>3. Verdicts => Verdicts'
    BY VerdictsStay
  <2> QED BY <2>1, <2>2, <2>3 DEF ExactInv, Exact, Constrained, Indices
<1> QED BY <1>1, <1>2, <1>3, <1>4, <1>5 DEF Next

LEMMA SpecExact == Spec => []ExactInv
<1>1. Init => ExactInv
  BY InitExact
<1>2. Inv /\ ExactInv /\ [Next]_vars => ExactInv'
  BY NextExact
<1> QED BY <1>1, <1>2, SpecInv, PTL DEF Spec

\* With times in whole numbers and deadlines no longer than periods, rm.c and
\* dm.c accept exactly the task sets in which each task and those above it, all
\* released together, are done at some time by its deadline: neither the order
\* of the array nor the early end of the loop (rm.c:119) changes the answer.
ResponseTimesDecide ==
    whole /\ Constrained =>
      /\ results["rm"] # NotWritten =>
            (Verdict("rm") <=> \A i \in Indices : Met(tasks, "period", i))
      /\ results["dm"] # NotWritten =>
            (Verdict("dm") <=> \A i \in Indices : Met(tasks, "deadline", i))

\* So the verdict of rm.c or dm.c is that of the response time test, for task
\* sets of any size.
THEOREM FixedPriorityIsExact == Spec => []ResponseTimesDecide
<1>1. ExactInv => ResponseTimesDecide
  BY DEF ExactInv, Exact, Verdicts, Verdict, ResponseTimesDecide
<1> QED BY <1>1, SpecExact, PTL

\* With times in whole numbers and deadlines no longer than periods, edf.c
\* refuses only task sets in which some jobs, released together and all due by
\* some time, are more work than fits before it: no schedule meets their
\* deadlines. It holds wherever the length of the busy period was left.
RefusesOnlyOverload ==
    whole /\ Constrained /\ results["edf"] = 0 => Overloaded

\* So edf.c refuses no task set that could be scheduled, for task sets of any
\* size.
THEOREM EdfRefusesOverload == Spec => []RefusesOnlyOverload
<1>1. ExactInv => RefusesOnlyOverload
  BY DEF ExactInv, Exact, Verdicts, RefusesOnlyOverload
<1> QED BY <1>1, SpecExact, PTL

-----------------------------------------------------------------------------
(* A density of at most 1 *)

\* A density of at most 1 leaves no overload: n jobs of a task are due no
\* earlier than n of its windows, and so take no more than their part of the
\* density of that time.
LEMMA DensityFits ==
    ASSUME TasksOK, Constrained, ~ Edf!NotANumber, FALSE \in Edf!DensityAboveOne
    PROVE  \A d \in Nat : ~ OverloadedAt(tasks, d)
<1> DEFINE f == [i \in Indices |-> tasks[i].deadline]
<1> DEFINE scale == ProductOver(f, Indices)
<1> DEFINE g == [i \in Indices |-> tasks[i].wcet * (scale \div f[i])]
<1>1. /\ TaskSet(tasks) /\ Indices = DOMAIN tasks /\ IsFiniteSet(Indices)
      /\ Edf!Indices = Indices
  BY ExactTasks, TasksFacts DEF Edf!Indices, Indices
<1>2. \A i \in Indices : /\ tasks[i].wcet \in Nat /\ tasks[i].deadline \in Nat
                         /\ tasks[i].period \in Nat \ {0}
                         /\ tasks[i].deadline <= tasks[i].period
  BY <1>1, TaskFacts
<1>3. \A i \in Indices : Edf!Window(i) = tasks[i].deadline
  BY <1>2 DEF Edf!Window
<1>4. FALSE \in Above(Edf!ScaledDensity, Edf!Scale) /\ ~ Edf!InfiniteDensity
  <2>1. ~ Edf!InfiniteDensity
    BY DEF Edf!DensityAboveOne
  <2>2. FALSE \in Edf!Above(Edf!ScaledDensity, Edf!Scale)
    BY <2>1 DEF Edf!DensityAboveOne
  <2> QED BY <2>1, <2>2 DEF Edf!Above, Above
<1>5. \A i \in Indices : f[i] \in Nat \ {0} /\ f[i] = tasks[i].deadline
  <2> TAKE i \in Indices
  <2>1. tasks[i].deadline # 0
    BY <1>1, <1>2, <1>3, <1>4 DEF Edf!NotANumber, Edf!InfiniteDensity
  <2> QED BY <1>2, <2>1
<1>6. Edf!Scale = scale
  <2> DEFINE IsFold(it) == it = [s \in SUBSET Indices |->
                                    IF s = {} THEN 1
                                    ELSE LET x == CHOOSE x \in s : TRUE
                                         IN Edf!Window(x) * it[s \ {x}]]
  <2> DEFINE fold == CHOOSE it : IsFold(it)
  <2>1. \A it : IsFold(it) <=> IsIter(it, "product", f, Indices)
    BY <1>3 DEF IsIter, Combine, Neutral
  <2>2. IsIter(Iter("product", f, Indices), "product", f, Indices)
    BY <1>1, IterExists
  <2>3. Edf!Scale = fold[Indices]
    BY <1>1 DEF Edf!Scale, Edf!FoldSet, Edf!MapThenFoldSet
  <2>4. IsIter(fold, "product", f, Indices)
    <3> HIDE DEF IsFold
    <3>1. IsFold(fold)
      BY <2>1, <2>2
    <3> QED BY <2>1, <3>1
  <2>5. fold = Iter("product", f, Indices)
    <3> HIDE DEF f, fold
    <3> QED BY <1>1, <2>2, <2>4, IterUnique
  <2> QED BY <2>3, <2>5 DEF ProductOver, FoldOver
<1>7. Edf!ScaledDensity = SumOver(g, Indices)
  <2> DEFINE IsFold(it) == it = [s \in SUBSET Indices |->
                                    IF s = {} THEN 0
                                    ELSE LET x == CHOOSE x \in s : TRUE
                                         IN tasks[x].wcet * (Edf!Scale \div Edf!Window(x))
                                              + it[s \ {x}]]
  <2> DEFINE fold == CHOOSE it : IsFold(it)
  <2>1. \A it : IsFold(it) <=> IsIter(it, "sum", g, Indices)
    <3> HIDE DEF scale
    <3> QED BY <1>3, <1>5, <1>6 DEF IsIter, Combine, Neutral
  <2>2. IsIter(Iter("sum", g, Indices), "sum", g, Indices)
    BY <1>1, IterExists
  <2>3. Edf!ScaledDensity = fold[Indices]
    BY <1>1 DEF Edf!ScaledDensity, Edf!MapThenSumSet, Edf!MapThenFoldSet
  <2>4. IsIter(fold, "sum", g, Indices)
    <3> HIDE DEF IsFold, g
    <3>1. IsFold(fold)
      BY <2>1, <2>2
    <3> QED BY <2>1, <3>1
  <2>5. fold = Iter("sum", g, Indices)
    <3> HIDE DEF g, fold
    <3> QED BY <1>1, <2>2, <2>4, IterUnique
  <2> QED BY <2>3, <2>5 DEF SumOver, FoldOver
<1>8. scale \in Nat \ {0} /\ \A i \in Indices : \E k \in Nat : scale = f[i] * k
  <2> HIDE DEF f
  <2> QED BY <1>1, <1>5, ProductFacts
<1> HIDE DEF scale
<1>9. \A i \in Indices : \E k \in Nat : scale = f[i] * k /\ g[i] = tasks[i].wcet * k
  <2> TAKE i \in Indices
  <2>1. PICK k \in Nat : scale = f[i] * k
    BY <1>8
  <2> DEFINE p == f[i]
  <2>2. p \in Nat \ {0} /\ scale = p * k + 0 /\ 0 \in 0 .. p - 1 /\ k \in Int /\ scale \in Int
    BY <1>5, <1>8, <2>1
  <2> HIDE DEF p
  <2>3. scale \div p = k
    BY <2>2, DivUnique
  <2> QED BY <2>1, <2>3 DEF p
<1>10. \A i \in Indices : g[i] \in Nat
  <2> TAKE i \in Indices
  <2>1. PICK k \in Nat : g[i] = tasks[i].wcet * k
    BY <1>9
  <2>2. tasks[i].wcet * k \in Nat
    BY <1>2
  <2> QED BY <2>1, <2>2
<1> HIDE DEF g
<1>11. SumOver(g, Indices) \in Nat /\ SumOver(g, Indices) <= scale
  <2>1. SumOver(g, Indices) \in Nat
    BY <1>1, <1>10, SumNat
  <2>2. SumOver(g, Indices) \in Int /\ scale \in Int
    BY <1>8, <2>1
  <2>3. FALSE \in Above(SumOver(g, Indices), scale)
    BY <1>4, <1>6, <1>7
  <2> QED BY <2>1, <2>2, <2>3, AboveFacts
<1>12. SUFFICES ASSUME NEW d \in Nat, NEW n \in [Indices -> Nat],
                       \A i \in Indices :
                          n[i] > 0 => tasks[i].deadline + (n[i] - 1) * tasks[i].period <= d
                PROVE  SumOver(JobWork(tasks, n), Indices) <= d
  <2>1. ASSUME NEW d \in Nat, NEW n \in [Indices -> Nat],
               SumOver(JobWork(tasks, n), Indices) <= d,
               SumOver(JobWork(tasks, n), Indices) > d
        PROVE  FALSE
    <3> DEFINE x == SumOver(JobWork(tasks, n), Indices)
    <3>1. x \in Nat
      <4>1. \A i \in Indices : JobWork(tasks, n)[i] \in Nat
        BY <1>1, JobWorkNat
      <4> QED BY <1>1, <4>1, SumNat
    <3>2. x <= d /\ x > d
      BY <2>1
    <3> HIDE DEF x
    <3> QED BY <3>1, <3>2
  <2> QED BY <1>1, <1>12, <2>1 DEF OverloadedAt
<1> DEFINE a == JobWork(tasks, n)
<1> DEFINE b == [i \in Indices |-> scale * a[i]]
<1> DEFINE e == [i \in Indices |-> d * g[i]]
<1>13. ASSUME NEW i \in Indices
       PROVE  a[i] \in Nat /\ b[i] = scale * a[i] /\ e[i] = d * g[i] /\ b[i] <= e[i]
  <2>1. a[i] \in Nat /\ a[i] = n[i] * tasks[i].wcet
    BY <1>1, JobWorkNat
  <2>2. PICK k \in Nat : scale = f[i] * k /\ g[i] = tasks[i].wcet * k
    BY <1>9
  <2> DEFINE w == tasks[i].wcet
  <2> DEFINE p == tasks[i].deadline
  <2> DEFINE T == tasks[i].period
  <2> DEFINE m == n[i]
  <2>3. /\ w \in Nat /\ p \in Nat /\ T \in Nat /\ p <= T /\ m \in Nat /\ f[i] = p
        /\ m > 0 => p + (m - 1) * T <= d
    BY <1>2, <1>5, <1>12
  <2>4. b[i] = scale * a[i] /\ e[i] = d * g[i]
    OBVIOUS
  <2>5. a[i] = m * w /\ g[i] = w * k /\ scale = p * k
    BY <2>1, <2>2, <2>3
  <2> HIDE DEF a, b, e, w, p, T, m
  <2>6. m * p <= d
    <3>1. CASE m = 0
      <4>1. m * p = 0
        BY <2>3, <3>1
      <4> QED BY <4>1
    <3>2. CASE m > 0
      <4>1. (m - 1) * p <= (m - 1) * T /\ m * p = (m - 1) * p + p
        BY <2>3, <3>2
      <4>2. (m - 1) * p \in Int /\ (m - 1) * T \in Int
        BY <2>3
      <4> QED BY <2>3, <3>2, <4>1, <4>2
    <3> QED BY <2>3, <3>1, <3>2
  <2>7. w * k \in Nat /\ m * p \in Nat
    BY <2>3
  <2>8. (m * p) * (w * k) <= d * (w * k)
    <3> DEFINE u == m * p
    <3> DEFINE v == w * k
    <3>1. u \in Nat /\ v \in Nat /\ u <= d
      BY <2>6, <2>7
    <3> HIDE DEF u, v
    <3>2. u * v <= d * v
      BY <3>1
    <3> QED BY <3>2 DEF u, v
  <2>9. (p * k) * (m * w) = (m * p) * (w * k)
    BY <2>3
  <2>10. b[i] <= e[i]
    BY <2>4, <2>5, <2>8, <2>9
  <2> QED BY <2>1, <2>4, <2>10
<1>14. \A i \in Indices : b[i] \in Nat /\ e[i] \in Nat
  <2> TAKE i \in Indices
  <2>1. a[i] \in Nat /\ b[i] = scale * a[i] /\ e[i] = d * g[i] /\ g[i] \in Nat
    BY <1>10, <1>13
  <2> HIDE DEF a, b, e
  <2> QED BY <1>8, <2>1
<1> HIDE DEF a, b, e
<1>15. SumOver(b, Indices) <= SumOver(e, Indices)
  BY <1>1, <1>13, <1>14, SumWithin
<1>16. SumOver(b, Indices) = scale * SumOver(a, Indices)
  BY <1>1, <1>8, <1>13, SumTimes
<1>17. SumOver(e, Indices) = d * SumOver(g, Indices)
  BY <1>1, <1>10, <1>13, SumTimes
<1>18. SumOver(a, Indices) \in Nat
  BY <1>1, <1>13, SumNat
<1> DEFINE x == SumOver(a, Indices)
<1> DEFINE y == SumOver(g, Indices)
<1>19. x \in Nat /\ y \in Nat /\ y <= scale /\ scale * x <= d * y
  BY <1>11, <1>15, <1>16, <1>17, <1>18
<1> HIDE DEF x, y
<1>20. x <= d
  <2>1. d * y <= d * scale /\ d * scale = scale * d
    BY <1>8, <1>19
  <2>2. SUFFICES ASSUME x >= d + 1 PROVE FALSE
    BY <1>19
  <2>3. scale * x >= scale * (d + 1) /\ scale * (d + 1) = scale * d + scale
    BY <1>8, <1>19, <2>2
  <2>4. scale * d \in Nat /\ scale * x \in Nat /\ d * y \in Nat
    BY <1>8, <1>19
  <2> QED BY <1>8, <1>19, <2>1, <2>3, <2>4
<1> QED BY <1>20 DEF x, a

-----------------------------------------------------------------------------
(* What EDF analysis accepts *)

\* No time is overloaded, or, if the busy period is infinite, none that a
\* double can hold.
Fits ==
    \A d \in Nat : d <= MaxDouble \/ l # Edf!Infinity => ~ OverloadedAt(tasks, d)

Idle == \A i \in Indices : tasks[i].wcet = 0

\* What is released in a busy period that was found fits in it.
BusyPeriod ==
    /\ l = 0 => Idle
    /\ new_l # Edf!Infinity =>
          l # Edf!Infinity /\ SumOver(Released(tasks, l, {}), Indices) <= new_l

\* If it was left short, by at most 1 %.
ShortByOnePercent ==
    l # new_l => new_l # Edf!Infinity /\ 99 * new_l <= 100 * l

\* No time has over 100/99 of the work that fits in it.
NearlyFits == \A d \in Nat : ~ HeavyAt(tasks, d)

\* h is the work of the jobs whose deadlines have been visited, and no time
\* before the deadlines that are to come is overloaded.
Counted(n) ==
    /\ \A i \in Indices : time_stamps[i] = tasks[i].deadline + n[i] * tasks[i].period
    /\ h = SumOver(JobWork(tasks, n), Indices)

NoneBefore ==
    \A d \in Nat : (\A i \in Indices : d < time_stamps[i]) => ~ OverloadedAt(tasks, d)

Accepts ==
    /\ at \in {"density", "length"} => h = 0
    /\ at = "density" => l = new_l
    /\ at = "length" /\ new_l = 0 => Idle
    /\ at = "load" => /\ BusyPeriod /\ ShortByOnePercent /\ NoneBefore
                      /\ \E n \in [Indices -> Nat] : Counted(n)
    /\ (at = "returned" /\ is_schedulable = 1 /\ LengthIsExact) => Fits
    /\ (at = "returned" /\ is_schedulable = 1 /\ l # new_l) => NearlyFits

AcceptInv == running = "edf" /\ Constrained => Accepts

\* A set whose busy period is found and whose deadlines in it were visited.
LEMMA BusyPeriodFits ==
    ASSUME Inv, Constrained, BusyPeriod, LengthIsExact, NoneBefore,
           time_stamps \in [Indices -> Nat], \A i \in Indices : time_stamps[i] >= l
    PROVE  Fits
<1>1. TasksOK /\ TaskSet(tasks) /\ Indices = DOMAIN tasks
  BY ExactTasks DEF Inv, TypeOK
<1>2. l \in Nat /\ l <= Edf!Infinity /\ l = new_l /\ MaxDouble \in Nat
  BY MaxDoubleAssumption DEF Inv, TypeOK, Edf!LocalsOK, Edf!Infinity, LengthIsExact
<1>3. ASSUME NEW d \in Nat, d < l PROVE ~ OverloadedAt(tasks, d)
  <2>1. \A i \in Indices : d < time_stamps[i]
    BY <1>2, <1>3
  <2> QED BY <2>1 DEF NoneBefore
<1>4. CASE l = Edf!Infinity
  BY <1>2, <1>3, <1>4 DEF Fits, Edf!Infinity
<1>5. CASE l # Edf!Infinity
  <2>1. SumOver(Released(tasks, l, {}), DOMAIN tasks) <= l
    BY <1>1, <1>2, <1>5 DEF BusyPeriod
  <2>2. CASE l # 0
    <3>1. \A d \in Nat : ~ OverloadedAt(tasks, d)
      BY <1>1, <1>2, <1>3, <2>1, <2>2, OverloadWithin
    <3> QED BY <3>1 DEF Fits
  <2>3. CASE l = 0
    <3>1. Idle
      BY <2>3 DEF BusyPeriod
    <3>2. ASSUME NEW d \in Nat, OverloadedAt(tasks, d) PROVE FALSE
      <4>1. PICK n \in [DOMAIN tasks -> Nat] : SumOver(JobWork(tasks, n), DOMAIN tasks) > d
        BY <3>2 DEF OverloadedAt
      <4>2. \A i \in DOMAIN tasks : JobWork(tasks, n)[i] = 0
        <5> TAKE i \in DOMAIN tasks
        <5>1. JobWork(tasks, n)[i] = n[i] * tasks[i].wcet /\ n[i] \in Nat
          BY <1>1, JobWorkNat
        <5>2. tasks[i].wcet = 0
          BY <1>1, <3>1 DEF Idle
        <5> QED BY <5>1, <5>2
      <4>3. SumOver(JobWork(tasks, n), DOMAIN tasks) = 0
        BY <1>1, <4>2, TaskFacts, SumZero
      <4> QED BY <3>2, <4>1, <4>3
    <3> QED BY <3>2 DEF Fits
  <2> QED BY <2>2, <2>3
<1> QED BY <1>4, <1>5

\* The same where the length was left short.
LEMMA ShortBusyPeriodFits ==
    ASSUME Inv, Constrained, BusyPeriod, ShortByOnePercent, l # new_l, NoneBefore,
           time_stamps \in [Indices -> Nat], \A i \in Indices : time_stamps[i] >= l
    PROVE  NearlyFits
<1>1. TasksOK /\ TaskSet(tasks) /\ Indices = DOMAIN tasks
  BY ExactTasks DEF Inv, TypeOK
<1>2. l \in Nat /\ new_l \in Nat /\ new_l # Edf!Infinity /\ 99 * new_l <= 100 * l
  BY MaxDoubleAssumption DEF Inv, TypeOK, Edf!LocalsOK, Edf!Infinity, ShortByOnePercent
<1>3. l # 0
  BY <1>2
<1>4. ASSUME NEW d \in Nat, d < l PROVE ~ OverloadedAt(tasks, d)
  <2>1. \A i \in Indices : d < time_stamps[i]
    BY <1>2, <1>4
  <2> QED BY <2>1 DEF NoneBefore
<1> DEFINE x == SumOver(Released(tasks, l, {}), DOMAIN tasks)
<1>5. x \in Nat /\ x <= new_l
  <2>1. x <= new_l
    BY <1>1, <1>2 DEF BusyPeriod
  <2>2. x \in Nat
    BY <1>1, <1>2, ReleasedNat, TaskFacts, SumNat
  <2> QED BY <2>1, <2>2
<1>6. 99 * x <= 100 * l
  <2> HIDE DEF x
  <2> QED BY <1>2, <1>5
<1> QED BY <1>1, <1>2, <1>3, <1>4, <1>6, HeavyWithin DEF NearlyFits

\* If the values that tasks with work give to a sum are not 0 and the sum is 0,
\* no task has work.
LEMMA NoWork ==
    ASSUME TasksOK, NEW f, \A i \in Indices : f[i] \in Nat /\ (f[i] = 0 => tasks[i].wcet = 0),
           SumOver(f, Indices) = 0
    PROVE  Idle
<1>1. IsFiniteSet(Indices)
  BY TasksFacts
<1>2. ASSUME NEW i \in Indices PROVE f[i] = 0
  <2>1. SumOver(f, Indices) = f[i] + SumOver(f, Indices \ {i})
    BY <1>1, SumRemove
  <2>2. SumOver(f, Indices \ {i}) \in Nat
    <3>1. IsFiniteSet(Indices \ {i})
      BY <1>1, FS_Subset
    <3> QED BY <3>1, SumNat
  <2>3. f[i] \in Nat
    OBVIOUS
  <2> QED BY <2>1, <2>2, <2>3
<1> QED BY <1>2 DEF Idle

\* What is released may be counted too high, and is none in some time only if
\* there is no work.
LEMMA ReleasedUp ==
    ASSUME TasksOK, NEW a \in Nat, NEW up, NEW i \in Indices
    PROVE  /\ Released(tasks, a, up)[i] \in Nat /\ Released(tasks, a, {})[i] \in Nat
           /\ Released(tasks, a, {})[i] <= Released(tasks, a, up)[i]
           /\ a > 0 /\ Released(tasks, a, up)[i] = 0 => tasks[i].wcet = 0
<1> DEFINE f == Released(tasks, a, up)
<1> DEFINE g == Released(tasks, a, {})
<1> DEFINE c == Ceil(a, tasks[i].period)
<1> DEFINE w == tasks[i].wcet
<1> DEFINE u == IF i \in up THEN 1 ELSE 0
<1>1. c \in Nat /\ w \in Nat /\ u \in Nat /\ (a > 0 => c > 0)
  BY TasksFacts, CeilFacts
<1>2. f[i] = (c + u) * w /\ g[i] = (c + 0) * w
  BY DEF Released, Indices
<1> HIDE DEF c, w, u, f, g
<1>3. (c + u) * w = c * w + u * w /\ c * w \in Nat /\ u * w \in Nat /\ (c + 0) * w = c * w
  BY <1>1
<1>4. c > 0 /\ c * w = 0 => w = 0
  BY <1>1
<1>5. a > 0 /\ f[i] = 0 => w = 0
  BY <1>1, <1>2, <1>3, <1>4
<1> QED BY <1>2, <1>3, <1>5 DEF f, g, w

\* One turn of the iteration of the busy period gives what is released in it,
\* or more.
LEMMA NextLength ==
    ASSUME Inv, EdfStep, Edf!Length, new_l = 0 => Idle
    PROVE  /\ l' = new_l /\ (new_l' = 0 => Idle)
           /\ new_l' # Edf!Infinity =>
                 new_l # Edf!Infinity /\ SumOver(Released(tasks, new_l, {}), Indices) <= new_l'
<1>1. TasksOK /\ new_l \in Nat /\ MaxDouble \in Nat
  BY MaxDoubleAssumption DEF Inv, TypeOK, Edf!LocalsOK, Edf!Infinity
<1>2. l' = new_l /\ new_l' \in Edf!NextLengths
  BY DEF Edf!Length
<1>3. CASE new_l = Edf!Infinity
  BY <1>1, <1>2, <1>3 DEF Edf!NextLengths, Edf!Infinity
<1>4. CASE new_l # Edf!Infinity
  <2>1. PICK up \in Edf!RoundedUp(new_l) :
           new_l' = Edf!ToDouble(Edf!Demand(Edf!Indices, new_l, up))
    BY <1>2, <1>4 DEF Edf!NextLengths
  <2> DEFINE f == Released(tasks, new_l, up)
  <2> DEFINE g == Released(tasks, new_l, {})
  <2> DEFINE x == SumOver(f, Indices)
  <2>2. new_l' = Edf!ToDouble(x)
    <3>1. Edf!Demand(Edf!Indices, new_l, up) = Demand(Indices, new_l, up)
      BY DemandsAgree DEF Edf!Indices, Indices
    <3>2. Demand(Indices, new_l, up) = x
      BY <1>1, TasksFacts, DemandIsSum
    <3> QED BY <2>1, <3>1, <3>2
  <2>3. ASSUME NEW i \in Indices
        PROVE  /\ f[i] \in Nat /\ g[i] \in Nat /\ g[i] <= f[i]
               /\ new_l > 0 => (f[i] = 0 => tasks[i].wcet = 0)
    BY <1>1, ReleasedUp
  <2>4. IsFiniteSet(Indices)
    BY <1>1, TasksFacts
  <2> HIDE DEF f, g
  <2>5. x \in Nat /\ SumOver(g, Indices) <= x
    BY <2>3, <2>4, SumNat, SumWithin
  <2>6. x = 0 => Idle
    <3>1. CASE new_l = 0
      BY <3>1
    <3>2. CASE new_l > 0
      BY <1>1, <2>3, <3>2, NoWork
    <3> QED BY <1>1, <3>1, <3>2
  <2>7. /\ new_l' # Edf!Infinity => new_l' = x
        /\ new_l' = 0 => x = 0
    <3> HIDE DEF x
    <3> QED BY <1>1, <2>2, <2>5 DEF Edf!ToDouble, Edf!Infinity
  <2> QED BY <1>2, <1>4, <2>5, <2>6, <2>7 DEF g
<1> QED BY <1>3, <1>4

\* The loop ends at a length at most 1 % short.
LEMMA LastLength ==
    ASSUME Inv, Inv', Edf!Length, at = "length", at' = "load"
    PROVE  ShortByOnePercent'
<1>1. PICK again \in Edf!AnotherTurn(new_l, new_l') : ~ again
  BY DEF Edf!Length
<1>2. l' = new_l /\ new_l \in Nat /\ new_l' \in Edf!NextLengths
  BY MaxDoubleAssumption DEF Inv, TypeOK, Edf!LocalsOK, Edf!Infinity, Edf!Length
<1>3. CASE new_l' = Edf!Infinity
  <2>1. Edf!AnotherTurn(new_l, new_l') = {new_l # Edf!Infinity}
    BY <1>3 DEF Edf!AnotherTurn
  <2>2. ~ (new_l # Edf!Infinity)
    BY <1>1, <2>1, Zenon
  <2> QED BY <1>2, <1>3, <2>2 DEF ShortByOnePercent
<1>4. CASE new_l' # Edf!Infinity
  <2>1. new_l' \in Nat
    BY MaxDoubleAssumption DEF Inv, TypeOK, Edf!LocalsOK, Edf!Infinity
  <2>2. PICK above \in Edf!Above(100 * new_l, 101 * new_l'),
             below \in Edf!Above(99 * new_l', 100 * new_l) : again = (above \/ below)
    BY <1>1, <1>4 DEF Edf!AnotherTurn
  <2>3. 99 * new_l' \in Int /\ 100 * new_l \in Int
    BY <1>2, <2>1
  <2>4. ~ below
    BY <1>1, <2>2
  <2>5. below \in {TRUE, FALSE} /\ below \in Above(99 * new_l', 100 * new_l)
    BY <2>2, <2>3, AboveFacts, Zenon
  <2>6. below = FALSE
    BY <2>4, <2>5
  <2>7. FALSE \in Above(99 * new_l', 100 * new_l)
    BY <2>5, <2>6
  <2>8. 99 * new_l' <= 100 * new_l
    BY <2>3, <2>7, AboveFacts
  <2> QED BY <1>2, <1>4, <2>8 DEF ShortByOnePercent, Edf!Infinity
<1> QED BY <1>3, <1>4

\* What is visited next is the earliest deadline to come, and the work due by
\* then is found to fit.
LEMMA LoadAccepts ==
    ASSUME Inv, Constrained, Accepts, EdfStep, Edf!Load
    PROVE  Accepts'
<1>a. TasksOK /\ Stages /\ TypeOK /\ TaskSet(tasks) /\ Indices = DOMAIN tasks
  BY ExactTasks DEF Inv, TypeOK
<1>b. /\ at = "load" /\ running = "edf" /\ UNCHANGED <<tasks, l, new_l>>
      /\ Indices' = Indices
  BY DEF Edf!Load, EdfStep, Indices
<1>c. \A i \in Indices : /\ tasks[i].deadline \in Nat /\ tasks[i].wcet \in Nat
                         /\ tasks[i].period \in Nat \ {0}
  BY <1>a, TaskFacts
<1>d. time_stamps \in [Indices -> Nat] /\ h \in Nat /\ Edf!SomeIndexLessThanOrEqual
  BY <1>a, <1>b DEF Stages, TypeOK, Edf!LocalsOK, Edf!Load
<1>1. PICK n \in [Indices -> Nat] : Counted(n)
  BY <1>b DEF Accepts
<1>2. PICK index \in Edf!SmallestIndex :
         /\ h' = h + tasks[index].wcet
         /\ \E above \in Edf!Above(h', time_stamps[index]) :
               IF above
               THEN Edf!Return(0) /\ UNCHANGED time_stamps
               ELSE /\ time_stamps' = Edf!NextTimeStamp(index)
                    /\ UNCHANGED <<at, is_schedulable>>
  BY DEF Edf!Load
<1>3. index \in Indices /\ \A j \in Indices : time_stamps[index] <= time_stamps[j]
  BY <1>a, <1>d, <1>2, EarliestIsNext
<1> DEFINE C == tasks[index].wcet
<1> DEFINE T == tasks[index].period
<1> DEFINE d == time_stamps[index]
<1> DEFINE m == [n EXCEPT ![index] = @ + 1]
<1>4. C \in Nat /\ T \in Nat \ {0} /\ d \in Nat /\ n[index] \in Nat
      /\ d = tasks[index].deadline + n[index] * T /\ tasks[index].deadline \in Nat
  BY <1>1, <1>3, <1>c, <1>d DEF Counted
<1>5. m \in [Indices -> Nat] /\ m[index] = n[index] + 1
      /\ \A i \in Indices : i # index => m[i] = n[i]
  BY <1>3
<1>6. SumOver(JobWork(tasks, m), Indices) = h + C
  <2>1. SumOver(JobWork(tasks, m), DOMAIN tasks) = SumOver(JobWork(tasks, n), DOMAIN tasks) + C
    BY <1>3, <1>5, <1>a, OneJobMore
  <2> HIDE DEF m, C
  <2> QED BY <1>1, <1>a, <2>1 DEF Counted
<1>7. PICK x \in Nat : x = h' /\ x = h + C
  BY <1>2, <1>4, <1>d
<1>8. CASE at' = "returned" /\ is_schedulable' = 0
  BY <1>8 DEF Accepts
<1>9. CASE /\ FALSE \in Edf!Above(x, d)
           /\ time_stamps' = Edf!NextTimeStamp(index) /\ UNCHANGED <<at, is_schedulable>>
  <2>1. x <= d
    <3>1. FALSE \in Above(x, d) /\ x \in Int /\ d \in Int
      <4>1. x \in Int /\ d \in Int
        BY <1>4
      <4> HIDE DEF d
      <4> QED BY <1>9, <4>1, AboveFacts, Zenon
    <3> HIDE DEF d
    <3> QED BY <3>1, AboveFacts
  <2>2. /\ time_stamps'[index] = d + T
        /\ \A i \in Indices : i # index => time_stamps'[i] = time_stamps[i]
    BY <1>3, <1>9, <1>d DEF Edf!NextTimeStamp
  <2>3. ASSUME NEW i \in Indices
        PROVE  time_stamps'[i] = tasks[i].deadline + m[i] * tasks[i].period
    <3>1. CASE i = index
      <4>1. (n[index] + 1) * T = n[index] * T + T /\ n[index] * T \in Nat
        BY <1>4
      <4> QED BY <1>4, <1>5, <2>2, <3>1, <4>1
    <3>2. CASE i # index
      BY <1>1, <1>5, <2>2, <3>2 DEF Counted
    <3> QED BY <3>1, <3>2
  <2>4. Counted(m)'
    <3>1. h' = SumOver(JobWork(tasks, m), Indices)
      BY <1>6, <1>7
    <3> HIDE DEF m, d
    <3> QED BY <1>b, <2>3, <3>1 DEF Counted, m
\* All the jobs due by a time before the deadlines to come are counted.
  <2>5. ASSUME NEW e \in Nat, \A i \in Indices : e < time_stamps'[i], OverloadedAt(tasks, e)
        PROVE  FALSE
    <3>1. d <= e
      <4>1. SUFFICES ASSUME e < d PROVE FALSE
        BY <1>4
      <4>2. \A i \in Indices : e < time_stamps[i]
        <5> TAKE i \in Indices
        <5>1. d <= time_stamps[i] /\ time_stamps[i] \in Nat
          BY <1>3, <1>d
        <5> HIDE DEF d
        <5> QED BY <1>4, <4>1, <5>1
      <4> QED BY <1>b, <2>5, <4>2 DEF Accepts, NoneBefore
    <3>2. PICK k \in [DOMAIN tasks -> Nat] :
             /\ \A i \in DOMAIN tasks :
                   k[i] > 0 => tasks[i].deadline + (k[i] - 1) * tasks[i].period <= e
             /\ SumOver(JobWork(tasks, k), DOMAIN tasks) > e
      BY <2>5 DEF OverloadedAt
    <3>3. ASSUME NEW i \in Indices
          PROVE  /\ JobWork(tasks, k)[i] \in Nat /\ JobWork(tasks, m)[i] \in Nat
                 /\ JobWork(tasks, k)[i] <= JobWork(tasks, m)[i]
      <4> DEFINE p == tasks[i].period
      <4> DEFINE D == tasks[i].deadline
      <4> DEFINE w == tasks[i].wcet
      <4> DEFINE u == k[i]
      <4> DEFINE v == m[i]
      <4>1. /\ p \in Nat \ {0} /\ D \in Nat /\ w \in Nat /\ u \in Nat /\ v \in Nat
        BY <1>a, <1>c, <1>5, <3>2
      <4>2. u > 0 => D + (u - 1) * p <= e
        BY <1>a, <3>2
      <4>3. e < D + v * p
        BY <2>3, <2>5
      <4>4. JobWork(tasks, k)[i] = u * w /\ JobWork(tasks, m)[i] = v * w
        BY <1>a, <1>5, <3>2, JobWorkNat
      <4> HIDE DEF p, D, w, u, v, m
      <4>5. u <= v
        <5>1. SUFFICES ASSUME u >= v + 1 PROVE FALSE
          BY <4>1
        <5>2. (u - 1) * p >= v * p /\ v * p \in Nat /\ (u - 1) * p \in Nat
          BY <4>1, <5>1
        <5> QED BY <4>1, <4>2, <4>3, <5>1, <5>2
      <4>6. u * w <= v * w /\ u * w \in Nat /\ v * w \in Nat
        BY <4>1, <4>5
      <4> QED BY <4>4, <4>6
    <3>4. SumOver(JobWork(tasks, k), Indices) <= SumOver(JobWork(tasks, m), Indices)
      <4>1. IsFiniteSet(Indices)
        BY <1>a, TasksFacts
      <4> HIDE DEF m
      <4> QED BY <3>3, <4>1, SumWithin
    <3>5. SumOver(JobWork(tasks, k), Indices) \in Nat
      <4>1. IsFiniteSet(Indices)
        BY <1>a, TasksFacts
      <4> HIDE DEF m
      <4> QED BY <3>3, <4>1, SumNat
    <3>6. SumOver(JobWork(tasks, m), Indices) = x
      BY <1>6, <1>7
    <3>7. SumOver(JobWork(tasks, k), Indices) > e
      BY <1>a, <3>2
    <3> HIDE DEF m, d
    <3> QED BY <1>4, <2>1, <3>1, <3>4, <3>5, <3>6, <3>7
  <2>6. NoneBefore'
    BY <1>b, <2>5 DEF NoneBefore
  <2>7. BusyPeriod' /\ ShortByOnePercent' /\ at' = "load"
    BY <1>b, <1>9 DEF Accepts, BusyPeriod, ShortByOnePercent, Idle, Edf!Infinity
  <2> QED BY <1>5, <1>b, <2>4, <2>6, <2>7 DEF Accepts
<1>10. \/ at' = "returned" /\ is_schedulable' = 0
       \/ /\ FALSE \in Edf!Above(x, d)
          /\ time_stamps' = Edf!NextTimeStamp(index) /\ UNCHANGED <<at, is_schedulable>>
  <2>1. PICK above \in Edf!Above(x, d) :
           IF above
           THEN Edf!Return(0) /\ UNCHANGED time_stamps
           ELSE /\ time_stamps' = Edf!NextTimeStamp(index)
                /\ UNCHANGED <<at, is_schedulable>>
    BY <1>2, <1>7
  <2>2. above \in {TRUE, FALSE}
    <3>1. x \in Int /\ d \in Int
      BY <1>4
    <3> HIDE DEF d
    <3> QED BY <2>1, <3>1, AboveFacts, Zenon
  <2> HIDE DEF d
  <2>3. CASE above = TRUE
    BY <2>1, <2>3 DEF Edf!Return
  <2>4. CASE above = FALSE
    BY <2>1, <2>4
  <2> QED BY <2>2, <2>3, <2>4
<1> QED BY <1>8, <1>9, <1>10

LEMMA EdfAccepts ==
    ASSUME Inv, AcceptInv, EdfStep
    PROVE  AcceptInv'
<1> SUFFICES ASSUME Constrained PROVE Accepts'
  <2>1. tasks' = tasks
    BY DEF EdfStep, Edf!Next, Edf!Density, Edf!SumWcets, Edf!Length, Edf!Load, Edf!LoadEnds
  <2> QED BY <2>1 DEF AcceptInv, Constrained, Indices
<1>a. TasksOK /\ TaskSet(tasks) /\ Indices = DOMAIN tasks /\ IsFiniteSet(Indices)
  BY ExactTasks, TasksFacts DEF Inv, TypeOK
<1>b. running = "edf" /\ Accepts
  BY DEF AcceptInv, EdfStep
<1>c. \A i \in Indices : /\ tasks[i].deadline \in Nat /\ tasks[i].wcet \in Nat
                         /\ tasks[i].period \in Nat \ {0}
  BY <1>a, TasksFacts
<1>1. CASE Edf!Density
  <2>1. /\ at' = "returned" /\ UNCHANGED <<tasks, l, new_l>> /\ FALSE \in Edf!DensityAboveOne
    BY <1>1 DEF Edf!Density, Edf!Return, Edf!locals
  <2>2. LengthIsExact' => ~ Edf!NotANumber
    BY <2>1 DEF LengthIsExact, Edf!NotANumber, Edf!Indices, Edf!Window
  <2>3. ~ Edf!NotANumber => Fits'
    BY <1>a, <2>1, DensityFits DEF Fits
  <2>4. l' = new_l'
    BY <1>b, <1>1, <2>1 DEF Accepts, Edf!Density
  <2> QED BY <2>1, <2>2, <2>3, <2>4 DEF Accepts
<1>2. CASE Edf!SumWcets
  <2> DEFINE f == [i \in Indices |-> tasks[i].wcet]
  <2> DEFINE x == SumOver(f, Indices)
  <2>1. MapThenSumSet(LAMBDA i : tasks[i].wcet, Indices) = x
    BY <1>a, WcetsSum
  <2>2. Edf!MapThenSumSet(LAMBDA i : tasks[i].wcet, Edf!Indices)
          = MapThenSumSet(LAMBDA i : tasks[i].wcet, Indices)
    BY DEF Edf!MapThenSumSet, MapThenSumSet, Edf!MapThenFoldSet, MapThenFoldSet,
           Edf!Indices, Indices
  <2>3. /\ at = "density" /\ at' = "length" /\ h' = h /\ Indices' = Indices /\ tasks' = tasks
        /\ new_l' = Edf!ToDouble(x)
    <3> HIDE DEF x
    <3> QED BY <1>2, <2>1, <2>2 DEF Edf!SumWcets, Indices
  <2>4. \A i \in Indices : f[i] \in Nat /\ (f[i] = 0 => tasks[i].wcet = 0)
    BY <1>c
  <2> HIDE DEF f
  <2>5. x \in Nat
    BY <1>a, <2>4, SumNat
  <2>6. new_l' = 0 => x = 0
    <3> HIDE DEF x
    <3> QED BY <2>3, <2>5, MaxDoubleAssumption DEF Edf!ToDouble, Edf!Infinity
  <2>7. new_l' = 0 => Idle
    BY <1>a, <2>4, <2>6, NoWork
  <2>8. Idle => Idle'
    BY <2>3 DEF Idle
  <2> QED BY <1>b, <2>3, <2>7, <2>8 DEF Accepts
<1>3. CASE Edf!Length
  <2>1. /\ h' = h /\ h = 0 /\ tasks' = tasks /\ Indices' = Indices
        /\ at = "length" /\ (new_l = 0 => Idle)
        /\ \/ at' = "length"
           \/ at' = "load" /\ time_stamps' = [i \in Indices |-> tasks[i].deadline]
    BY <1>b, <1>3 DEF Edf!Length, Accepts, Indices, Edf!Indices
  <2>2. /\ l' = new_l /\ (new_l' = 0 => Idle)
        /\ new_l' # Edf!Infinity =>
              new_l # Edf!Infinity /\ SumOver(Released(tasks, new_l, {}), Indices) <= new_l'
    BY <1>3, <2>1, NextLength
  <2>3. Idle => Idle'
    BY <2>1 DEF Idle
  <2>4. BusyPeriod'
    BY <2>1, <2>2, <2>3 DEF BusyPeriod, Edf!Infinity
  <2>5. CASE at' = "length"
    BY <2>1, <2>2, <2>3, <2>5 DEF Accepts
  <2>6. CASE at' = "load" /\ time_stamps' = [i \in Indices |-> tasks[i].deadline]
    <3> DEFINE n == [i \in Indices |-> 0]
    <3>1. n \in [Indices -> Nat] /\ \A i \in Indices : n[i] = 0
      OBVIOUS
    <3>2. \A i \in Indices : JobWork(tasks, n)[i] = 0
      <4>1. TAKE i \in Indices
      <4>2. tasks[i].wcet \in Nat /\ 0 * tasks[i].wcet = 0
        BY <1>c
      <4> QED BY <1>a, <4>2 DEF JobWork
    <3>3. SumOver(JobWork(tasks, n), Indices) = 0
      <4> HIDE DEF n
      <4> QED BY <1>a, <3>2, SumZero
    <3>4. \A i \in Indices : time_stamps'[i] = tasks[i].deadline + n[i] * tasks[i].period
      <4>1. TAKE i \in Indices
      <4>2. /\ tasks[i].deadline \in Nat /\ tasks[i].period \in Nat
            /\ 0 * tasks[i].period = 0
        BY <1>c
      <4> QED BY <2>6, <4>2
    <3>5. Counted(n)'
      <4> HIDE DEF n
      <4> QED BY <2>1, <3>1, <3>3, <3>4 DEF Counted, n
    <3>6. ASSUME NEW d \in Nat, \A i \in Indices : d < time_stamps'[i], OverloadedAt(tasks, d)
          PROVE  FALSE
      <4>1. PICK k \in [DOMAIN tasks -> Nat] :
               /\ \A i \in DOMAIN tasks :
                     k[i] > 0 => tasks[i].deadline + (k[i] - 1) * tasks[i].period <= d
               /\ SumOver(JobWork(tasks, k), DOMAIN tasks) > d
        BY <3>6 DEF OverloadedAt
      <4>2. \A i \in Indices : JobWork(tasks, k)[i] = 0
        <5> TAKE i \in Indices
        <5> DEFINE p == tasks[i].period
        <5> DEFINE u == k[i]
        <5>1. /\ u \in Nat /\ p \in Nat /\ tasks[i].deadline \in Nat
              /\ d < tasks[i].deadline
              /\ u > 0 => tasks[i].deadline + (u - 1) * p <= d
          BY <1>a, <1>c, <2>6, <3>6, <4>1
        <5>2. JobWork(tasks, k)[i] = u * tasks[i].wcet
          BY <1>a, <4>1, JobWorkNat
        <5> HIDE DEF p, u
        <5>3. u = 0
          <6>1. SUFFICES ASSUME u > 0 PROVE FALSE
            BY <5>1
          <6>2. (u - 1) * p \in Nat
            BY <5>1, <6>1
          <6> QED BY <5>1, <6>1, <6>2
        <5>4. 0 * tasks[i].wcet = 0
          BY <1>c
        <5> QED BY <5>2, <5>3, <5>4
      <4>3. SumOver(JobWork(tasks, k), DOMAIN tasks) = 0
        BY <1>a, <4>2, SumZero
      <4> QED BY <3>6, <4>1, <4>3
    <3>7. NoneBefore'
      BY <2>1, <3>6 DEF NoneBefore
    <3>8. ShortByOnePercent'
      <4>1. Inv'
        BY NextInv DEF Next
      <4> QED BY <1>3, <2>1, <2>6, <4>1, LastLength
    <3> QED BY <2>1, <2>4, <2>6, <3>1, <3>5, <3>7, <3>8 DEF Accepts
  <2> QED BY <2>1, <2>5, <2>6
<1>4. CASE Edf!Load
  BY <1>4, <1>b, LoadAccepts
<1>5. CASE Edf!LoadEnds
  <2>1. /\ at = "load" /\ at' = "returned" /\ UNCHANGED <<tasks, l, new_l>>
        /\ \/ ~ Edf!SomeIndexLessThanOrEqual
           \/ \A i \in Edf!Indices : time_stamps[i] >= l
    BY <1>5 DEF Edf!LoadEnds, Edf!Return, Edf!locals
  <2>2. time_stamps \in [Indices -> Nat] /\ l \in Nat
    BY <2>1, MaxDoubleAssumption DEF Inv, Stages, TypeOK, Edf!LocalsOK, Edf!Infinity
  <2>3. \A i \in Indices : time_stamps[i] >= l
    BY <2>1, <2>2 DEF Edf!SomeIndexLessThanOrEqual, Edf!Indices, Indices
  <2>4. LengthIsExact' => LengthIsExact
    BY <2>1 DEF LengthIsExact, Edf!NotANumber, Edf!Indices, Edf!Window
  <2>5. LengthIsExact => Fits
    BY <1>b, <2>1, <2>2, <2>3, BusyPeriodFits DEF Accepts
  <2>6. Fits => Fits'
    BY <2>1 DEF Fits, Edf!Infinity
  <2>7. l # new_l => NearlyFits
    BY <1>b, <2>1, <2>2, <2>3, ShortBusyPeriodFits DEF Accepts
  <2>8. l' # new_l' => NearlyFits'
    BY <2>1, <2>7 DEF NearlyFits
  <2> QED BY <2>1, <2>4, <2>5, <2>6, <2>8 DEF Accepts
<1> QED BY <1>1, <1>2, <1>3, <1>4, <1>5 DEF EdfStep, Edf!Next

LEMMA SpecAccepts == Spec => []AcceptInv
<1>1. Init => AcceptInv
  BY DEF Init, Edf!Begin, AcceptInv, Accepts
<1>2. Inv /\ AcceptInv /\ [Next]_vars => AcceptInv'
  <2> SUFFICES ASSUME Inv, AcceptInv, [Next]_vars PROVE AcceptInv'
    OBVIOUS
  <2>1. CASE EdfStep
    BY <2>1, EdfAccepts
  <2>2. CASE RmStep \/ DmStep
    BY <2>2 DEF RmStep, DmStep, AcceptInv
  <2>3. CASE WriteFile
    <3>1. running' # "edf"
      BY <2>3 DEF WriteFile, Inv, TypeOK, Stages, Analyses
    <3> QED BY <3>1 DEF AcceptInv
  <2>4. CASE UNCHANGED vars
    <3> USE <2>4 DEF vars, edfLocals, fixedLocals
    <3>1. Accepts => Accepts'
      BY DEF Accepts, BusyPeriod, NoneBefore, Counted, Fits, Idle, LengthIsExact, Indices,
             ShortByOnePercent, NearlyFits,
             Edf!NotANumber, Edf!Indices, Edf!Window, Edf!Infinity
    <3> QED BY <3>1 DEF AcceptInv, Constrained, Indices
  <2> QED BY <2>1, <2>2, <2>3, <2>4 DEF Next
<1> QED BY <1>1, <1>2, SpecInv, PTL DEF Spec

-----------------------------------------------------------------------------
(* What rate and deadline monotonic analysis accept *)

\* The tasks that were passed meet the response time test, for a sum that is
\* counted too high does not end the loop too early.
Passes(key) ==
    /\ at \in {"iterate", "compare"} => \A j \in Indices : j < task => Met(tasks, key, j)
    /\ at = "compare" => Done(tasks, key, task, a_n1)
    /\ (at = "returned" /\ is_schedulable = 1) => \A j \in Indices : Met(tasks, key, j)

\* And so do those of a verdict that is written.
PassInv ==
    /\ running = "rm" => Passes("period")
    /\ running = "dm" => Passes("deadline")
    /\ results["rm"] = 1 => \A j \in Indices : Met(tasks, "period", j)
    /\ results["dm"] = 1 => \A j \in Indices : Met(tasks, "deadline", j)

LEMMA ResponseUp ==
    ASSUME TasksOK, NEW key, NEW i \in Indices, NEW a \in Nat, NEW up
    PROVE  /\ Response(key, i, a, up) \in Nat
           /\ Response(key, i, a, up) = a => Done(tasks, key, i, a)
<1> DEFINE H == HigherTasks(tasks, key, i)
<1> DEFINE f == Released(tasks, a, up)
<1> DEFINE g == Released(tasks, a, {})
<1>1. H \subseteq Indices /\ IsFiniteSet(H)
  <2>1. H \subseteq Indices
    BY DEF HigherTasks, Indices
  <2> QED BY <2>1, TasksFacts, FS_Subset
<1>2. \A x \in H : f[x] \in Nat /\ g[x] \in Nat /\ g[x] <= f[x]
  BY <1>1, ReleasedUp
<1>3. Response(key, i, a, up) = tasks[i].wcet + SumOver(f, H)
  <2> HIDE DEF H
  <2>1. Demand(H, a, up) = SumOver(f, H)
    BY <1>1, DemandIsSum
  <2> QED BY <2>1 DEF Response, H
<1>4. SumOver(f, H) \in Nat /\ SumOver(g, H) \in Nat /\ SumOver(g, H) <= SumOver(f, H)
  <2> HIDE DEF f, g, H
  <2> QED BY <1>1, <1>2, SumNat, SumWithin
<1>5. tasks[i].wcet \in Nat
  BY TasksFacts
<1>6. Done(tasks, key, i, a) <=> tasks[i].wcet + SumOver(g, H) <= a
  BY DEF Done
<1> HIDE DEF f, g, H
<1> QED BY <1>3, <1>4, <1>5, <1>6

LEMMA FixedPasses ==
    ASSUME Inv, PassInv, NEW key \in {"period", "deadline"}, FixedStep(key)
    PROVE  PassInv'
<1> USE DEF FixedStep, Unmoved
<1>a. TasksOK /\ Stages /\ TypeOK
  BY DEF Inv, TypeOK
<1>b. Passes(key)
  BY DEF PassInv, Runs
<1>c. \A i \in Indices : tasks[i].deadline \in Nat
  BY <1>a, TasksFacts
<1>d. Indices = 1 .. Len(tasks) /\ Len(tasks) \in Nat /\ task \in 1 .. Len(tasks) + 1
      /\ a_n1 \in Nat /\ Indices' = Indices
  BY <1>a, TasksFacts DEF TypeOK, RM!LocalsOK, DM!LocalsOK, Runs, Indices
<1>1. SUFFICES Passes(key)'
  <2>1. /\ results' = results /\ tasks' = tasks
        /\ \A k \in {"period", "deadline"}, j \in Indices : Met(tasks, k, j)' = Met(tasks, k, j)
    OBVIOUS
  <2> QED BY <1>1, <1>d, <2>1 DEF PassInv, Runs
<1>2. CASE IterateStep(key)
  <2>1. /\ task \in Indices /\ task' = task /\ at = "iterate"
        /\ \/ a_n1' = a_n1 /\ at' = "compare"
           \/ at' = "iterate"
           \/ at' = "returned" /\ is_schedulable' = 0
    BY <1>2 DEF IterateStep
  <2>2. \A j \in Indices : j < task => Met(tasks, key, j)
    BY <1>b, <2>1 DEF Passes
  <2>3. ASSUME a_n1' = a_n1 PROVE Done(tasks, key, task, a_n1)
    <3>1. PICK up : a_n1' = Response(key, task, a_n1, up)
      BY <1>2 DEF IterateStep
    <3>2. Response(key, task, a_n1, up) = a_n1
      BY <2>3, <3>1
    <3> QED BY <1>a, <1>d, <2>1, <3>2, ResponseUp
  <2> QED BY <1>d, <2>1, <2>2, <2>3 DEF Passes
<1>3. CASE CompareStep
  <2>1. at = "compare" /\ task \in Indices
    BY <1>3, <1>a DEF CompareStep, Stages
  <2>2. (\A j \in Indices : j < task => Met(tasks, key, j)) /\ Done(tasks, key, task, a_n1)
    BY <1>b, <2>1 DEF Passes
  <2>3. CASE at' = "returned" /\ is_schedulable' = 0
    BY <2>3 DEF Passes
  <2>4. CASE /\ FALSE \in Above(a_n1, tasks[task].deadline)
             /\ at' = "iterate" /\ task' = task + 1 /\ a_n1' = 0
    <3>1. tasks[task].deadline \in Int /\ a_n1 \in Int
      BY <1>c, <1>d, <2>1
    <3>2. a_n1 <= tasks[task].deadline
      BY <2>4, <3>1, AboveFacts, Zenon
    <3>3. Met(tasks, key, task)
      BY <1>d, <2>2, <3>2 DEF Met
    <3>4. \A j \in Indices : j < task + 1 => Met(tasks, key, j)
      BY <1>d, <2>2, <3>3
    <3> QED BY <1>d, <2>4, <3>4 DEF Passes
  <2> QED BY <1>3, <2>3, <2>4 DEF CompareStep
<1>4. CASE AcceptStep
  <2>1. \A j \in Indices : Met(tasks, key, j)
    BY <1>b, <1>d, <1>4 DEF AcceptStep, Passes
  <2> QED BY <1>4, <1>d, <2>1 DEF AcceptStep, Passes
<1> QED BY <1>2, <1>3, <1>4

LEMMA SpecPasses == Spec => []PassInv
<1>1. Init => PassInv
  BY DEF Init, PassInv, Analyses, NotWritten
<1>2. Inv /\ PassInv /\ [Next]_vars => PassInv'
  <2> SUFFICES ASSUME Inv, PassInv, [Next]_vars PROVE PassInv'
    OBVIOUS
  <2>a. Indices = 1 .. Len(tasks) /\ Len(tasks) \in Nat
    BY TasksFacts DEF Inv, TypeOK
  <2>b. ASSUME results' = results, tasks' = tasks
        PROVE  /\ (results["rm"] = 1 => \A j \in Indices : Met(tasks, "period", j))'
               /\ (results["dm"] = 1 => \A j \in Indices : Met(tasks, "deadline", j))'
    BY <2>b DEF PassInv, Indices
  <2>1. CASE EdfStep
    <3>1. results' = results /\ tasks' = tasks /\ running' = "edf"
      BY <2>1 DEF EdfStep, Edf!Next, Edf!Density, Edf!SumWcets, Edf!Length, Edf!Load, Edf!LoadEnds
    <3> QED BY <2>b, <3>1 DEF PassInv
  <2>2. CASE RmStep \/ DmStep
    BY <2>2, FixedSteps, FixedPasses
  <2>3. CASE WriteFile
    <3>1. /\ running' \in {"rm", "dm", "end"} /\ Indices' = Indices
          /\ running' \in {"rm", "dm"} => at' = "iterate" /\ task' = 1
      BY <2>3 DEF WriteFile, Inv, TypeOK, Stages, Analyses, Indices
    <3>2. \A j \in Indices : ~ (j < 1)
      BY <2>a
    <3>3. ASSUME NEW key, running' \in {"rm", "dm"} PROVE Passes(key)'
      BY <3>1, <3>2, <3>3 DEF Passes
    <3>4. /\ at = "returned" /\ results' = [results EXCEPT ![running] = is_schedulable]
          /\ tasks' = tasks /\ results \in [Analyses -> {0, 1, NotWritten}]
          /\ "rm" \in Analyses /\ "dm" \in Analyses
      BY <2>3 DEF WriteFile, Inv, TypeOK, Analyses
    <3>5. (results["rm"] = 1 => \A j \in Indices : Met(tasks, "period", j))'
      <4>1. CASE running = "rm"
        BY <3>1, <3>4, <4>1 DEF PassInv, Passes
      <4>2. CASE running # "rm"
        BY <3>1, <3>4, <4>2 DEF PassInv
      <4> QED BY <4>1, <4>2
    <3>6. (results["dm"] = 1 => \A j \in Indices : Met(tasks, "deadline", j))'
      <4>1. CASE running = "dm"
        BY <3>1, <3>4, <4>1 DEF PassInv, Passes
      <4>2. CASE running # "dm"
        BY <3>1, <3>4, <4>2 DEF PassInv
      <4> QED BY <4>1, <4>2
    <3> QED BY <3>3, <3>5, <3>6 DEF PassInv
  <2>4. CASE UNCHANGED vars
    <3>1. \A key \in {"period", "deadline"} : Passes(key) => Passes(key)'
      BY <2>4 DEF vars, fixedLocals, Passes, Indices
    <3> QED BY <2>b, <2>4, <3>1 DEF vars, PassInv
  <2> QED BY <2>1, <2>2, <2>3, <2>4 DEF Next
<1> QED BY <1>1, <1>2, SpecInv, PTL DEF Spec

-----------------------------------------------------------------------------
(* The verdicts and the schedule *)

\* What EDF analysis accepts meets its deadlines.
LEMMA FittingIsFeasible ==
    ASSUME TasksOK, Constrained, Fits, l = Edf!Infinity => Hyperperiod(tasks) <= MaxDouble
    PROVE  Feasible(tasks, "edf")
<1>1. TaskSet(tasks)
  BY ExactTasks
<1> DEFINE horizon == Hyperperiod(tasks)
<1>2. /\ horizon \in Nat /\ MaxDouble \in Nat
      /\ l = Edf!Infinity => horizon <= MaxDouble
  BY <1>1, HyperperiodFacts, MaxDoubleAssumption
<1> HIDE DEF horizon
<1>3. \A d \in 0 .. horizon : d \in Nat /\ (l = Edf!Infinity => d <= MaxDouble)
  BY <1>2
<1>4. \A d \in 0 .. horizon : ~ OverloadedAt(tasks, d)
  BY <1>3 DEF Fits
<1> QED BY <1>1, <1>4, FitsIsFeasible DEF horizon

\* If no double can hold the busy period, one can hold the hyperperiod: then the
\* deadlines that edf.c visits, all that are finite, include the first that an
\* overloaded set misses.
HyperperiodFits ==
    running = "edf" /\ l = Edf!Infinity => Hyperperiod(tasks) <= MaxDouble

\* For task sets of any size in whole numbers, rm.c and dm.c accept exactly those
\* that the schedule of their policy meets all deadlines of, whatever the
\* periods; and edf.c does, if the busy period was iterated to its end and,
\* should it be longer than a double can hold, the hyperperiod is not. What edf.c
\* refuses misses a deadline wherever the length was left.
THEOREM VerdictsAreExact == Spec => [](HyperperiodFits => VerdictsExact)
<1>1. Inv /\ ExactInv /\ AcceptInv => (HyperperiodFits => VerdictsExact)
  <2> SUFFICES ASSUME Inv, ExactInv, AcceptInv, HyperperiodFits,
                      whole, Constrained, at = "returned"
               PROVE  IF running = "edf" /\ ~ LengthIsExact
                      THEN is_schedulable = 0 => ~ Feasible(tasks, running)
                      ELSE is_schedulable = 1 <=> Feasible(tasks, running)
    BY DEF VerdictsExact
  <2>1. /\ TasksOK /\ TaskSet(tasks) /\ Indices = DOMAIN tasks
        /\ running \in {"edf", "rm", "dm"} /\ is_schedulable \in {0, 1}
    BY ExactTasks DEF Inv, TypeOK, Stages, Analyses
  <2>2. CASE running = "edf"
    <3>1. ASSUME LengthIsExact, is_schedulable = 1 PROVE Feasible(tasks, "edf")
      <4>1. Fits
        BY <2>2, <3>1 DEF AcceptInv, Accepts
      <4> QED BY <2>1, <2>2, <4>1, FittingIsFeasible DEF HyperperiodFits
    <3>2. ASSUME is_schedulable = 0 PROVE ~ Feasible(tasks, "edf")
      <4>1. Overloaded
        BY <2>2, <3>2 DEF ExactInv, Exact, Demands
      <4> QED BY <2>1, <4>1, FeasibleFits DEF Overloaded
    <3>3. LengthIsExact => (is_schedulable = 1 <=> Feasible(tasks, "edf"))
      BY <2>1, <3>1, <3>2
    <3> QED BY <2>2, <3>2, <3>3
  <2>3. CASE running = "rm"
    <3>1. is_schedulable = 1 <=> \A j \in Indices : Met(tasks, "period", j)
      BY <2>3 DEF ExactInv, Exact, Judges
    <3>2. Feasible(tasks, "rm") <=> \A j \in DOMAIN tasks : Met(tasks, "period", j)
      BY <2>1, FixedScheduleDecides DEF KeyOf
    <3> QED BY <2>1, <2>3, <3>1, <3>2
  <2>4. CASE running = "dm"
    <3>1. is_schedulable = 1 <=> \A j \in Indices : Met(tasks, "deadline", j)
      BY <2>4 DEF ExactInv, Exact, Judges
    <3>2. Feasible(tasks, "dm") <=> \A j \in DOMAIN tasks : Met(tasks, "deadline", j)
      BY <2>1, FixedScheduleDecides DEF KeyOf
    <3> QED BY <2>1, <2>4, <3>1, <3>2
  <2> QED BY <2>1, <2>2, <2>3, <2>4
<1> QED BY <1>1, SpecInv, SpecExact, SpecAccepts, PTL

\* What is accepted is safe, for sets of any size and times of any digits: rm.c
\* and dm.c, and edf.c where its busy period was iterated to its end, accept no
\* set that misses a deadline; and where the busy period was left short, what
\* edf.c accepts never has over 100/99 of the time there is to do. It excludes
\* densities that are not a number, and a hyperperiod longer than a double can
\* hold if the busy period is.
THEOREM WhatIsAcceptedIsSafe == Spec => [](HyperperiodFits => AcceptanceIsSafe)
<1>1. Inv /\ AcceptInv /\ PassInv => (HyperperiodFits => AcceptanceIsSafe)
  <2> SUFFICES ASSUME Inv, AcceptInv, PassInv, HyperperiodFits,
                      Constrained, at = "returned", is_schedulable = 1,
                      running = "edf" => ~ Edf!NotANumber
               PROVE  IF running = "edf" /\ l # new_l
                      THEN \A d \in 0 .. Hyperperiod(tasks) : 99 * WorkDue(tasks, d) <= 100 * d
                      ELSE Feasible(tasks, running)
    BY DEF AcceptanceIsSafe
  <2>1. /\ TasksOK /\ TaskSet(tasks) /\ Indices = DOMAIN tasks
        /\ running \in {"edf", "rm", "dm"}
    BY ExactTasks DEF Inv, TypeOK, Stages, Analyses
  <2>2. CASE running = "edf" /\ l = new_l
    <3>1. Fits
      BY <2>2 DEF AcceptInv, Accepts, LengthIsExact
    <3> QED BY <2>1, <2>2, <3>1, FittingIsFeasible DEF HyperperiodFits
  <2>3. CASE running = "edf" /\ l # new_l
    <3>1. NearlyFits
      BY <2>3 DEF AcceptInv, Accepts
    <3>2. Hyperperiod(tasks) \in Nat
      BY <2>1, HyperperiodFacts
    <3>3. \A d \in 0 .. Hyperperiod(tasks) : 99 * WorkDue(tasks, d) <= 100 * d
      <4>1. TAKE d \in 0 .. Hyperperiod(tasks)
      <4>2. d \in Nat /\ ~ HeavyAt(tasks, d)
        BY <3>1, <3>2 DEF NearlyFits
      <4> QED BY <2>1, <4>2, LightWorkDue
    <3> QED BY <2>3, <3>3
  <2>4. CASE running = "rm"
    <3>1. \A j \in DOMAIN tasks : Met(tasks, "period", j)
      BY <2>1, <2>4 DEF PassInv, Passes
    <3> QED BY <2>1, <2>4, <3>1, FixedScheduleDecides DEF KeyOf
  <2>5. CASE running = "dm"
    <3>1. \A j \in DOMAIN tasks : Met(tasks, "deadline", j)
      BY <2>1, <2>5 DEF PassInv, Passes
    <3> QED BY <2>1, <2>5, <3>1, FixedScheduleDecides DEF KeyOf
  <2> QED BY <2>1, <2>2, <2>3, <2>4, <2>5
<1> QED BY <1>1, SpecInv, SpecAccepts, SpecPasses, PTL

\* For task sets of any size whose deadlines are no longer than their periods,
\* what rm.c accepts deadline monotonic priorities schedule, and what rm.c or
\* dm.c accepts EDF schedules; and if all times are whole numbers, what rm.c
\* accepts dm.c accepts, and what that accepts edf.c accepts, wherever it leaves
\* its busy period. The verdicts of fractions are not so ordered, nor are those
\* of deadlines longer than periods.
THEOREM AnalysesAreOrdered == Spec => []DominanceOrder
<1>1. Inv /\ ExactInv /\ PassInv => DominanceOrder
  <2> SUFFICES ASSUME Inv, ExactInv, PassInv, Constrained, running = "end"
               PROVE  /\ Verdict("rm") => Feasible(tasks, "dm")
                      /\ Verdict("rm") \/ Verdict("dm") => Feasible(tasks, "edf")
                      /\ whole => /\ Verdict("rm") => Verdict("dm")
                                  /\ Verdict("dm") => Verdict("edf")
    BY DEF DominanceOrder
  <2>1. TasksOK /\ TaskSet(tasks) /\ Indices = DOMAIN tasks
    BY ExactTasks DEF Inv, TypeOK
  <2>2. results \in [Analyses -> {0, 1, NotWritten}]
    BY DEF Inv, TypeOK
  <2>3. ASSUME Verdict("rm") PROVE \A i \in DOMAIN tasks : Met(tasks, "deadline", i)
    <3>1. \A i \in DOMAIN tasks : Met(tasks, "period", i)
      BY <2>1, <2>3 DEF PassInv, Verdict
    <3> QED BY <2>1, <3>1, RateToDeadline
  <2>4. Verdict("dm") => \A i \in DOMAIN tasks : Met(tasks, "deadline", i)
    BY <2>1 DEF PassInv, Verdict
  <2>5. Verdict("rm") => Feasible(tasks, "dm")
    <3>1. SUFFICES ASSUME Verdict("rm") PROVE Feasible(tasks, "dm")
      OBVIOUS
    <3>2. Feasible(tasks, "dm") <=> \A j \in DOMAIN tasks : Met(tasks, "deadline", j)
      BY <2>1, FixedScheduleDecides DEF KeyOf
    <3> QED BY <2>3, <3>1, <3>2
  <2>6. Verdict("rm") \/ Verdict("dm") => \A d \in Nat : ~ OverloadedAt(tasks, d)
    BY <2>1, <2>3, <2>4, DeadlineToNoOverload
  <2>7. Verdict("rm") \/ Verdict("dm") => Feasible(tasks, "edf")
    <3>1. SUFFICES ASSUME Verdict("rm") \/ Verdict("dm") PROVE Feasible(tasks, "edf")
      OBVIOUS
    <3>2. \A d \in 0 .. Hyperperiod(tasks) : d \in Nat
      BY <2>1, HyperperiodFacts
    <3> QED BY <2>1, <2>6, <3>1, <3>2, FitsIsFeasible
  <2>8. ASSUME whole PROVE /\ Verdict("rm") => Verdict("dm")
                           /\ Verdict("dm") => Verdict("edf")
    <3>1. Verdicts
      BY <2>8 DEF ExactInv, Exact
    <3>2. Verdict("rm") => Verdict("dm")
      BY <2>1, <2>3, <3>1 DEF Verdicts, Verdict
    <3>3. Verdict("dm") => ~ Overloaded
      BY <2>6 DEF Overloaded
    <3>4. results["edf"] \in {0, 1}
      BY <2>2, <3>1 DEF Verdicts, Analyses
    <3> QED BY <3>1, <3>2, <3>3, <3>4 DEF Verdicts, Verdict
  <2> QED BY <2>5, <2>7, <2>8
<1> QED BY <1>1, SpecInv, SpecExact, SpecPasses, PTL
=============================================================================
