---------------------------- MODULE EdfAnalysis ----------------------------
(***************************************************************************)
(* edf_analysis (assignment2/edf/edf.c): a density test, the length of the *)
(* busy period found by iteration, and the demand at each deadline in it.  *)
(* One action is one test or one turn of a loop.                           *)
(***************************************************************************)
EXTENDS TaskTypes

CONSTANT MaxDouble      \* the largest double: what exceeds it is infinite

VARIABLES at,               \* what the call does next
          is_schedulable,   \* results.is_schedulable
          l, new_l, time_stamps, h

locals == <<l, new_l, time_stamps, h>>

Infinity == MaxDouble + 1

ToDouble(x) == IF x > MaxDouble THEN Infinity ELSE x

\* Mutation: the density is the utilization.
WindowIsPeriod(i) == tasks[i].period

\* fmin(t->period, t->deadline)
Window(i) == IF tasks[i].deadline < tasks[i].period THEN tasks[i].deadline ELSE tasks[i].period

\* 0 / 0 makes the density not a number.
NotANumber == \E i \in Indices : tasks[i].wcet = 0 /\ Window(i) = 0

InfiniteDensity == \E i \in Indices : tasks[i].wcet > 0 /\ Window(i) = 0

\* The windows' product, and the density times it.
Scale == FoldSet(LAMBDA i, product : Window(i) * product, 1, Indices)
ScaledDensity == MapThenSumSet(LAMBDA i : tasks[i].wcet * (Scale \div Window(i)), Indices)

\* The outcomes of density > 1.0.
DensityAboveOne ==
    IF NotANumber THEN {FALSE}
    ELSE IF InfiniteDensity THEN {TRUE}
    ELSE Above(ScaledDensity, Scale)

Return(verdict) ==
    /\ at' = "returned"
    /\ is_schedulable' = verdict

Begin ==
    /\ at = "density"
    /\ is_schedulable = 0
    /\ l = 0 /\ new_l = 0 /\ time_stamps = <<>> /\ h = 0

\* A density of at most 1 is enough.
Density ==
    /\ at = "density"
    /\ FALSE \in DensityAboveOne
    /\ Return(1)
    /\ UNCHANGED <<tasks, whole, locals>>

\* l = the sum of all wcets; new_l = l
SumWcets ==
    /\ at = "density"
    /\ TRUE \in DensityAboveOne
    /\ new_l' = ToDouble(MapThenSumSet(LAMBDA i : tasks[i].wcet, Indices))
    /\ l' = new_l'
    /\ at' = "length"
    /\ UNCHANGED <<tasks, whole, is_schedulable, time_stamps, h>>

(***************************************************************************)
(* One turn of do ... while (l > new_l * 1.01 || l < new_l * 0.99).  Once  *)
(* new_l is infinite it stays so, or is not a number if a task has no wcet *)
(* (infinity times 0): both comparisons are false then.                    *)
(***************************************************************************)
NextLengths ==
    IF new_l = Infinity THEN {Infinity}
    ELSE {ToDouble(Demand(Indices, new_l, up)) : up \in RoundedUp(new_l)}

\* Mutation: the iteration ends although the length still grows.
OnlyWhileShrinking(old, new) == Above(100 * old, 101 * new)

AnotherTurn(old, new) ==
    IF new = Infinity THEN {old # Infinity}
    ELSE {above \/ below : above \in Above(100 * old, 101 * new),
                           below \in Above(99 * new, 100 * old)}

Length ==
    /\ at = "length"
    /\ l' = new_l
    /\ new_l' \in NextLengths
    /\ \E again \in AnotherTurn(new_l, new_l') :
          IF again
          THEN UNCHANGED <<at, time_stamps>>
          ELSE /\ at' = "load"
               /\ time_stamps' = [i \in Indices |-> tasks[i].deadline]
    /\ UNCHANGED <<tasks, whole, is_schedulable, h>>

\* for_some_index_less_than_or_equal(time_stamps, num_tasks, l)
SomeIndexLessThanOrEqual == \E i \in Indices : time_stamps[i] <= l

\* smallest_index(time_stamps, num_tasks): the first of the smallest; which
\* one that is of equal stamps depends on their digits unless they are exact.
SmallestIndex ==
    LET smallest == {i \in Indices : \A j \in Indices : time_stamps[i] <= time_stamps[j]}
    IN  IF whole THEN {Min(smallest)} ELSE smallest

\* Mutation: the deadline stays where it is.
SameTimeStamp(index) == time_stamps

NextTimeStamp(index) == [time_stamps EXCEPT ![index] = @ + tasks[index].period]

\* One turn of the while loop: the next deadline, and the demand up to it.
Load ==
    /\ at = "load"
    /\ SomeIndexLessThanOrEqual
    /\ \E index \in SmallestIndex :
          /\ h' = h + tasks[index].wcet
          /\ \E above \in Above(h', time_stamps[index]) :
                IF above
                THEN Return(0) /\ UNCHANGED time_stamps
                ELSE /\ time_stamps' = NextTimeStamp(index)
                     /\ UNCHANGED <<at, is_schedulable>>
    /\ UNCHANGED <<tasks, whole, l, new_l>>

\* No deadline is left in the busy period.
LoadEnds ==
    /\ at = "load"
    /\ \/ ~SomeIndexLessThanOrEqual
       \/ ~whole /\ \A i \in Indices : time_stamps[i] >= l
    /\ Return(1)
    /\ UNCHANGED <<tasks, whole, locals>>

Next == Density \/ SumWcets \/ Length \/ Load \/ LoadEnds

LocalsOK ==
    /\ l \in 0 .. Infinity /\ new_l \in 0 .. Infinity
    /\ time_stamps \in {<<>>} \cup [Indices -> Nat]
    /\ h \in Nat
=============================================================================
