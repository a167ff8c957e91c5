--------------------------- MODULE MeasureProgram ---------------------------
(***************************************************************************)
(* What surrounds tests 1 and 2 in main of assignment 3: the two threads    *)
(* that keep the processor busy during the second phase, and the results,   *)
(* which estimate how much later the interrupts of that phase were served   *)
(* than those of the reference.                                             *)
(*                                                                          *)
(* Where InterruptTest keeps what kind of number a cell holds, the results  *)
(* need the numbers. They are chosen when the results are computed, as the  *)
(* clock would have read: edges one PWM period apart, each served a latency *)
(* later. The loops of the results read through current_buffer.buffer; the  *)
(* pointer is set before each of them and nothing else reads it any more,   *)
(* so it is left alone here.                                                *)
(***************************************************************************)
EXTENDS InterruptTest, Integers, FiniteSetsExt

CONSTANTS
    WordSize,       \* values of a u64_t: 2^64 in the code
    IntSize,        \* values of an int: 2^32 in the code
    Clocks,         \* the edges' period and the first one's time, as pairs
    Latencies       \* how long an interrupt may take

ASSUME WidthsAssumption ==
    /\ IntSize \in Nat \ {0} /\ WordSize \in Nat \ {0}
    /\ WordSize % IntSize = 0

VARIABLES
    sem,        \* counts of threadA_sem and threadB_sem, whose limits are 1
    doing,      \* where each passer_thread is
    readings,   \* what the cells and the latencies were
    report      \* the three numbers printed

programVars == <<vars, sem, doing, readings, report>>

Passers == {"A", "B"}
Other(p) == CHOOSE q \in Passers : q # p

NoReport == <<>>

ProgramInit ==
    /\ Init
    /\ sem = [p \in Passers |-> IF p = "A" THEN 1 ELSE 0]
    /\ doing = [p \in Passers |-> "none"]
    /\ readings = NoReport
    /\ report = NoReport

-----------------------------------------------------------------------------
(* The threads in the background *)

\* The threads exist from the clearing of the buffers to the end of the second
\* phase, when main aborts them wherever they are.
Lifetime ==
    doing' = IF at = "clear" /\ at' = "index" THEN [p \in Passers |-> "take"]
             ELSE IF phase = 2 /\ phase' = 3 THEN [p \in Passers |-> "none"]
             ELSE doing

TestStep == Next /\ Lifetime /\ UNCHANGED <<sem, readings, report>>

\* They are of lower priority than main and run while it sleeps between two
\* looks at done_mut.
MainSleeps == phase = 2 /\ at = "wait"

\* Mutation: the semaphore is not taken.
TakeUnchecked(p) ==
    /\ MainSleeps
    /\ doing[p] = "take"
    /\ doing' = [doing EXCEPT ![p] = "busy"]
    /\ UNCHANGED <<vars, sem, readings, report>>

\* k_sem_take(my_sem, K_FOREVER)
TakeMine(p) ==
    /\ MainSleeps
    /\ doing[p] = "take"
    /\ \/ sem[p] = 1 /\ sem' = [sem EXCEPT ![p] = 0]
                     /\ doing' = [doing EXCEPT ![p] = "busy"]
       \/ sem[p] = 0 /\ doing' = [doing EXCEPT ![p] = "waiting"]
                     /\ UNCHANGED sem
    /\ UNCHANGED <<vars, readings, report>>

\* k_sem_give(other_sem): to the other thread if it waits.
GiveOther(p) ==
    LET q == Other(p)
    IN  /\ MainSleeps
        /\ doing[p] = "busy"
        /\ \/ /\ doing[q] = "waiting"
              /\ doing' = [doing EXCEPT ![p] = "take", ![q] = "busy"]
              /\ UNCHANGED sem
           \/ /\ doing[q] # "waiting"
              /\ doing' = [doing EXCEPT ![p] = "take"]
              /\ sem' = [sem EXCEPT ![q] = 1]
        /\ UNCHANGED <<vars, readings, report>>

-----------------------------------------------------------------------------
(* The results: u64_t values are taken modulo WordSize, and assigned to an int *)
(* cut to its width. A sum of ints and u64_ts cut at every step is the sum cut *)
(* once, as IntSize divides WordSize.                                          *)

U64(x) == x % WordSize

ToInt(x) == LET low == x % IntSize IN IF 2 * low < IntSize THEN low ELSE low - IntSize

\* The division of ints, towards 0.
Quotient(a, n) == IF a >= 0 THEN a \div n ELSE -((-a) \div n)

Magnitude(x) == IF x >= 0 THEN x ELSE -x

Total(f) == MapThenSumSet(LAMBDA i : f[i], DOMAIN f)

Average(f) == Quotient(ToInt(Total(f)), BufferSize)

\* Mutation: the number of readings in place of that of the gaps between them.
PeriodOfAll(reference) ==
    Quotient(ToInt(Total([i \in Slots \ {0} |-> U64(reference[i] - reference[i - 1])])), BufferSize)

\* pwm_period_reference
PwmPeriod(reference) ==
    Quotient(ToInt(Total([i \in Slots \ {0} |-> U64(reference[i] - reference[i - 1])])),
             BufferSize - 1)

\* pwm_start_reference
PwmStart(reference, noBackground) ==
    ToInt(U64((reference[0] % U64(PwmPeriod(reference))) - noBackground))

\* ((time % pwm_period_reference) - pwm_start_reference) % pwm_period_reference,
\* in u64_t: a difference below 0 has WordSize added before the last %.
Delay(time, period, start) == U64((time % U64(period)) - start) % U64(period)

\* The delays of all the readings of a buffer, relative to the estimated start.
Delays(buf, r) ==
    LET period == PwmPeriod(r.reference)
        start  == PwmStart(r.reference, Average(r.gpio))
    IN  [i \in Slots |-> ToInt(Delay(r[buf][i], period, start))]

Results ==
    /\ at = "run" /\ report = NoReport
    /\ \E clock \in Clocks, gpio \in Latencies, switch \in Latencies,
          late, lateReference \in [Slots -> Latencies] :
          readings' = [clock |-> clock, late |-> late, lateReference |-> lateReference,
                       gpio |-> [i \in Slots |-> gpio], switch |-> [i \in Slots |-> switch],
                       background |-> [i \in Slots |-> clock[2] + i * clock[1] + late[i]],
                       reference  |-> [i \in Slots |-> clock[2] + (BufferSize + i) * clock[1]
                                                         + lateReference[i]]]
    /\ report' = LET r == readings'
                 IN  <<Average(r.gpio),
                       Magnitude(Average(Delays("background", r)) - Average(Delays("reference", r))),
                       Average(r.switch)>>
    /\ UNCHANGED <<vars, sem, doing>>

\* What the prompt prints for reading i of test 2.
PromptTwo(i) ==
    Magnitude(Delays("background", readings)[i] - Delays("reference", readings)[i])

-----------------------------------------------------------------------------
ProgramNext ==
    \/ TestStep
    \/ \E p \in Passers : TakeMine(p) \/ GiveOther(p)
    \/ Results

Program == ProgramInit /\ [][ProgramNext]_programVars

\* The fairness of InterruptTest; none for the background.
FairProgram == Program /\ WF_vars(Main) /\ WF_vars(SigGot)

-----------------------------------------------------------------------------
(* Properties *)

Busy == {p \in Passers : doing[p] = "busy"}

\* While main sleeps in the second phase there is one turn: a passer is in it,
\* or the semaphore of one is available and no thread waits for that one. So
\* the two are never busy together and never both wait, and the background
\* that the phase measures does not die away.
OneTurn ==
    MainSleeps =>
        \/ sem["A"] + sem["B"] = 0 /\ \E p \in Passers : Busy = {p}
        \/ Busy = {} /\ \E p \in Passers :
              sem[p] = 1 /\ sem[Other(p)] = 0 /\ doing[p] = "take"

\* The clock is kind: the reference's latencies put the estimated period right,
\* no reading falls in its period before the estimated start, and none past
\* the end of the period that the edges before it are in.
KindClock(r) ==
    LET period == r.clock[1]
        phase0 == r.clock[2] % period
        first  == r.lateReference[0]
        all    == {r.late[i] : i \in Slots} \cup {r.lateReference[i] : i \in Slots}
    IN  /\ r.lateReference[BufferSize - 1] - first \in 0 .. BufferSize - 2
        /\ \A x \in all : /\ x >= first - r.gpio[0]
                          /\ x - first + r.gpio[0] < period
                          /\ phase0 + x < period

\* Test 2 shows the effect of the background (main.c:317): the differences the
\* prompt prints are those of the latencies, and the difference of averages is
\* the average difference up to the rounding of the averages, whatever multiple
\* of the period the readings are and whatever the start is estimated to be.
EffectIsSeen ==
    report # NoReport /\ KindClock(readings) =>
        LET effect == Total(readings.late) - Total(readings.lateReference)
        IN  /\ \A i \in Slots :
                  PromptTwo(i) = Magnitude(readings.late[i] - readings.lateReference[i])
            /\ Magnitude(BufferSize * report[2] - Magnitude(effect)) < BufferSize
=============================================================================
