------------------------------- MODULE HcSr04 -------------------------------
(***************************************************************************)
(* The HC-SR04 ultrasonic sensor driver of assignment 4                     *)
(* (drivers/sensor/hc_sr04/hc_sr04.c): one device, the one radar thread     *)
(* that calls sensor_sample_fetch and sensor_channel_get on it in a loop,   *)
(* and the gpio callback that runs, in an interrupt, on every rising edge   *)
(* of the echo pin.                                                         *)
(*                                                                          *)
(* Clock readings are abstracted to where they were taken: the value a      *)
(* field holds is the start of round k, the span between the start of       *)
(* round k and the echo of round j, a default, or the meaningless           *)
(* difference of a clock reading and something that is not one.             *)
(***************************************************************************)
EXTENDS Naturals

CONSTANT
    MaxRounds     \* bound: rounds are numbered 1 .. MaxRounds, over and over

ASSUME MaxRoundsAssumption == MaxRounds \in Nat \ {0}

VARIABLES
    pc,          \* where the radar thread is in the driver
    round,       \* the number of the last sample that was begun
    data_sem,    \* count of drv_data->data_sem, whose limit is 1
    timestamp,   \* drv_data->timestamp
    distance,    \* drv_data->distance
    echoes,      \* rounds triggered whose echo has not arrived
    stray,       \* history: since this fetch began, an edge arrived that is not
                 \* the echo it waits for, while it waits for it
    value        \* what the last channel_get left in the caller's sensor_value

vars == <<pc, round, data_sem, timestamp, distance, echoes, stray, value>>

Rounds == 1 .. MaxRounds

\* A number is used again once its echo can no longer arrive.
NextRound == IF round = MaxRounds THEN 1 ELSE round + 1

Zero == [kind |-> "zero"]
Default == [kind |-> "400"]
Meaningless == [kind |-> "meaningless"]
Unset == [kind |-> "unset"]
Start(k) == [kind |-> "start", of |-> k]
Span(k, j) == [kind |-> "span", of |-> k, upto |-> j]

Readings ==
    {Zero, Default, Meaningless, Unset}
        \cup {Start(k) : k \in Rounds}
        \cup {Span(k, j) : k \in Rounds, j \in Rounds}

Labels == {"idle", "stamp", "trigger", "take", "wait", "timeout", "default",
           "give", "fetched"}

\* drv_data is static, so zeroed; hc_sr04_x_init gives the semaphore count 1.
Init ==
    /\ pc = "idle"
    /\ round = MaxRounds
    /\ data_sem = 1
    /\ timestamp = Zero
    /\ distance = Zero
    /\ echoes = {}
    /\ stray = FALSE
    /\ value = [val1 |-> Unset, val2 |-> Unset]

-----------------------------------------------------------------------------
(* hc_sr04_sample_fetch, one action per shared access *)

\* k_sem_take(&data_sem, K_FOREVER): the thread stays here while the count is 0.
FetchTake ==
    /\ pc = "idle"
    /\ NextRound \notin echoes
    /\ data_sem = 1
    /\ data_sem' = 0
    /\ round' = NextRound
    /\ pc' = "stamp"
    /\ stray' = FALSE
    /\ UNCHANGED <<timestamp, distance, echoes, value>>

\* Mutation: the trigger pulse goes out and the start is never stamped.
StampForgotten ==
    /\ pc = "stamp"
    /\ pc' = "trigger"
    /\ UNCHANGED <<round, data_sem, timestamp, distance, echoes, value, stray>>

StampStart ==
    /\ pc = "stamp"
    /\ timestamp' = Start(round)
    /\ pc' = "trigger"
    /\ UNCHANGED <<round, data_sem, distance, echoes, value, stray>>

\* The trigger pulse: the sensor will answer, or it will not.
Trigger ==
    /\ pc = "trigger"
    /\ pc' = "take"
    /\ \/ echoes' = echoes \cup {round}
       \/ UNCHANGED echoes
    /\ UNCHANGED <<round, data_sem, timestamp, distance, value, stray>>

\* The second k_sem_take finds the semaphore given already ...
TakeAvailable ==
    /\ pc = "take"
    /\ data_sem = 1
    /\ data_sem' = 0
    /\ pc' = "give"
    /\ UNCHANGED <<round, timestamp, distance, echoes, value, stray>>

\* ... or pends on it for at most 30 ms.
TakePend ==
    /\ pc = "take"
    /\ data_sem = 0
    /\ pc' = "wait"
    /\ UNCHANGED <<round, data_sem, timestamp, distance, echoes, value, stray>>

\* Mutation: the second take waits forever.
NoTimeout ==
    /\ pc = "wait"
    /\ data_sem = 1
    /\ pc' = "timeout"
    /\ UNCHANGED <<round, data_sem, timestamp, distance, echoes, value, stray>>

\* -EAGAIN; the echo may still come, during this fetch or a later one.
Timeout ==
    /\ pc = "wait"
    /\ pc' = "timeout"
    /\ UNCHANGED <<round, data_sem, timestamp, distance, echoes, value, stray>>

TimeoutStamp ==
    /\ pc = "timeout"
    /\ timestamp' = Zero
    /\ pc' = "default"
    /\ UNCHANGED <<round, data_sem, distance, echoes, value, stray>>

\* Mutation: a fetch that timed out returns at once.
TimeoutReturns ==
    /\ pc = "default"
    /\ distance' = Default
    /\ pc' = "fetched"
    /\ UNCHANGED <<round, data_sem, timestamp, echoes, value, stray>>

TimeoutDistance ==
    /\ pc = "default"
    /\ distance' = Default
    /\ pc' = "give"
    /\ UNCHANGED <<round, data_sem, timestamp, echoes, value, stray>>

\* Mutation: the semaphore is initialised without its limit.
GiveUnlimited ==
    /\ pc = "give"
    /\ data_sem' = data_sem + 1
    /\ pc' = "fetched"
    /\ UNCHANGED <<round, timestamp, distance, echoes, value, stray>>

\* Nobody else waits on the semaphore: the count is incremented up to its limit.
Give ==
    /\ pc = "give"
    /\ data_sem' = 1
    /\ pc' = "fetched"
    /\ UNCHANGED <<round, timestamp, distance, echoes, value, stray>>

\* hc_sr04_channel_get assigns val1 twice and never val2, a local of radar_read
\* that nobody initialised: it may hold anything, so also what it should hold.
ChannelGet ==
    /\ pc = "fetched"
    /\ \E junk \in {Unset, distance} :
           value' = [val1 |-> distance, val2 |-> junk]
    /\ pc' = "idle"
    /\ UNCHANGED <<round, data_sem, timestamp, distance, echoes, stray>>

-----------------------------------------------------------------------------
(* hc_sr04_gpio_callback *)

\* now - timestamp, when the edge belongs to round j.
Elapsed(j) ==
    IF timestamp.kind = "start" THEN Span(timestamp.of, j) ELSE Meaningless

\* The fetch is at its second take, and this is the echo of its own pulse.
Awaited(j) == j = round /\ pc \in {"take", "wait"}

\* k_sem_give hands the semaphore to the pending thread, if there is one.
Echo(j) ==
    /\ j \in echoes
    /\ echoes' = echoes \ {j}
    /\ stray' = (stray \/ ~Awaited(j))
    /\ timestamp' = Elapsed(j)
    /\ distance' = Elapsed(j)
    /\ IF pc = "wait"
         THEN pc' = "give" /\ UNCHANGED data_sem
         ELSE data_sem' = 1 /\ UNCHANGED pc
    /\ UNCHANGED <<round, value>>

-----------------------------------------------------------------------------
Thread ==
    \/ FetchTake \/ StampStart \/ Trigger \/ TakeAvailable \/ TakePend
    \/ TimeoutStamp \/ TimeoutDistance \/ Give \/ ChannelGet

Next == Thread \/ Timeout \/ \E j \in echoes : Echo(j)

Spec == Init /\ [][Next]_vars

\* The thread runs when it is ready, and the kernel's 30 ms timeout expires. No
\* fairness for Echo: the sensor may never answer.
FairSpec == Spec /\ WF_vars(Thread) /\ WF_vars(Timeout)

-----------------------------------------------------------------------------
(* Properties *)

\* Every variable stays in its type.
TypeOK ==
    /\ pc \in Labels
    /\ round \in Rounds
    /\ data_sem \in {0, 1}
    /\ timestamp \in Readings
    /\ distance \in Readings
    /\ echoes \subseteq Rounds
    /\ stray \in BOOLEAN
    /\ value \in [val1 : Readings, val2 : Readings]

\* A fetch begins with the semaphore free, however many edges came before,
\* between or after the takes of the earlier fetches: the first k_sem_take of
\* hc_sr04_sample_fetch, which waits forever, never waits.
NeverStuck == pc = "idle" => data_sem = 1

\* A fetch during which no stray edge arrived leaves this round's measurement
\* in the device, or the out-of-range default: never a reading built from
\* another round's start or echo, however many late edges earlier fetches saw.
FreshSample ==
    pc = "fetched" /\ ~stray =>
        \/ timestamp = Span(round, round) /\ distance = Span(round, round)
        \/ timestamp = Zero /\ distance = Default

\* A fetch that began ends: the 30 ms time-out covers the sensor that is silent.
FetchEnds == (pc # "idle") ~> (pc = "idle")
=============================================================================
