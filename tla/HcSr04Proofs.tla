---------------------------- MODULE HcSr04Proofs ----------------------------
(***************************************************************************)
(* What the sensor driver of HcSr04 guarantees for every number of rounds.  *)
(* NeverStuck holds whatever the echo pin does; FreshSample speaks of the   *)
(* fetches that no stray edge disturbs.                                     *)
(***************************************************************************)
EXTENDS HcSr04, TLAPS

(* The span the callback stores is always one of the readings. *)
LEMMA ElapsedReading ==
    ASSUME timestamp \in Readings, NEW j \in Rounds
    PROVE  Elapsed(j) \in Readings
<1>1. CASE timestamp.kind = "start"
  <2>1. PICK k \in Rounds : timestamp = Start(k)
    BY <1>1 DEF Readings, Zero, Default, Meaningless, Unset, Start, Span
  <2>2. Elapsed(j) = Span(k, j)
    BY <1>1, <2>1 DEF Elapsed, Start
  <2> QED BY <2>1, <2>2 DEF Readings
<1>2. CASE timestamp.kind # "start"
  BY <1>2 DEF Elapsed, Readings
<1> QED BY <1>1, <1>2

(* Every variable of the driver keeps its type. *)
THEOREM Typing == Spec => []TypeOK
<1>1. Init => TypeOK
  <2> SUFFICES ASSUME Init PROVE TypeOK
    OBVIOUS
  <2>1. stray \in BOOLEAN
    BY Zenon DEF Init
  <2> QED
    BY <2>1, MaxRoundsAssumption DEF Init, TypeOK, Labels, Readings, Rounds
<1>2. TypeOK /\ [Next]_vars => TypeOK'
  <2> SUFFICES ASSUME TypeOK, [Next]_vars PROVE TypeOK'
    OBVIOUS
  <2> USE DEF TypeOK, Labels
  <2>1. CASE FetchTake
    <3>1. stray' \in BOOLEAN
      BY <2>1, Zenon DEF FetchTake
    <3> QED
      BY <2>1, <3>1, MaxRoundsAssumption DEF FetchTake, NextRound, Rounds
  <2>2. CASE StampStart
    BY <2>2 DEF StampStart, Readings
  <2>3. CASE Trigger
    BY <2>3 DEF Trigger
  <2>4. CASE TakeAvailable
    BY <2>4 DEF TakeAvailable
  <2>5. CASE TakePend
    BY <2>5 DEF TakePend
  <2>6. CASE TimeoutStamp
    BY <2>6 DEF TimeoutStamp, Readings
  <2>7. CASE TimeoutDistance
    BY <2>7 DEF TimeoutDistance, Readings
  <2>8. CASE Give
    BY <2>8 DEF Give
  <2>9. CASE ChannelGet
    BY <2>9 DEF ChannelGet, Readings
  <2>10. CASE Timeout
    BY <2>10 DEF Timeout
  <2>11. CASE \E j \in echoes : Echo(j)
    <3>1. PICK j \in Rounds : Echo(j)
      BY <2>11
    <3>2. Elapsed(j) \in Readings
      BY ElapsedReading
    <3> QED BY <3>1, <3>2 DEF Echo
  <2>12. CASE UNCHANGED vars
    BY <2>12 DEF vars
  <2> QED
    BY <2>1, <2>2, <2>3, <2>4, <2>5, <2>6, <2>7, <2>8, <2>9, <2>10, <2>11,
       <2>12 DEF Next, Thread
<1> QED BY <1>1, <1>2, PTL DEF Spec

-----------------------------------------------------------------------------
(* NeverStuck is not inductive: the semaphore must also be free when the fetch
   has given it back and its result has not been read yet. *)
SemInv ==
    /\ pc \in {"idle", "fetched"} => data_sem = 1
    /\ pc = "wait" => data_sem = 0

(* Every fetch finds the semaphore free: edges only give it, and the callback
   that answers a pending fetch hands it to a thread that gives it back. *)
THEOREM NeverStuckHolds == Spec => []NeverStuck
<1>1. Init => SemInv
  BY DEF Init, SemInv
<1>2. SemInv /\ [Next]_vars => SemInv'
  <2> SUFFICES ASSUME SemInv, [Next]_vars PROVE SemInv'
    OBVIOUS
  <2> USE DEF SemInv
  <2>1. CASE FetchTake \/ StampStart \/ Trigger \/ TakeAvailable \/ TakePend
    BY <2>1 DEF FetchTake, StampStart, Trigger, TakeAvailable, TakePend
  <2>2. CASE Timeout \/ TimeoutStamp \/ TimeoutDistance \/ Give \/ ChannelGet
    BY <2>2 DEF Timeout, TimeoutStamp, TimeoutDistance, Give, ChannelGet
  <2>3. CASE \E j \in echoes : Echo(j)
    BY <2>3 DEF Echo
  <2>4. CASE UNCHANGED vars
    BY <2>4 DEF vars
  <2> QED BY <2>1, <2>2, <2>3, <2>4 DEF Next, Thread
<1>3. SemInv => NeverStuck
  BY DEF SemInv, NeverStuck
<1> QED BY <1>1, <1>2, <1>3, PTL DEF Spec

-----------------------------------------------------------------------------
Measured == timestamp = Span(round, round) /\ distance = Span(round, round)
NoEcho == timestamp = Zero /\ distance = Default

(* As long as no stray edge arrives: the semaphore is free at the second take
   only when this round's measurement is in the device. *)
RoundInv ==
    /\ pc \in {"stamp", "trigger", "wait"} => data_sem = 0
    /\ pc \in {"trigger", "wait"} => timestamp = Start(round)
    /\ pc = "take" => \/ data_sem = 0 /\ timestamp = Start(round)
                      \/ data_sem = 1 /\ Measured /\ round \notin echoes
    /\ pc = "default" => timestamp = Zero
    /\ pc \in {"give", "fetched"} => Measured \/ NoEcho

(* A fetch that no stray edge disturbs returns this round's measurement or the
   default. *)
THEOREM FreshSampleHolds == Spec => []FreshSample
<1> DEFINE Inv == ~stray => RoundInv
<1>1. Init => Inv
  BY DEF Init, RoundInv
<1>2. TypeOK /\ Inv /\ [Next]_vars => Inv'
  <2> SUFFICES ASSUME TypeOK, Inv, [Next]_vars PROVE Inv'
    OBVIOUS
  <2> USE DEF RoundInv, Measured, NoEcho
  <2>1. CASE FetchTake
    BY <2>1 DEF FetchTake
  <2>2. CASE StampStart
    BY <2>2 DEF StampStart
  <2>3. CASE Trigger
    BY <2>3 DEF Trigger
  <2>4. CASE TakeAvailable
    BY <2>4 DEF TakeAvailable
  <2>5. CASE TakePend
    BY <2>5 DEF TakePend
  <2>6. CASE Timeout \/ TimeoutStamp \/ TimeoutDistance
    BY <2>6 DEF Timeout, TimeoutStamp, TimeoutDistance
  <2>7. CASE Give
    BY <2>7 DEF Give
  <2>8. CASE ChannelGet
    BY <2>8 DEF ChannelGet
  <2>9. ASSUME NEW j \in echoes, Echo(j) PROVE Inv'
    <3> SUFFICES ASSUME ~stray' PROVE RoundInv'
      OBVIOUS
    <3>1. ~stray /\ j = round /\ pc \in {"take", "wait"}
      BY <2>9 DEF Echo, Awaited
    <3>2. timestamp = Start(round) /\ (pc = "take" => data_sem = 0)
      BY <3>1
    <3>3. Elapsed(j) = Span(round, round)
      BY <3>1, <3>2 DEF Elapsed, Start
    <3>4. round' \notin echoes' /\ Measured'
      BY <2>9, <3>1, <3>3 DEF Echo
    <3> QED BY <2>9, <3>1, <3>4 DEF Echo
  <2>10. CASE UNCHANGED vars
    BY <2>10 DEF vars
  <2> QED
    BY <2>1, <2>2, <2>3, <2>4, <2>5, <2>6, <2>7, <2>8, <2>9, <2>10
    DEF Next, Thread
<1>3. Inv => FreshSample
  BY DEF RoundInv, FreshSample, Measured, NoEcho
<1> QED BY <1>1, <1>2, <1>3, Typing, PTL DEF Spec
=============================================================================
