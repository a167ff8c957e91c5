------------------------ MODULE ContextSwitchProofs ------------------------
(***************************************************************************)
(* Test 3 for a buffer of any size: what the 10 ms sleep of the higher      *)
(* thread buys, as long as they are enough for the lower one.               *)
(***************************************************************************)
EXTENDS ContextSwitch, TLAPS

\* Where one thread can be while the other is where it is.
Meeting ==
    /\ higher = "sleep" => lower \in {"test", "lock", "take", "waitTake"}
    /\ higher = "give" => lower = "waitTake"
    /\ higher = "lock" => lower = "stamp"
    /\ higher = "wait" => lower \in {"stamp", "unlock"}
    /\ higher \in {"test", "diff", "advance", "count", "unlock"} => lower = "test"
    /\ higher = "end" => lower \in {"test", "end"}

\* Who has the mutex; the semaphore's count is used up as soon as it is given.
Owning ==
    /\ owner = "higher" <=> higher \in {"diff", "advance", "count", "unlock"}
    /\ owner = "lower" <=> lower \in {"take", "waitTake", "stamp", "unlock"}
    /\ thread_ready = 0

\* How far the buffer is: whatever the lower thread does.
Filling ==
    /\ higher \in {"sleep", "give", "lock", "wait", "diff", "advance", "count"} =>
           buffer_index < BufferSize
    /\ higher = "end" => buffer_index = BufferSize
    /\ cursor = IF higher = "count" THEN buffer_index + 1 ELSE buffer_index

\* What the cell the round is about holds.
Stamping ==
    /\ \/ higher = "wait" /\ lower = "unlock"
       \/ higher = "diff"
       => cells[cursor] = "stamp"
    /\ higher \in {"advance", "count"} => cells[buffer_index] = "diff"

Counted == \A i \in Cells : i < buffer_index => cells[i] = "diff"

PromptInv == Meeting /\ Owning /\ Stamping /\ Counted

\* What holds while the lower thread is prompt; prompt never becomes TRUE again.
Inv == TypeOK /\ Filling /\ (prompt => PromptInv)

LEMMA InitInv == Init => Inv
  BY BufferSizeAssumption
     DEF Init, Inv, TypeOK, Meeting, Owning, Filling, Stamping, Counted,
         PromptInv, HigherLabels, LowerLabels, Kinds, Cells

LEMMA HigherInv == Inv /\ Higher => Inv'
<1> SUFFICES ASSUME Inv, Higher PROVE Inv'
  OBVIOUS
<1> USE BufferSizeAssumption
    DEF Inv, TypeOK, Meeting, Owning, Filling, Stamping, Counted,
        PromptInv, HigherLabels, LowerLabels, Kinds, Cells, HigherStep
<1>1. CASE HigherTest
  BY <1>1 DEF HigherTest
<1>2. CASE HigherWake
  BY <1>2 DEF HigherWake
<1>3. CASE HigherGive
  BY <1>3 DEF HigherGive
<1>4. CASE HigherLock
  BY <1>4 DEF HigherLock
<1>5. CASE HigherDiff
  BY <1>5 DEF HigherDiff
<1>6. CASE HigherAdvance
  BY <1>6 DEF HigherAdvance
<1>7. CASE HigherCount
  BY <1>7 DEF HigherCount
<1>8. CASE HigherUnlock
  BY <1>8 DEF HigherUnlock
<1> QED
  BY <1>1, <1>2, <1>3, <1>4, <1>5, <1>6, <1>7, <1>8 DEF Higher

LEMMA LowerInv == Inv /\ Lower => Inv'
<1> SUFFICES ASSUME Inv, Lower PROVE Inv'
  OBVIOUS
<1> USE BufferSizeAssumption
    DEF Inv, TypeOK, Meeting, Owning, Filling, Stamping, Counted,
        PromptInv, HigherLabels, LowerLabels, Kinds, Cells, LowerStep
<1>1. CASE LowerTest
  BY <1>1 DEF LowerTest
<1>2. CASE LowerLock
  BY <1>2 DEF LowerLock
<1>3. CASE LowerTake
  BY <1>3 DEF LowerTake
<1>4. CASE LowerStamp
  BY <1>4 DEF LowerStamp
<1>5. CASE LowerUnlock
  BY <1>5 DEF LowerUnlock
<1> QED
  BY <1>1, <1>2, <1>3, <1>4, <1>5 DEF Lower

LEMMA NextInv == Inv /\ [Next]_vars => Inv'
<1> SUFFICES ASSUME Inv, [Next]_vars PROVE Inv'
  OBVIOUS
<1>1. CASE MainAbort
  BY <1>1 DEF MainAbort, Inv, PromptInv, TypeOK, Meeting, Owning, Filling, Stamping, Counted
<1>2. CASE UNCHANGED vars
  BY <1>2 DEF vars, Inv, PromptInv, TypeOK, Meeting, Owning, Filling, Stamping, Counted
<1> QED
  BY <1>1, <1>2, HigherInv, LowerInv DEF Next

\* Every variable stays in its type, prompt or not: no cell past the one after
\* the end is ever reached.
THEOREM Typing ==
    Spec => []TypeOK
<1>1. Inv => TypeOK
  BY DEF Inv
<1> QED
  BY <1>1, InitInv, NextInv, PTL DEF Spec

\* Whatever the size of the buffer, a counted cell holds the difference of the
\* time that was stored in it.
THEOREM CountedCells ==
    Spec => []CountedCellsAreDifferences
<1>1. Inv => CountedCellsAreDifferences
  BY DEF Inv, PromptInv, Counted, CountedCellsAreDifferences
<1> QED
  BY <1>1, InitInv, NextInv, PTL DEF Spec

\* Neither thread stores past the end of the buffer, although one of them tests
\* the index long before it stores.
THEOREM StoresAreInside ==
    Spec => []StoresStayInside
<1>1. Inv => StoresStayInside
  BY DEF Inv, PromptInv, TypeOK, HigherLabels, Meeting, Filling, StoresStayInside
<1> QED
  BY <1>1, InitInv, NextInv, PTL DEF Spec

\* Every difference is taken in the round its time was stored in, right after the
\* unlock that handed the mutex over.
THEOREM OneSwitchMeasured ==
    Spec => DiffMeasuresOneSwitch
<1>1. Inv /\ [Next]_vars =>
          [prompt /\ higher = "diff" /\ higher' = "advance" =>
               lower = "test" /\ cells[cursor] = "stamp"]_vars
  BY DEF Inv, PromptInv, Meeting, Stamping
<1> QED
  BY <1>1, InitInv, NextInv, PTL DEF Spec, DiffMeasuresOneSwitch
=============================================================================
