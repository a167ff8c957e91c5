---------------------------- MODULE ContextSwitch ----------------------------
(***************************************************************************)
(* Test 3 of assignment 3 (measure_18/src/main.c): how long a context       *)
(* switch takes. A thread of lower priority stores the time in a cell and   *)
(* unlocks the mutex, which hands it to the higher-priority thread; that    *)
(* one replaces the time by the time elapsed. main polls until the buffer   *)
(* is full and then kills both.                                             *)
(*                                                                          *)
(* One processor: a thread takes a step only when no thread of higher       *)
(* priority is ready. Of a cell the model keeps what kind of number it      *)
(* holds.                                                                   *)
(***************************************************************************)
EXTENDS Naturals

CONSTANT
    BufferSize       \* BUFFER_SIZE: 500 in the code

ASSUME BufferSizeAssumption == BufferSize \in Nat \ {0}

VARIABLES
    higher,          \* where context_switch_higher is
    lower,           \* where context_switch_lower is
    main,            \* "polling" or "done"
    owner,           \* of context_switch_mutex
    thread_ready,    \* count of that semaphore, whose limit is 1
    cursor,          \* current_buffer.buffer, as an index of context_switch_buffer
    buffer_index,    \* current_buffer.buffer_index
    cells,           \* context_switch_buffer, and the cell after its end
    prompt           \* history: whenever the higher thread's 10 ms were over,
                     \* the lower one had got to its k_sem_take

vars == <<higher, lower, main, owner, thread_ready, cursor, buffer_index, cells, prompt>>

Cells == 0 .. BufferSize
Kinds == {"zero", "stamp", "diff", "junk"}
HigherLabels == {"test", "sleep", "give", "lock", "wait", "diff", "advance",
                 "count", "unlock", "end"}
LowerLabels == {"test", "lock", "wait", "take", "waitTake", "stamp", "unlock", "end"}

\* The threads' first steps: k_thread_create starts them 200 ms later.
Init ==
    /\ higher = "test"
    /\ lower = "test"
    /\ main = "polling"
    /\ owner = "none"
    /\ thread_ready = 0
    /\ cursor = 0
    /\ buffer_index = 0
    /\ cells = [i \in Cells |-> "zero"]
    /\ prompt = TRUE

-----------------------------------------------------------------------------
(* context_switch_higher *)

HigherStep(l, next) == main = "polling" /\ higher = l /\ higher' = next

\* Mutation: the higher thread loops once too often.
HigherTestAtMost ==
    /\ HigherStep("test", IF buffer_index <= BufferSize THEN "sleep" ELSE "end")
    /\ UNCHANGED <<lower, main, owner, thread_ready, cursor, buffer_index, cells, prompt>>

HigherTest ==
    /\ HigherStep("test", IF buffer_index < BufferSize THEN "sleep" ELSE "end")
    /\ UNCHANGED <<lower, main, owner, thread_ready, cursor, buffer_index, cells, prompt>>

HigherWake ==
    /\ HigherStep("sleep", "give")
    /\ prompt' = (prompt /\ lower \in {"waitTake", "end"})
    /\ UNCHANGED <<lower, main, owner, thread_ready, cursor, buffer_index, cells>>

\* k_sem_give makes the lower thread ready, if it waits, or leaves a count of 1.
HigherGive ==
    /\ HigherStep("give", "lock")
    /\ IF lower = "waitTake"
         THEN lower' = "stamp" /\ UNCHANGED thread_ready
         ELSE thread_ready' = 1 /\ UNCHANGED lower
    /\ UNCHANGED <<main, owner, cursor, buffer_index, cells, prompt>>

\* Mutation: the mutex is not waited for.
LockUnchecked ==
    /\ HigherStep("lock", "diff")
    /\ owner' = "higher"
    /\ UNCHANGED <<lower, main, thread_ready, cursor, buffer_index, cells, prompt>>

HigherLock ==
    /\ HigherStep("lock", IF owner = "none" THEN "diff" ELSE "wait")
    /\ owner' = IF owner = "none" THEN "higher" ELSE owner
    /\ UNCHANGED <<lower, main, thread_ready, cursor, buffer_index, cells, prompt>>

HigherDiff ==
    /\ HigherStep("diff", "advance")
    /\ cells' = [cells EXCEPT ![cursor] = IF @ = "stamp" THEN "diff" ELSE "junk"]
    /\ UNCHANGED <<lower, main, owner, thread_ready, cursor, buffer_index, prompt>>

\* Mutation: the pointer stays at the first cell.
AdvanceForgotten ==
    /\ HigherStep("advance", "count")
    /\ UNCHANGED <<lower, main, owner, thread_ready, cursor, buffer_index, cells, prompt>>

HigherAdvance ==
    /\ HigherStep("advance", "count")
    /\ cursor' = cursor + 1
    /\ UNCHANGED <<lower, main, owner, thread_ready, buffer_index, cells, prompt>>

HigherCount ==
    /\ HigherStep("count", "unlock")
    /\ buffer_index' = buffer_index + 1
    /\ UNCHANGED <<lower, main, owner, thread_ready, cursor, cells, prompt>>

HigherUnlock ==
    /\ HigherStep("unlock", "test")
    /\ IF lower = "wait"
         THEN owner' = "lower" /\ lower' = "take"
         ELSE owner' = "none" /\ UNCHANGED lower
    /\ UNCHANGED <<main, thread_ready, cursor, buffer_index, cells, prompt>>

-----------------------------------------------------------------------------
(* context_switch_lower: it runs while the higher thread sleeps or waits *)

LowerStep(l, next) ==
    /\ main = "polling"
    /\ higher \in {"sleep", "wait", "end"}
    /\ lower = l /\ lower' = next

LowerTest ==
    /\ LowerStep("test", IF buffer_index < BufferSize THEN "lock" ELSE "end")
    /\ UNCHANGED <<higher, main, owner, thread_ready, cursor, buffer_index, cells, prompt>>

LowerLock ==
    /\ LowerStep("lock", IF owner = "none" THEN "take" ELSE "wait")
    /\ owner' = IF owner = "none" THEN "lower" ELSE owner
    /\ UNCHANGED <<higher, main, thread_ready, cursor, buffer_index, cells, prompt>>

LowerTake ==
    /\ LowerStep("take", IF thread_ready = 1 THEN "stamp" ELSE "waitTake")
    /\ thread_ready' = 0
    /\ UNCHANGED <<higher, main, owner, cursor, buffer_index, cells, prompt>>

LowerStamp ==
    /\ LowerStep("stamp", "unlock")
    /\ cells' = [cells EXCEPT ![cursor] = "stamp"]
    /\ UNCHANGED <<higher, main, owner, thread_ready, cursor, buffer_index, prompt>>

\* Mutation: the mutex stays locked.
UnlockForgotten ==
    /\ LowerStep("unlock", "test")
    /\ UNCHANGED <<higher, main, owner, thread_ready, cursor, buffer_index, cells, prompt>>

\* The mutex goes to the higher thread, which preempts the lower one at once.
LowerUnlock ==
    /\ LowerStep("unlock", "test")
    /\ IF higher = "wait"
         THEN owner' = "higher" /\ higher' = "diff"
         ELSE owner' = "none" /\ UNCHANGED higher
    /\ UNCHANGED <<main, thread_ready, cursor, buffer_index, cells, prompt>>

-----------------------------------------------------------------------------
\* main wakes every 500 ms, whatever the threads are doing, and looks.
MainAbort ==
    /\ main = "polling"
    /\ buffer_index >= BufferSize
    /\ main' = "done"
    /\ UNCHANGED <<higher, lower, owner, thread_ready, cursor, buffer_index, cells, prompt>>

Higher ==
    \/ HigherTest \/ HigherWake \/ HigherGive \/ HigherLock \/ HigherDiff
    \/ HigherAdvance \/ HigherCount \/ HigherUnlock

Lower == LowerTest \/ LowerLock \/ LowerTake \/ LowerStamp \/ LowerUnlock

Next == Higher \/ Lower \/ MainAbort

Spec == Init /\ [][Next]_vars

\* Timers expire, and the processor runs the ready thread of highest priority.
FairSpec == Spec /\ WF_vars(Higher) /\ WF_vars(Lower) /\ WF_vars(MainAbort)

-----------------------------------------------------------------------------
(* Properties *)

\* Every variable stays in its type.
TypeOK ==
    /\ higher \in HigherLabels
    /\ lower \in LowerLabels
    /\ main \in {"polling", "done"}
    /\ owner \in {"none", "higher", "lower"}
    /\ thread_ready \in {0, 1}
    /\ cursor \in Cells
    /\ buffer_index \in Cells
    /\ cells \in [Cells -> Kinds]
    /\ prompt \in BOOLEAN

\* As long as 10 ms are enough for the lower thread, every cell that is counted
\* holds the difference of a time the lower thread stored in that very cell:
\* never the time itself, nor a difference of a difference or of the zero the
\* buffer began with.
CountedCellsAreDifferences ==
    prompt => \A i \in Cells : i < buffer_index => cells[i] = "diff"

\* Nor does anybody then write the cell after the end of context_switch_buffer,
\* although the lower thread tests the index before it waits and stores after.
StoresStayInside ==
    prompt =>
        /\ lower = "stamp" => cursor < BufferSize
        /\ higher = "diff" => cursor < BufferSize

\* A difference is taken right after the unlock that hands the mutex over: the
\* lower thread has not begun its next round, so what is measured is one switch.
DiffMeasuresOneSwitch ==
    [][prompt /\ higher = "diff" /\ higher' = "advance" =>
           lower = "test" /\ cells[cursor] = "stamp"]_vars

\* Whatever the 10 ms are worth, the two threads do not lock each other out: the
\* buffer fills and main ends the test.
TestEnds == <>(main = "done")
=============================================================================
