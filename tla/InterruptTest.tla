---------------------------- MODULE InterruptTest ----------------------------
(***************************************************************************)
(* Tests 1 and 2 of assignment 3 (measure_18/src/main.c): main selects a    *)
(* buffer, resets the count, enables the gpio callback and waits until the  *)
(* callback sig_got, an interrupt on every rising edge of shield pin 3, has *)
(* filled the buffer. In test 1 main raises the pin itself; in test 2 a     *)
(* PWM does, once with two threads running in the background and once       *)
(* without. Test 3 then uses the same global current_buffer.                *)
(*                                                                          *)
(* An interrupt is one step; it comes between any two statements of main    *)
(* that touch what they share. Of a cell the model keeps what kind of       *)
(* number it holds.                                                         *)
(***************************************************************************)
EXTENDS Naturals, Sequences

CONSTANT BufferSize     \* BUFFER_SIZE: 500 in the code

ASSUME BufferSizeAssumption == BufferSize \in Nat \ {0}

\* interrupt_no_background_buffer, interrupt_w_background_buffer,
\* interrupt_w_background_buffer_reference, context_switch_buffer
Buffers == {"gpio", "background", "reference", "switch"}

\* The buffers in the order main uses them.
Phases == <<"gpio", "background", "reference", "switch">>

VARIABLES
    phase,          \* the phase of main, an index of Phases
    at,             \* where main is in it
    buffer_index,   \* current_buffer.buffer_index
    buffer,         \* current_buffer.buffer
    int_sem,        \* count of int_sem, whose limit is BufferSize + 1
    done_mut,       \* count of done_mut, whose limit is 1
    enabled,        \* the gpio callback is enabled
    pwm,            \* shield pin 3 is driven by the PWM
    edge,           \* main has raised the pin and the interrupt is pending
    cells           \* the contents of the buffers

vars == <<phase, at, buffer_index, buffer, int_sem, done_mut, enabled, pwm, edge, cells>>

Slots == 0 .. BufferSize - 1
Kinds == {"zero", "stamp", "elapsed", "time", "junk"}
Labels == {"pinmux", "clear", "index", "buffer", "reset", "enable", "wait",
           "stamp", "pulse", "low", "run"}

Init ==
    /\ phase = 1
    /\ at = "index"
    /\ buffer_index = 0
    /\ buffer = "none"
    /\ int_sem = 0
    /\ done_mut = 0
    /\ enabled = FALSE
    /\ pwm = FALSE
    /\ edge = FALSE
    /\ cells = [b \in Buffers |-> [i \in Slots |-> "zero"]]

-----------------------------------------------------------------------------
(* main, up to and including the start of each wait *)

\* A pending interrupt is served before main's next statement.
MainStep(l, next) == at = l /\ at' = next /\ ~edge

\* Test 2 begins: the pin is given to the PWM, whose edges come at any time ...
SelectPwm ==
    /\ MainStep("pinmux", "clear")
    /\ pwm' = TRUE
    /\ UNCHANGED <<phase, buffer_index, buffer, int_sem, done_mut, enabled, edge, cells>>

\* Mutation: the two buffers of test 2 are not cleared.
ClearForgotten ==
    /\ MainStep("clear", "index")
    /\ UNCHANGED <<phase, buffer_index, buffer, int_sem, done_mut, enabled, pwm,
                   edge, cells>>

\* ... and the loop zeroes the two buffers of test 2; interrupts that come in
\* between only disable the callback or are not enabled.
ClearBuffers ==
    /\ MainStep("clear", "index")
    /\ cells' = [b \in Buffers |->
                    IF b \in {"background", "reference"} THEN [i \in Slots |-> "zero"]
                    ELSE cells[b]]
    /\ UNCHANGED <<phase, buffer_index, buffer, int_sem, done_mut, enabled, pwm, edge>>

\* Mutation: the count is reset before the buffer is selected.
ResetIndexAndCount ==
    /\ MainStep("index", "buffer")
    /\ buffer_index' = 0
    /\ int_sem' = 0
    /\ UNCHANGED <<phase, buffer, done_mut, enabled, pwm, edge, cells>>

ResetIndex ==
    /\ MainStep("index", "buffer")
    /\ buffer_index' = 0
    /\ UNCHANGED <<phase, buffer, int_sem, done_mut, enabled, pwm, edge, cells>>

\* Test 3 does not reset the count and does not enable the callback.
SelectBuffer ==
    /\ MainStep("buffer", IF Phases[phase] = "switch" THEN "run" ELSE "reset")
    /\ buffer' = Phases[phase]
    /\ UNCHANGED <<phase, buffer_index, int_sem, done_mut, enabled, pwm, edge, cells>>

\* Mutation: the count is left as the last phase left it.
ResetForgotten ==
    /\ MainStep("reset", "enable")
    /\ UNCHANGED <<phase, buffer_index, buffer, int_sem, done_mut, enabled, pwm,
                   edge, cells>>

ResetCount ==
    /\ MainStep("reset", "enable")
    /\ int_sem' = 0
    /\ UNCHANGED <<phase, buffer_index, buffer, done_mut, enabled, pwm, edge, cells>>

EnableCallback ==
    /\ MainStep("enable", "wait")
    /\ enabled' = TRUE
    /\ UNCHANGED <<phase, buffer_index, buffer, int_sem, done_mut, pwm, edge, cells>>

\* k_sem_take(&done_mut, ...), with K_NO_WAIT in a loop or with K_FOREVER.
TakeDone ==
    /\ MainStep("wait", IF phase = 1 THEN "pinmux" ELSE "index")
    /\ done_mut = 1
    /\ done_mut' = 0
    /\ phase' = phase + 1
    /\ UNCHANGED <<buffer_index, buffer, int_sem, enabled, pwm, edge, cells>>

\* Test 1: not done, so main goes on to raise the pin once more.
NotDone ==
    /\ MainStep("wait", "stamp")
    /\ phase = 1 /\ done_mut = 0
    /\ UNCHANGED <<phase, buffer_index, buffer, int_sem, done_mut, enabled, pwm,
                   edge, cells>>

\* buffer[buffer_index] = tsc_read(). An index past the end writes what the
\* linker put after the buffer: the first cell of another one, or neither.
Stamp ==
    /\ MainStep("stamp", "pulse")
    /\ IF buffer_index \in Slots
         THEN cells' = [cells EXCEPT ![buffer][buffer_index] = "stamp"]
         ELSE \/ \E b \in Buffers \ {buffer} : cells' = [cells EXCEPT ![b][0] = "stamp"]
              \/ UNCHANGED cells
    /\ UNCHANGED <<phase, buffer_index, buffer, int_sem, done_mut, enabled, pwm, edge>>

\* The pin goes high, 5 ms later low, 5 ms later the loop goes on.
Pulse ==
    /\ MainStep("pulse", "low")
    /\ edge' = TRUE
    /\ UNCHANGED <<phase, buffer_index, buffer, int_sem, done_mut, enabled, pwm, cells>>

Low ==
    /\ MainStep("low", "wait")
    /\ UNCHANGED <<phase, buffer_index, buffer, int_sem, done_mut, enabled, pwm,
                   edge, cells>>

-----------------------------------------------------------------------------
(* sig_got *)

\* now - buffer[buffer_index], after what the cell held before.
Elapsed(kind) == CASE kind = "stamp" -> "elapsed"
                   [] kind = "zero" -> "time"
                   [] OTHER -> "junk"

\* Mutation: the count is not looked at before the record is made.
RecordUnchecked ==
    /\ cells' = IF buffer_index \in Slots
                  THEN [cells EXCEPT ![buffer][buffer_index] = Elapsed(@)]
                  ELSE cells
    /\ buffer_index' = buffer_index + 1
    /\ int_sem' = IF int_sem < BufferSize THEN int_sem + 1 ELSE int_sem
    /\ UNCHANGED <<done_mut, enabled>>

Record ==
    /\ int_sem < BufferSize
    /\ cells' = [cells EXCEPT ![buffer][buffer_index] = Elapsed(@)]
    /\ buffer_index' = buffer_index + 1
    /\ int_sem' = int_sem + 1
    /\ UNCHANGED <<done_mut, enabled>>

Full ==
    /\ int_sem = BufferSize
    /\ int_sem' = BufferSize + 1
    /\ done_mut' = 1
    /\ UNCHANGED <<cells, buffer_index, enabled>>

\* Mutation: the callback says once more that it is done.
EndAgain ==
    /\ int_sem = BufferSize + 1
    /\ enabled' = FALSE
    /\ done_mut' = 1
    /\ UNCHANGED <<cells, buffer_index, int_sem>>

End ==
    /\ int_sem = BufferSize + 1
    /\ enabled' = FALSE
    /\ UNCHANGED <<cells, buffer_index, int_sem, done_mut>>

\* An edge that comes while the callback is disabled is lost.
SigGot ==
    /\ enabled
    /\ edge \/ pwm
    /\ edge' = FALSE
    /\ Record \/ Full \/ End
    /\ UNCHANGED <<phase, at, buffer, pwm>>

-----------------------------------------------------------------------------
Main ==
    \/ SelectPwm \/ ClearBuffers \/ ResetIndex \/ SelectBuffer \/ ResetCount
    \/ EnableCallback \/ TakeDone \/ NotDone \/ Stamp \/ Pulse \/ Low

Next == Main \/ SigGot

Spec == Init /\ [][Next]_vars

\* main runs when it is ready; the pin it raises, and the PWM, are wired to the
\* interrupt and the PWM keeps running.
FairSpec == Spec /\ WF_vars(Main) /\ WF_vars(SigGot)

-----------------------------------------------------------------------------
(* Properties *)

\* Every variable stays in its type.
TypeOK ==
    /\ phase \in 1 .. 4
    /\ at \in Labels
    /\ buffer_index \in 0 .. BufferSize
    /\ buffer \in Buffers \cup {"none"}
    /\ int_sem \in 0 .. BufferSize + 1
    /\ done_mut \in {0, 1}
    /\ enabled \in BOOLEAN /\ pwm \in BOOLEAN /\ edge \in BOOLEAN
    /\ cells \in [Buffers -> [Slots -> Kinds]]

\* An interrupt that makes a record makes it in the next cell of the buffer of
\* the phase main is in, although the callback stays enabled when a phase ends
\* and main changes index, buffer and count one after the other.
RecordsInPlace ==
    enabled /\ (edge \/ pwm) /\ int_sem < BufferSize =>
        buffer = Phases[phase] /\ buffer_index = int_sem

\* When a phase is over its buffer is full of what it measures, and it stays so:
\* no later interrupt, and no store past the end of another buffer, spoils it.
FinishedPhasesAreKept ==
    \A p \in 1 .. phase - 1, i \in Slots :
        cells[Phases[p]][i] = IF p = 1 THEN "elapsed" ELSE "time"

\* The completion main waits for is the one of its own phase: no earlier phase
\* leaves a count in done_mut.
NoStaleDone ==
    at \in {"pinmux", "clear", "index", "buffer", "reset", "run"} => done_mut = 0

\* Test 3 uses current_buffer too, with the callback perhaps still enabled: the
\* interrupts that come change neither its index nor its cells.
SwitchUndisturbed ==
    [][at = "run" => UNCHANGED <<buffer_index, cells>>]_vars

\* Every phase ends.
PhasesEnd == <>(at = "run")

-----------------------------------------------------------------------------
\* "exit when the ISR fill the buffer and releases the sem" (main.c:193): main
\* does not store a time in a buffer that is full.
MainStaysInside == at = "stamp" => buffer_index \in Slots
=============================================================================
