-------------------------- MODULE DistanceRecorder --------------------------
(***************************************************************************)
(* The distance recorder of assignment 4 (samples/assignment4/src/main.c):  *)
(* two radar threads of one priority that share a page buffer, the          *)
(* lower-priority thread that writes a full page to the EEPROM, and the     *)
(* shell, a cooperative thread that preempts all of them.                   *)
(*                                                                          *)
(* A radar thread is interrupted by the shell between any two accesses to   *)
(* shared memory, so save_distance is one action per access. Radar threads  *)
(* give up the processor to each other only where they block, and the       *)
(* writer runs only when no radar thread is ready. A Zephyr semaphore is    *)
(* handed to the first waiter by k_sem_give; its count grows only when      *)
(* nobody waits. The flash driver appears as the semaphore it serialises    *)
(* its clients with and the eight bytes it copies; the sensor driver as the *)
(* moment a sample is ready.                                                *)
(***************************************************************************)
EXTENDS Naturals, Sequences

CONSTANTS
    PageEntries,     \* entries of a page buffer: 8 in the code
    Requests,        \* the arguments p the shell gives to Start
    EnableArgs,      \* the arguments it gives to Enable, among "0", "1", "2"
    MaxEnables,      \* bound: Enable commands issued
    MaxStarts,       \* bound: Start commands issued
    MaxUses,         \* bound: flash calls of Dump and Test
    MaxEntries,      \* bound: entries accepted in a session before radars stop
    PromptWriter,    \* TRUE: the writer begins before a radar thread's next sample
    FailingBus,      \* TRUE: the i2c transfer of a page may fail
    FatalOverlap     \* TRUE: a thread may die whose stack was overwritten, or that
                     \* was created a second time before it had ended

ASSUME PageEntriesAssumption == PageEntries \in Nat \ {0}
ASSUME RequestsAssumption == Requests \subseteq Nat
ASSUME BoundsAssumption ==
    /\ EnableArgs \subseteq {"0", "1", "2"}
    /\ {MaxEnables, MaxStarts, MaxUses, MaxEntries} \subseteq Nat
    /\ {PromptWriter, FailingBus, FatalOverlap} \subseteq BOOLEAN

Radars == {"hcsr0", "hcsr1"}
NoThread == "none"
StackMate == "hcsr1"    \* runs on stack_area_1, as the writer thread does

Buffers == {"A", "B"}   \* the arrays in_buffer and out_buffer
Slots == 0 .. PageEntries - 1
Blank == [session |-> 0, n |-> 0]
Entries == [session : Nat, n : Nat]
Locals == [idx : Nat, temp : Buffers, pages : Nat, ret : BOOLEAN]
Measurements == [in_buffer : Buffers, out_buffer : Buffers,
                 num_entries : Nat, num_pages : Nat, max_pages : Nat]
PageWrites == [page : Nat, data : Entries]

VARIABLES
    pc,                \* where each radar thread is
    suspended,         \* the radar threads that are suspended
    cpu,               \* the radar thread that has the processor, or NoThread
    local,             \* locals and registers of save_distance, per radar
    measurements,      \* the struct of that name
    mem,               \* contents of the two buffers
    is_recording,
    buffer_write_sem,
    eeprom_write_sem,
    writer,            \* the writer thread, its arguments and its copy
    driver,            \* who has the flash driver's semaphore
    shell,             \* what the shell is doing
    stack_user,        \* the thread whose frames stack_area_1 holds
    budget,            \* commands left to the shell
    session,           \* number of Start commands so far
    accepted,          \* entries stored since the last one
    flashed            \* the page writes that reached the EEPROM, in order

radarVars == <<pc, suspended, cpu, local>>
sessionVars == <<mem, is_recording, session, accepted>>
dataVars == <<measurements, sessionVars>>
semVars == <<buffer_write_sem, eeprom_write_sem>>
writerVars == <<writer, driver, stack_user, flashed>>
shellVars == <<shell, budget>>
vars == <<radarVars, dataVars, semVars, writerVars, shellVars>>

(* Program points of a radar thread. From "load" on, and at "waitEe", it is   *)
(* inside the section buffer_write_sem protects; from "swapTemp" to "giveEe"  *)
(* it also holds eeprom_write_sem.                                            *)
Swapping == {"swapTemp", "swapOut", "swapIn", "giveEe"}
Filling == {"load", "store", "test", "takeEe", "waitEe"}
Sealing == {"spawn", "reset", "countPage"}
Critical == Filling \cup Swapping \cup Sealing \cup {"giveBuf"}
Blocked == {"rest", "fetch", "waitBuf", "waitEe", "dead"}
Labels == {"rest", "fetch", "check", "takeBuf", "waitBuf", "finish", "dead"}
            \cup Critical

WriterLabels == {"none", "start", "take", "waitEe", "drv", "waitDrv", "copy",
                 "xfer", "give", "exit", "dead"}

Init ==
    /\ pc = [r \in Radars |-> "fetch"]
    /\ suspended = Radars
    /\ cpu = NoThread
    /\ local = [r \in Radars |-> [idx |-> 0, temp |-> "A", pages |-> 0, ret |-> FALSE]]
    /\ measurements = [in_buffer |-> "A", out_buffer |-> "B",
                       num_entries |-> 0, num_pages |-> 0, max_pages |-> 0]
    /\ mem = [b \in Buffers |-> [s \in Slots |-> Blank]]
    /\ is_recording = FALSE
    /\ buffer_write_sem = 1
    /\ eeprom_write_sem = 1
    /\ writer = [at |-> "none", buffer |-> "A", page |-> 0, data |-> Blank]
    /\ driver = "free"
    /\ shell = [at |-> "idle", erasing |-> FALSE, p |-> 0]
    /\ stack_user = StackMate
    /\ budget = [enable |-> MaxEnables, start |-> MaxStarts, use |-> MaxUses]
    /\ session = 0
    /\ accepted = 0
    /\ flashed = <<>>

-----------------------------------------------------------------------------
Ready(r) == pc[r] \notin Blocked /\ r \notin suspended

\* r can run: it is ready, and no other radar thread has the processor.
Runs(r) == Ready(r) /\ cpu \in {r, NoThread}

\* r executes the statement at label l and goes on at next, or blocks there.
Step(r, l, next) ==
    /\ pc[r] = l /\ Runs(r)
    /\ pc' = [pc EXCEPT ![r] = next]
    /\ cpu' = IF next \in Blocked THEN NoThread ELSE r
    /\ stack_user' = IF l = "spawn" THEN "writer"
                     ELSE IF r = StackMate THEN r ELSE stack_user
    /\ UNCHANGED <<suspended, driver, flashed, shellVars>>

Set(field, val) == measurements' = [measurements EXCEPT ![field] = val]
SetLocal(r, field, val) == local' = [local EXCEPT ![r][field] = val]

-----------------------------------------------------------------------------
(* radar_read: a thread fetches a sample, records it, and rests until its     *)
(* period of 60 ms is over. Nothing is assumed about how long a page takes to *)
(* write; PromptWriter says only that, while a radar thread rests, there is a *)
(* moment when no radar thread is ready and a new writer has had the processor *)
(* for its first two statements.                                              *)

Fetched(r) ==
    /\ pc[r] = "fetch" /\ r \notin suspended
    /\ accepted < MaxEntries
    /\ pc' = [pc EXCEPT ![r] = "check"]
    /\ UNCHANGED <<suspended, cpu, local, dataVars, semVars, writerVars, shellVars>>

Rested(r) ==
    /\ pc[r] = "rest"
    /\ PromptWriter => /\ writer.at \notin {"start", "take"}
                       /\ \A q \in Radars : ~Ready(q)
    /\ pc' = [pc EXCEPT ![r] = "fetch"]
    /\ UNCHANGED <<suspended, cpu, local, dataVars, semVars, writerVars, shellVars>>

CheckRecording(r) ==
    /\ Step(r, "check", IF is_recording THEN "takeBuf" ELSE "rest")
    /\ UNCHANGED <<local, dataVars, semVars, writer>>

StopRecording(r) ==
    /\ Step(r, "finish", "rest")
    /\ is_recording' = FALSE
    /\ UNCHANGED <<local, measurements, mem, session, accepted, semVars, writer>>

-----------------------------------------------------------------------------
(* save_distance *)

\* Mutation: the section is entered without waiting for the semaphore.
TakeBufferUnchecked(r) ==
    /\ Step(r, "takeBuf", "load")
    /\ buffer_write_sem' = 0
    /\ SetLocal(r, "ret", FALSE)
    /\ UNCHANGED <<dataVars, eeprom_write_sem, writer>>

TakeBuffer(r) ==
    /\ Step(r, "takeBuf", IF buffer_write_sem = 1 THEN "load" ELSE "waitBuf")
    /\ buffer_write_sem' = 0
    /\ SetLocal(r, "ret", FALSE)
    /\ UNCHANGED <<dataVars, eeprom_write_sem, writer>>

\* in_buffer[num_entries++] reads the count here and writes it back below.
LoadIndex(r) ==
    /\ Step(r, "load", "store")
    /\ SetLocal(r, "idx", measurements.num_entries)
    /\ UNCHANGED <<dataVars, semVars, writer>>

StoreEntry(r) ==
    /\ Step(r, "store", "test")
    /\ Set("num_entries", local[r].idx + 1)
    /\ mem' = [mem EXCEPT ![measurements.in_buffer][local[r].idx] =
                   [session |-> session, n |-> accepted + 1]]
    /\ accepted' = accepted + 1
    /\ UNCHANGED <<local, is_recording, session, semVars, writer>>

TestFull(r) ==
    /\ Step(r, "test",
            IF measurements.num_entries >= PageEntries THEN "takeEe" ELSE "giveBuf")
    /\ UNCHANGED <<local, dataVars, semVars, writer>>

\* Mutation: the pointers are swapped without waiting for the writer.
TakeEepromUnchecked(r) ==
    /\ Step(r, "takeEe", "swapTemp")
    /\ eeprom_write_sem' = 0
    /\ UNCHANGED <<local, dataVars, buffer_write_sem, writer>>

TakeEeprom(r) ==
    /\ Step(r, "takeEe", IF eeprom_write_sem = 1 THEN "swapTemp" ELSE "waitEe")
    /\ eeprom_write_sem' = 0
    /\ UNCHANGED <<local, dataVars, buffer_write_sem, writer>>

SwapTemp(r) ==
    /\ Step(r, "swapTemp", "swapOut")
    /\ SetLocal(r, "temp", measurements.out_buffer)
    /\ UNCHANGED <<dataVars, semVars, writer>>

SwapOut(r) ==
    /\ Step(r, "swapOut", "swapIn")
    /\ Set("out_buffer", measurements.in_buffer)
    /\ UNCHANGED <<local, sessionVars, semVars, writer>>

SwapIn(r) ==
    /\ Step(r, "swapIn", "giveEe")
    /\ Set("in_buffer", local[r].temp)
    /\ UNCHANGED <<local, sessionVars, semVars, writer>>

\* The only other user of eeprom_write_sem is the writer.
GiveEeprom(r) ==
    /\ Step(r, "giveEe", "spawn")
    /\ IF writer.at = "waitEe"
         THEN writer' = [writer EXCEPT !.at = "drv"] /\ UNCHANGED eeprom_write_sem
         ELSE eeprom_write_sem' = 1 /\ UNCHANGED writer
    /\ UNCHANGED <<local, dataVars, buffer_write_sem>>

\* Mutation: the writer is given the buffer that fills next.
SpawnWriterOnInBuffer(r) ==
    /\ Step(r, "spawn", "reset")
    /\ writer' = [writer EXCEPT !.at = "start", !.buffer = measurements.in_buffer]
    /\ UNCHANGED <<local, dataVars, semVars>>

\* k_thread_create fills in the one thread object again, whatever the thread was
\* doing: it starts anew or, if it was not done, may be lost to the scheduler.
SpawnWriter(r) ==
    /\ Step(r, "spawn", "reset")
    /\ \E at \in {"start", "dead"} :
        /\ at = "dead" => FatalOverlap /\ writer.at \notin {"none", "dead"}
        /\ writer' = [writer EXCEPT !.at = at, !.buffer = measurements.out_buffer]
    /\ UNCHANGED <<local, dataVars, semVars>>

\* Mutation: the count of entries is not reset.
ResetForgotten(r) ==
    /\ Step(r, "reset", "countPage")
    /\ SetLocal(r, "pages", measurements.num_pages)
    /\ UNCHANGED <<dataVars, semVars, writer>>

\* num_entries = 0, and ++num_pages reads the count.
ResetEntries(r) ==
    /\ Step(r, "reset", "countPage")
    /\ Set("num_entries", 0)
    /\ SetLocal(r, "pages", measurements.num_pages)
    /\ UNCHANGED <<sessionVars, semVars, writer>>

\* Mutation: num_pages is decremented.
CountPageDown(r) ==
    /\ Step(r, "countPage", "giveBuf")
    /\ Set("num_pages", local[r].pages - 1)
    /\ SetLocal(r, "ret", (local[r].pages - 1 = measurements.max_pages))
    /\ UNCHANGED <<sessionVars, semVars, writer>>

\* Mutation: num_pages++ is compared, not ++num_pages.
CountPageLate(r) ==
    /\ Step(r, "countPage", "giveBuf")
    /\ Set("num_pages", local[r].pages + 1)
    /\ SetLocal(r, "ret", (local[r].pages = measurements.max_pages))
    /\ UNCHANGED <<sessionVars, semVars, writer>>

CountPage(r) ==
    /\ Step(r, "countPage", "giveBuf")
    /\ Set("num_pages", local[r].pages + 1)
    /\ SetLocal(r, "ret", (local[r].pages + 1 = measurements.max_pages))
    /\ UNCHANGED <<sessionVars, semVars, writer>>

\* Of a thread that waits at label l, k_sem_give makes one that goes on at next.
HandOver(l, next) == [q \in Radars |-> IF pc[q] = l THEN next ELSE pc[q]]

\* Mutation: the last page returns before the semaphore is given.
GiveBufferUnlessDone(r) ==
    /\ Step(r, "giveBuf", IF local[r].ret THEN "finish" ELSE "rest")
    /\ buffer_write_sem' = IF local[r].ret THEN 0 ELSE 1
    /\ UNCHANGED <<local, dataVars, eeprom_write_sem, writer>>

\* The other thread, if it waits, enters the section, suspended or not.
GiveBuffer(r) ==
    /\ pc[r] = "giveBuf" /\ Runs(r)
    /\ LET after == IF local[r].ret THEN "finish" ELSE "rest"
       IN  /\ pc' = [HandOver("waitBuf", "load") EXCEPT ![r] = after]
           /\ cpu' = IF local[r].ret THEN r ELSE NoThread
    /\ buffer_write_sem' = IF \E q \in Radars : pc[q] = "waitBuf" THEN 0 ELSE 1
    /\ stack_user' = IF r = StackMate THEN r ELSE stack_user
    /\ UNCHANGED <<suspended, local, dataVars, eeprom_write_sem, writer, driver,
                   flashed, shellVars>>

\* A thread whose frames were overwritten may not survive its next statement.
Fault ==
    /\ FatalOverlap
    /\ stack_user = "writer"
    /\ Runs(StackMate)
    /\ pc' = [pc EXCEPT ![StackMate] = "dead"]
    /\ cpu' = NoThread
    /\ UNCHANGED <<suspended, local, dataVars, semVars, writerVars, shellVars>>

-----------------------------------------------------------------------------
(* write_distance_eeprom, and flash_write as far as its semaphore goes *)

WriterRuns(l) ==
    /\ writer.at = l
    /\ cpu = NoThread
    /\ \A r \in Radars : ~Ready(r)

WriterStep(l, next) ==
    /\ WriterRuns(l)
    /\ writer' = [writer EXCEPT !.at = next]
    /\ stack_user' = "writer"
    /\ UNCHANGED <<suspended, cpu, local, dataVars, buffer_write_sem, budget>>

\* page_offset = *page: the number of pages counted when the thread first runs.
WriterStart ==
    /\ WriterRuns("start")
    /\ writer' = [writer EXCEPT !.at = "take", !.page = measurements.num_pages]
    /\ stack_user' = "writer"
    /\ UNCHANGED <<radarVars, dataVars, semVars, driver, flashed, shellVars>>

WriterTakeEeprom ==
    /\ WriterStep("take", IF eeprom_write_sem = 1 THEN "drv" ELSE "waitEe")
    /\ eeprom_write_sem' = 0
    /\ UNCHANGED <<pc, driver, flashed, shell>>

WriterTakeDriver ==
    /\ WriterStep("drv", IF driver = "free" THEN "copy" ELSE "waitDrv")
    /\ driver' = IF driver = "free" THEN "writer" ELSE driver
    /\ UNCHANGED <<pc, eeprom_write_sem, flashed, shell>>


\* flash_write is given len = 8: it copies one eeprom_entry of the page (of which
\* it then sends six bytes, as Eeprom24FC256 says).
WriterCopy ==
    /\ WriterRuns("copy")
    /\ writer' = [writer EXCEPT !.at = "xfer", !.data = mem[writer.buffer][0]]
    /\ stack_user' = "writer"
    /\ UNCHANGED <<radarVars, dataVars, semVars, driver, flashed, shellVars>>

\* The transfer ends and the driver's semaphore is given, to the shell if it
\* waits. The result of flash_write is ignored.
WriterTransferred ==
    /\ WriterStep("xfer", "give")
    /\ \/ flashed' = Append(flashed, [page |-> writer.page, data |-> writer.data])
       \/ FailingBus /\ UNCHANGED flashed
    /\ IF shell.at = "wait"
         THEN driver' = "shell" /\ shell' = [shell EXCEPT !.at = "busy"]
         ELSE driver' = "free" /\ UNCHANGED shell
    /\ UNCHANGED <<pc, eeprom_write_sem>>

WriterGiveEeprom ==
    /\ WriterStep("give", "exit")
    /\ pc' = HandOver("waitEe", "swapTemp")
    /\ eeprom_write_sem' = IF \E r \in Radars : pc[r] = "waitEe" THEN 0 ELSE 1
    /\ UNCHANGED <<driver, flashed, shell>>

WriterExit ==
    /\ WriterStep("exit", "none")
    /\ UNCHANGED <<pc, eeprom_write_sem, driver, flashed, shell>>

WriterFault ==
    /\ FatalOverlap
    /\ stack_user = StackMate
    /\ writer.at \notin {"none", "waitEe", "waitDrv", "dead"}
    /\ WriterRuns(writer.at)
    /\ writer' = [writer EXCEPT !.at = "dead"]
    /\ UNCHANGED <<radarVars, dataVars, semVars, driver, stack_user, flashed,
                   shellVars>>

-----------------------------------------------------------------------------
(* The shell's commands. It runs to completion but for the driver's semaphore *)
(* and the i2c transfers of an erase, during which the other threads run.     *)

Spend(what) == budget[what] > 0 /\ budget' = [budget EXCEPT ![what] = @ - 1]

\* cmd_enable_distance_sensors: "2" resumes both threads.
Enable(n) ==
    /\ shell.at = "idle"
    /\ Spend("enable")
    /\ suspended' = CASE n = "0" -> Radars
                      [] n = "1" -> {"hcsr1"}
                      [] n = "2" -> {}
    /\ cpu' = IF cpu \in suspended' THEN NoThread ELSE cpu
    /\ UNCHANGED <<pc, local, dataVars, semVars, writerVars, shell>>

ShellTakeDriver(erasing, p) ==
    /\ shell.at = "idle"
    /\ shell' = [at |-> IF driver = "free" THEN "busy" ELSE "wait",
                 erasing |-> erasing, p |-> p]
    /\ driver' = IF driver = "free" THEN "shell" ELSE driver
    /\ UNCHANGED <<radarVars, dataVars, semVars, writer, stack_user, flashed>>

\* k_sem_give on the driver's semaphore, which the shell holds.
ShellGiveDriver ==
    /\ shell' = [shell EXCEPT !.at = "idle"]
    /\ IF writer.at = "waitDrv"
         THEN driver' = "writer" /\ writer' = [writer EXCEPT !.at = "copy"]
         ELSE driver' = "free" /\ UNCHANGED writer
    /\ UNCHANGED <<radarVars, semVars, stack_user, flashed, budget>>

\* cmd_start_recording erases the chip ...
StartErase(p) == Spend("start") /\ ShellTakeDriver(TRUE, p)

\* ... and then resets the recording without taking buffer_write_sem.
StartReset ==
    /\ shell.at = "busy" /\ shell.erasing
    /\ ShellGiveDriver
    /\ measurements' = [in_buffer |-> "A", out_buffer |-> "B", num_entries |-> 0,
                        num_pages |-> 0, max_pages |-> shell.p]
    /\ is_recording' = TRUE
    /\ session' = session + 1
    /\ accepted' = 0
    /\ UNCHANGED mem

\* One flash_read or flash_write of Dump or Test; neither stores a byte of data.
UseDriver == Spend("use") /\ ShellTakeDriver(FALSE, 0)

UseDone ==
    /\ shell.at = "busy" /\ ~shell.erasing
    /\ ShellGiveDriver
    /\ UNCHANGED dataVars

-----------------------------------------------------------------------------
Radar(r) ==
    \/ Fetched(r) \/ CheckRecording(r) \/ StopRecording(r) \/ Rested(r)
    \/ TakeBuffer(r) \/ LoadIndex(r) \/ StoreEntry(r) \/ TestFull(r)
    \/ TakeEeprom(r) \/ SwapTemp(r) \/ SwapOut(r) \/ SwapIn(r) \/ GiveEeprom(r)
    \/ SpawnWriter(r) \/ ResetEntries(r) \/ CountPage(r) \/ GiveBuffer(r)

Writer ==
    \/ WriterStart \/ WriterTakeEeprom \/ WriterTakeDriver \/ WriterCopy
    \/ WriterTransferred \/ WriterGiveEeprom \/ WriterExit

Command ==
    \/ \E n \in EnableArgs : Enable(n)
    \/ \E p \in Requests : StartErase(p)
    \/ UseDriver

Next ==
    \/ \E r \in Radars : Radar(r)
    \/ Writer
    \/ Command \/ StartReset \/ UseDone
    \/ Fault \/ WriterFault

Spec == Init /\ [][Next]_vars

\* Timers expire, ready threads of one priority run in turn, and the transfers of
\* an erase or a read end. Nobody has to type a command.
FairSpec ==
    /\ Spec
    /\ \A r \in Radars : SF_vars(Radar(r))
    /\ SF_vars(Writer)
    /\ WF_vars(StartReset \/ UseDone)

-----------------------------------------------------------------------------
(* Properties *)

\* Every variable stays in its type.
TypeOK ==
    /\ pc \in [Radars -> Labels]
    /\ suspended \subseteq Radars
    /\ cpu \in Radars \cup {NoThread}
    /\ local \in [Radars -> Locals]
    /\ measurements \in Measurements
    /\ mem \in [Buffers -> [Slots -> Entries]]
    /\ is_recording \in BOOLEAN
    /\ buffer_write_sem \in {0, 1}
    /\ eeprom_write_sem \in {0, 1}
    /\ writer \in [at : WriterLabels, buffer : Buffers, page : Nat, data : Entries]
    /\ driver \in {"free", "shell", "writer"}
    /\ shell \in [at : {"idle", "wait", "busy"}, erasing : BOOLEAN, p : Nat]
    /\ stack_user \in {StackMate, "writer"}
    /\ budget \in [enable : Nat, start : Nat, use : Nat]
    /\ session \in Nat
    /\ accepted \in Nat
    /\ flashed \in Seq(PageWrites)

\* Only one thread is in the section of save_distance that buffer_write_sem
\* protects, and none waits for the semaphore while it is free, wherever a
\* thread was suspended and whatever the shell reset in between.
SectionExclusive ==
    /\ \A r, q \in Radars : pc[r] \in Critical /\ pc[q] \in Critical => r = q
    /\ buffer_write_sem = 1 => \A r \in Radars : pc[r] \notin Critical \cup {"waitBuf"}

\* The semaphore is never lost: when its count is 0 a thread holds it, unless
\* the overwritten stack killed that thread.
NoLostSemaphore ==
    buffer_write_sem = 0 => \E r \in Radars : pc[r] \in Critical \cup {"dead"}

\* The pointers are never swapped, by whatever interleaving, while the writer
\* is between its take and its give of eeprom_write_sem.
SwapExclusive ==
    \A r \in Radars : pc[r] \in Swapping =>
        /\ writer.at \notin {"drv", "waitDrv", "copy", "xfer", "give"}
        /\ eeprom_write_sem = 0

\* in_buffer is never indexed past its end, although Start resets the count in
\* the middle of save_distance.
EntryBound ==
    /\ measurements.num_entries <= PageEntries
    /\ \A r \in Radars : pc[r] = "store" => local[r].idx \in Slots

\* k_thread_create never restarts a writer that has its page still to write, or
\* eeprom_write_sem still to give, however long the driver and the bus keep it
\* waiting and however many pages fill meanwhile.
RespawnLosesNothing ==
    [][\A r \in Radars :
           pc[r] = "spawn" /\ pc'[r] = "reset" =>
               writer.at \in {"none", "exit", "dead"}]_vars

\* Until the writer has copied the page, the buffer it was given holds the
\* consecutive entries of one page of one recording.
PageUnchanged ==
    writer.at \in {"take", "waitEe", "drv", "waitDrv", "copy"} =>
        LET first == mem[writer.buffer][0]
        IN  /\ first.n % PageEntries = 1 % PageEntries
            /\ \A s \in Slots : mem[writer.buffer][s] = [first EXCEPT !.n = @ + s]

\* "The operation stops until p pages of EEPROM are filled" (README:39): no page
\* is counted, and no entry accepted, beyond the p pages asked for.
StopsAfterPages ==
    /\ measurements.num_pages <= measurements.max_pages
    /\ accepted <= measurements.max_pages * PageEntries

\* The entries that belong to the pages asked for; StopsAfterPages is about others.
PageData ==
    LET all == measurements.max_pages * PageEntries
    IN  IF accepted < all THEN accepted ELSE all

\* The promise of PageLog for those entries. The README's first page is 0; the
\* code's is 1, for the writer reads num_pages, by way of *page (line 136), after
\* the page it is to write was counted (line 117).
Log == INSTANCE PageLog WITH
    FirstPage <- 1,
    limit <- measurements.max_pages,
    accepted <- PageData,
    sealed <- measurements.num_pages,
    log <- [i \in DOMAIN flashed |->
               [page |-> flashed[i].page, first |-> flashed[i].data.n]]


\* A recording of the enabled sensor ends for good, with all its pages and no other
\* in the EEPROM (until the next Start, of which the run that checks this has none).
RecordingCompletes ==
    (is_recording /\ "hcsr0" \notin suspended) ~>
        [](~is_recording /\ Len(flashed) = measurements.max_pages)
=============================================================================
