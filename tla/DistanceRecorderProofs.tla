----------------------- MODULE DistanceRecorderProofs -----------------------
(***************************************************************************)
(* The distance recorder for every page size and every request.             *)
(*                                                                         *)
(* First what is safe for every number of commands: with the shell          *)
(* suspending and resetting at any statement, a writer that may be slow,    *)
(* transfers that may fail, and a thread whose stack was overwritten dying  *)
(* where it is.                                                             *)
(*                                                                         *)
(* Then what one recording achieves however long a page takes to write,     *)
(* provided a new writer begins before the next sample: the writer is never *)
(* created again while it has work, it finds the page as it was filled, and *)
(* if the sensors stay enabled the EEPROM receives the pages PageLog        *)
(* promises, numbered from 1.                                               *)
(***************************************************************************)
EXTENDS DistanceRecorder, TLAPS

LEMMA PageEntriesPositive == PageEntries \in Nat /\ PageEntries > 0 /\ 0 \in Slots
BY PageEntriesAssumption DEF Slots

(* What a step of a radar thread does to the variables Step determines. *)
LEMMA StepTyped ==
    ASSUME TypeOK, NEW r \in Radars, NEW l \in Labels, NEW next \in Labels,
           Step(r, l, next)
    PROVE  /\ pc' \in [Radars -> Labels]
           /\ suspended' \subseteq Radars
           /\ cpu' \in Radars \cup {NoThread}
           /\ stack_user' \in {StackMate, "writer"}
           /\ driver' \in {"free", "shell", "writer"}
           /\ shell' \in [at : {"idle", "wait", "busy"}, erasing : BOOLEAN, p : Nat]
           /\ budget' \in [enable : Nat, start : Nat, use : Nat]
           /\ flashed' \in Seq(PageWrites)
BY DEF TypeOK, Step, shellVars

(* An assignment to one local of one thread keeps the locals typed. *)
LEMMA LocalTyped ==
    ASSUME local \in [Radars -> Locals], NEW r \in Radars
    PROVE  /\ \A f \in {"idx", "pages"} : \A n \in Nat :
                  SetLocal(r, f, n) => local' \in [Radars -> Locals]
           /\ \A b \in Buffers :
                  SetLocal(r, "temp", b) => local' \in [Radars -> Locals]
           /\ \A t \in BOOLEAN :
                  SetLocal(r, "ret", t) => local' \in [Radars -> Locals]
BY DEF Locals, SetLocal

(* So does a change of the writer's program point, buffer or page. *)
Writers == [at : WriterLabels, buffer : Buffers, page : Nat, data : Entries]
LEMMA WriterTyped ==
    ASSUME TypeOK, NEW l \in WriterLabels,
           \/ writer' = [writer EXCEPT !.at = l]
           \/ writer' = [writer EXCEPT !.at = l, !.buffer = measurements.out_buffer]
           \/ writer' = [writer EXCEPT !.at = l, !.page = measurements.num_pages]
    PROVE  writer' \in Writers
BY DEF TypeOK, Writers, Measurements

(* So does an assignment to one field of measurements. *)
LEMMA SetTyped ==
    ASSUME measurements \in Measurements, NEW n \in Nat, NEW b \in Buffers
    PROVE  /\ \A f \in {"num_entries", "num_pages"} :
                  Set(f, n) => measurements' \in Measurements
           /\ \A f \in {"in_buffer", "out_buffer"} :
                  Set(f, b) => measurements' \in Measurements
BY DEF Set, Measurements

LEMMA FieldsTyped ==
    ASSUME TypeOK, NEW r \in Radars
    PROVE  /\ measurements.num_entries \in Nat /\ measurements.num_pages \in Nat
           /\ measurements.in_buffer \in Buffers /\ measurements.out_buffer \in Buffers
           /\ local[r].idx \in Nat /\ local[r].pages \in Nat
           /\ local[r].idx + 1 \in Nat /\ local[r].pages + 1 \in Nat
           /\ local[r].temp \in Buffers
BY DEF TypeOK, Measurements, Locals

(* A command spent leaves the budgets natural numbers. *)
LEMMA SpendTyped ==
    ASSUME budget \in [enable : Nat, start : Nat, use : Nat],
           NEW what \in {"enable", "start", "use"}, Spend(what)
    PROVE  budget' \in [enable : Nat, start : Nat, use : Nat]
BY DEF Spend

(* Every variable keeps its type. *)
THEOREM Typing == Spec => []TypeOK
<1>1. Init => TypeOK
  <2> SUFFICES ASSUME Init PROVE TypeOK
    OBVIOUS
  <2>1. /\ pc \in [Radars -> Labels]
        /\ suspended \subseteq Radars
        /\ cpu \in Radars \cup {NoThread}
    BY DEF Init, Labels
  <2>2. local \in [Radars -> Locals]
    BY DEF Init, Buffers, Locals
  <2>3. /\ measurements \in Measurements
        /\ mem \in [Buffers -> [Slots -> Entries]]
    BY DEF Init, Buffers, Blank, Entries, Measurements
  <2>4. writer \in [at : WriterLabels, buffer : Buffers, page : Nat, data : Entries]
    BY DEF Init, Buffers, Blank, Entries, WriterLabels
  <2>5. budget \in [enable : Nat, start : Nat, use : Nat]
    BY BoundsAssumption DEF Init
  <2>6. flashed \in Seq(PageWrites)
    BY DEF Init
  <2>7. shell \in [at : {"idle", "wait", "busy"}, erasing : BOOLEAN, p : Nat]
    BY DEF Init
  <2> QED BY <2>1, <2>2, <2>3, <2>4, <2>5, <2>6, <2>7 DEF Init, TypeOK
<1>2. TypeOK /\ [Next]_vars => TypeOK'
  <2> SUFFICES ASSUME TypeOK, [Next]_vars PROVE TypeOK'
    OBVIOUS
  <2> USE DEF TypeOK, Labels, Critical, Filling, Swapping, Sealing
  <2>1. ASSUME NEW r \in Radars, Fetched(r) \/ Rested(r) PROVE TypeOK'
    BY <2>1 DEF Fetched, Rested, dataVars, sessionVars, semVars, writerVars, shellVars
  <2>2. ASSUME NEW r \in Radars,
               CheckRecording(r) \/ StopRecording(r) \/ TestFull(r)
        PROVE  TypeOK'
    BY <2>2, StepTyped DEF CheckRecording, StopRecording, TestFull, dataVars,
                          sessionVars, semVars
  <2>3. ASSUME NEW r \in Radars, TakeBuffer(r) \/ TakeEeprom(r) PROVE TypeOK'
    <3>1. local' \in [Radars -> Locals]
      BY <2>3, LocalTyped DEF TakeBuffer, TakeEeprom
    <3> QED BY <2>3, <3>1, StepTyped DEF TakeBuffer, TakeEeprom, dataVars,
                          sessionVars
  <2>4. ASSUME NEW r \in Radars, LoadIndex(r) \/ SwapTemp(r) PROVE TypeOK'
    <3>1. local' \in [Radars -> Locals]
      BY <2>4, LocalTyped, FieldsTyped DEF LoadIndex, SwapTemp
    <3> QED BY <2>4, <3>1, StepTyped DEF LoadIndex, SwapTemp, dataVars,
                          sessionVars, semVars
  <2>5. ASSUME NEW r \in Radars, StoreEntry(r) PROVE TypeOK'
    <3>1. [session |-> session, n |-> accepted + 1] \in Entries
      BY DEF Entries
    <3>2. mem' \in [Buffers -> [Slots -> Entries]]
      BY <2>5, <3>1 DEF StoreEntry
    <3>3. measurements' \in Measurements
      BY <2>5, SetTyped, FieldsTyped DEF StoreEntry
    <3> QED BY <2>5, <3>2, <3>3, StepTyped DEF StoreEntry, semVars
  <2>6. ASSUME NEW r \in Radars, SwapOut(r) \/ SwapIn(r) PROVE TypeOK'
    <3>1. measurements' \in Measurements
      BY <2>6, SetTyped, FieldsTyped DEF SwapOut, SwapIn
    <3> QED BY <2>6, <3>1, StepTyped DEF SwapOut, SwapIn, sessionVars, semVars
  <2>7. ASSUME NEW r \in Radars, GiveEeprom(r) \/ SpawnWriter(r) PROVE TypeOK'
    <3>1. {"drv", "start", "dead"} \subseteq WriterLabels
      BY DEF WriterLabels
    <3>2. writer' \in Writers
      <4>1. CASE writer' = writer
        BY <4>1 DEF Writers
      <4>2. CASE writer' = [writer EXCEPT !.at = "drv"]
        BY <3>1, <4>2, WriterTyped
      <4>3. CASE SpawnWriter(r)
        BY <3>1, <4>3, WriterTyped DEF SpawnWriter
      <4> QED BY <2>7, <4>1, <4>2, <4>3 DEF GiveEeprom
    <3> QED BY <2>7, <3>2, StepTyped DEF GiveEeprom, SpawnWriter, dataVars,
                          sessionVars, semVars, Writers
  <2>8. ASSUME NEW r \in Radars, ResetEntries(r) \/ CountPage(r) PROVE TypeOK'
    <3>1. local' \in [Radars -> Locals]
      <4>1. CASE ResetEntries(r)
        BY <4>1, LocalTyped, FieldsTyped DEF ResetEntries
      <4>2. CASE CountPage(r)
        <5>1. (local[r].pages + 1 = measurements.max_pages) \in BOOLEAN
          OBVIOUS
        <5> QED BY <4>2, <5>1, LocalTyped, FieldsTyped DEF CountPage
      <4> QED BY <2>8, <4>1, <4>2
    <3>2. measurements' \in Measurements
      BY <2>8, SetTyped, FieldsTyped DEF ResetEntries, CountPage
    <3> QED BY <2>8, <3>1, <3>2, StepTyped DEF ResetEntries, CountPage,
                          sessionVars, semVars
  <2>9. ASSUME NEW r \in Radars, GiveBuffer(r) PROVE TypeOK'
    <3>1. pc' \in [Radars -> Labels]
      BY <2>9 DEF GiveBuffer, HandOver
    <3> QED BY <2>9, <3>1 DEF GiveBuffer, dataVars, sessionVars, shellVars
  <2>10. CASE Fault \/ WriterFault
    BY <2>10 DEF Fault, WriterFault, radarVars, dataVars, sessionVars, semVars,
                 writerVars, shellVars, WriterLabels
  <2>11. CASE WriterStart \/ WriterTakeEeprom \/ WriterTakeDriver \/ WriterExit
    <3>1. {"take", "drv", "waitEe", "copy", "waitDrv", "none"} \subseteq WriterLabels
      BY DEF WriterLabels
    <3>2. writer' \in Writers
      <4>1. CASE WriterStart
        BY <3>1, <4>1, WriterTyped DEF WriterStart
      <4>2. CASE WriterTakeEeprom
        BY <3>1, <4>2, WriterTyped DEF WriterTakeEeprom, WriterStep
      <4>3. CASE WriterTakeDriver
        BY <3>1, <4>3, WriterTyped DEF WriterTakeDriver, WriterStep
      <4>4. CASE WriterExit
        BY <3>1, <4>4, WriterTyped DEF WriterExit, WriterStep
      <4> QED BY <2>11, <4>1, <4>2, <4>3, <4>4
    <3> QED BY <2>11, <3>2 DEF WriterStart, WriterTakeEeprom, WriterTakeDriver,
                 WriterExit, WriterStep, WriterRuns, radarVars, dataVars,
                 sessionVars, semVars, shellVars, Writers
  <2>12. CASE WriterCopy
    <3>1. mem[writer.buffer][0] \in Entries
      BY PageEntriesPositive
    <3> QED BY <2>12, <3>1 DEF WriterCopy, WriterRuns, radarVars, dataVars,
                 sessionVars, semVars, shellVars, WriterLabels
  <2>13. CASE WriterTransferred
    <3>1. [page |-> writer.page, data |-> writer.data] \in PageWrites
      BY DEF PageWrites
    <3>2. flashed' \in Seq(PageWrites)
      <4>1. CASE flashed' = Append(flashed, [page |-> writer.page, data |-> writer.data])
        BY <3>1, <4>1
      <4>2. CASE flashed' = flashed
        BY <4>2
      <4> QED BY <2>13, <4>1, <4>2 DEF WriterTransferred
    <3> QED BY <2>13, <3>2 DEF WriterTransferred, WriterStep, WriterRuns, dataVars,
                 sessionVars, WriterLabels
  <2>14. CASE WriterGiveEeprom
    BY <2>14 DEF WriterGiveEeprom, WriterStep, WriterRuns, HandOver, dataVars,
                 sessionVars, WriterLabels
  <2>15. ASSUME NEW n \in EnableArgs, Enable(n) PROVE TypeOK'
    <3>1. n \in {"0", "1", "2"}
      BY BoundsAssumption
    <3>2. budget' \in [enable : Nat, start : Nat, use : Nat]
      BY <2>15, SpendTyped DEF Enable
    <3>3. suspended' \subseteq Radars /\ cpu' \in Radars \cup {NoThread}
      BY <2>15, <3>1 DEF Enable, Radars
    <3> QED BY <2>15, <3>2, <3>3 DEF Enable, dataVars, sessionVars, semVars,
                 writerVars
  <2>16. ASSUME NEW p \in Requests, StartErase(p) PROVE TypeOK'
    <3>1. budget' \in [enable : Nat, start : Nat, use : Nat]
      BY <2>16, SpendTyped DEF StartErase
    <3>2. shell' \in [at : {"idle", "wait", "busy"}, erasing : BOOLEAN, p : Nat]
      BY <2>16, RequestsAssumption DEF StartErase, ShellTakeDriver
    <3> QED BY <2>16, <3>1, <3>2 DEF StartErase, ShellTakeDriver, radarVars,
                 dataVars, sessionVars, semVars
  <2>17. CASE UseDriver
    <3>1. budget' \in [enable : Nat, start : Nat, use : Nat]
      BY <2>17, SpendTyped DEF UseDriver
    <3>2. shell' \in [at : {"idle", "wait", "busy"}, erasing : BOOLEAN, p : Nat]
      BY <2>17 DEF UseDriver, ShellTakeDriver
    <3> QED BY <2>17, <3>1, <3>2 DEF UseDriver, ShellTakeDriver, radarVars,
                 dataVars, sessionVars, semVars
  <2>18. CASE StartReset
    <3>1. measurements' \in Measurements
      BY <2>18 DEF StartReset, Buffers, Measurements
    <3>2. writer' \in [at : WriterLabels, buffer : Buffers, page : Nat, data : Entries]
      BY <2>18 DEF StartReset, ShellGiveDriver, WriterLabels
    <3>3. /\ shell' \in [at : {"idle", "wait", "busy"}, erasing : BOOLEAN, p : Nat]
          /\ driver' \in {"free", "shell", "writer"}
      BY <2>18 DEF StartReset, ShellGiveDriver
    <3> QED BY <2>18, <3>1, <3>2, <3>3 DEF StartReset, ShellGiveDriver, Measurements,
                 radarVars, semVars
  <2>19. CASE UseDone
    BY <2>19 DEF UseDone, ShellGiveDriver, WriterLabels, radarVars, dataVars,
                 sessionVars, semVars
  <2>20. CASE UNCHANGED vars
    BY <2>20 DEF vars, radarVars, dataVars, sessionVars, semVars, writerVars,
                 shellVars
  <2> QED
    BY <2>1, <2>2, <2>3, <2>4, <2>5, <2>6, <2>7, <2>8, <2>9, <2>10, <2>11, <2>12,
       <2>13, <2>14, <2>15, <2>16, <2>17, <2>18, <2>19, <2>20
    DEF Next, Radar, Writer, Command
<1> QED BY <1>1, <1>2, PTL DEF Spec

-----------------------------------------------------------------------------
(* Where a step of a thread in the section leads: further into the section, *)
(* with the semaphore still taken.                                          *)
Inside(r) ==
    LoadIndex(r) \/ StoreEntry(r) \/ TestFull(r) \/ TakeEeprom(r) \/ SwapTemp(r)
    \/ SwapOut(r) \/ SwapIn(r) \/ GiveEeprom(r) \/ SpawnWriter(r)
    \/ ResetEntries(r) \/ CountPage(r)

LEMMA InsideStaysInside ==
    ASSUME TypeOK, NEW r \in Radars, Inside(r)
    PROVE  /\ pc[r] \in Critical
           /\ \E l \in Critical : pc' = [pc EXCEPT ![r] = l]
           /\ buffer_write_sem' = buffer_write_sem
BY DEF Inside, LoadIndex, StoreEntry, TestFull, TakeEeprom, SwapTemp, SwapOut,
       SwapIn, GiveEeprom, SpawnWriter, ResetEntries, CountPage, Step, semVars,
       Critical, Filling, Swapping, Sealing

(* No step of the writer or of the shell moves a thread into or out of the  *)
(* section; the writer only lets one that waits for eeprom_write_sem go on. *)
Outside ==
    Writer \/ WriterFault \/ Command \/ StartReset \/ UseDone

LEMMA OutsideKeepsSection ==
    ASSUME TypeOK, Outside
    PROVE  /\ pc' = pc \/ pc' = HandOver("waitEe", "swapTemp")
           /\ buffer_write_sem' = buffer_write_sem
BY DEF Outside, Writer, WriterStart, WriterTakeEeprom, WriterTakeDriver, WriterCopy,
       WriterTransferred, WriterGiveEeprom, WriterExit, WriterStep, WriterFault,
       Command, Enable, StartErase, UseDriver, ShellTakeDriver, StartReset, UseDone,
       ShellGiveDriver, radarVars, semVars

(* save_distance keeps its section exclusive, for any interleaving of the two
   radar threads, the writer and the shell's suspensions and resets. *)
THEOREM SectionIsExclusive == Spec => []SectionExclusive
<1>1. Init => SectionExclusive
  BY DEF Init, SectionExclusive, Critical, Filling, Swapping, Sealing
<1>2. TypeOK /\ SectionExclusive /\ [Next]_vars => SectionExclusive'
  <2> SUFFICES ASSUME TypeOK, SectionExclusive, [Next]_vars PROVE SectionExclusive'
    OBVIOUS
  <2>0. pc \in [Radars -> Labels] /\ buffer_write_sem \in {0, 1}
    BY DEF TypeOK
  <2>1. ASSUME NEW r \in Radars,
               Fetched(r) \/ Rested(r) \/ CheckRecording(r) \/ StopRecording(r)
        PROVE  SectionExclusive'
    BY <2>0, <2>1 DEF Fetched, Rested, CheckRecording, StopRecording, Step, semVars,
       SectionExclusive, Critical, Filling, Swapping, Sealing
  <2>2. ASSUME NEW r \in Radars, TakeBuffer(r) PROVE SectionExclusive'
    BY <2>0, <2>2 DEF TakeBuffer, Step, SectionExclusive, Critical, Filling,
       Swapping, Sealing
  <2>3. ASSUME NEW r \in Radars, Inside(r) PROVE SectionExclusive'
    BY <2>0, <2>3, InsideStaysInside DEF SectionExclusive
  <2>4. ASSUME NEW r \in Radars, GiveBuffer(r) PROVE SectionExclusive'
    BY <2>0, <2>4 DEF GiveBuffer, HandOver, SectionExclusive, Critical, Filling,
       Swapping, Sealing, Radars
  <2>5. CASE Fault
    BY <2>0, <2>5 DEF Fault, semVars, SectionExclusive, Critical, Filling,
       Swapping, Sealing
  <2>6. CASE Outside
    BY <2>0, <2>6, OutsideKeepsSection DEF HandOver, SectionExclusive, Critical,
       Filling, Swapping, Sealing
  <2>7. CASE UNCHANGED vars
    BY <2>7 DEF vars, radarVars, semVars, SectionExclusive
  <2> QED
    BY <2>1, <2>2, <2>3, <2>4, <2>5, <2>6, <2>7 DEF Next, Radar, Inside, Outside
<1> QED BY <1>1, <1>2, Typing, PTL DEF Spec

(* buffer_write_sem is never lost but with the thread that holds it. *)
THEOREM SemaphoreIsNotLost == Spec => []NoLostSemaphore
<1>1. Init => NoLostSemaphore
  BY DEF Init, NoLostSemaphore
<1>2. TypeOK /\ NoLostSemaphore /\ [Next]_vars => NoLostSemaphore'
  <2> SUFFICES ASSUME TypeOK, NoLostSemaphore, [Next]_vars PROVE NoLostSemaphore'
    OBVIOUS
  <2>0. pc \in [Radars -> Labels] /\ buffer_write_sem \in {0, 1}
    BY DEF TypeOK
  <2>1. ASSUME NEW r \in Radars,
               Fetched(r) \/ Rested(r) \/ CheckRecording(r) \/ StopRecording(r)
        PROVE  NoLostSemaphore'
    BY <2>0, <2>1 DEF Fetched, Rested, CheckRecording, StopRecording, Step, semVars,
       NoLostSemaphore, Critical, Filling, Swapping, Sealing
  <2>2. ASSUME NEW r \in Radars, TakeBuffer(r) PROVE NoLostSemaphore'
    BY <2>0, <2>2 DEF TakeBuffer, Step, NoLostSemaphore, Critical, Filling,
       Swapping, Sealing
  <2>3. ASSUME NEW r \in Radars, Inside(r) PROVE NoLostSemaphore'
    BY <2>0, <2>3, InsideStaysInside DEF NoLostSemaphore
  <2>4. ASSUME NEW r \in Radars, GiveBuffer(r) PROVE NoLostSemaphore'
    <3>1. CASE \E q \in Radars : pc[q] = "waitBuf"
      BY <2>0, <2>4, <3>1 DEF GiveBuffer, HandOver, NoLostSemaphore, Critical,
         Filling
    <3>2. CASE ~\E q \in Radars : pc[q] = "waitBuf"
      BY <2>4, <3>2 DEF GiveBuffer, NoLostSemaphore
    <3> QED BY <3>1, <3>2
  <2>5. CASE Fault
    BY <2>0, <2>5 DEF Fault, semVars, NoLostSemaphore
  <2>6. CASE Outside
    BY <2>0, <2>6, OutsideKeepsSection DEF HandOver, NoLostSemaphore, Critical,
       Filling, Swapping
  <2>7. CASE UNCHANGED vars
    BY <2>7 DEF vars, radarVars, semVars, NoLostSemaphore
  <2> QED
    BY <2>1, <2>2, <2>3, <2>4, <2>5, <2>6, <2>7 DEF Next, Radar, Inside, Outside
<1> QED BY <1>1, <1>2, Typing, PTL DEF Spec

-----------------------------------------------------------------------------
(* EntryBound is not inductive: what makes the next index small enough is    *)
(* that a page is sealed, and the count reset, before the section is left.   *)
RoomInv ==
    /\ measurements.num_entries <= PageEntries
    /\ buffer_write_sem = 1 => measurements.num_entries < PageEntries
    /\ \A r \in Radars :
          /\ pc[r] \in {"load", "countPage", "giveBuf"} =>
                measurements.num_entries < PageEntries
          /\ pc[r] = "store" => local[r].idx < PageEntries

LEMMA RoomHolds == Spec => []RoomInv
<1>1. Init => RoomInv
  BY PageEntriesPositive DEF Init, RoomInv
<1>2. /\ TypeOK /\ SectionExclusive /\ RoomInv /\ [Next]_vars => RoomInv'
  <2> SUFFICES ASSUME TypeOK, SectionExclusive, RoomInv, [Next]_vars PROVE RoomInv'
    OBVIOUS
  <2>0. /\ pc \in [Radars -> Labels] /\ buffer_write_sem \in {0, 1}
        /\ measurements \in Measurements
        /\ local \in [Radars -> Locals]
        /\ PageEntries \in Nat /\ PageEntries > 0
    BY PageEntriesPositive DEF TypeOK
  <2>1. ASSUME NEW r \in Radars,
               Fetched(r) \/ Rested(r) \/ CheckRecording(r) \/ StopRecording(r)
        PROVE  RoomInv'
    BY <2>0, <2>1 DEF Fetched, Rested, CheckRecording, StopRecording, Step, semVars,
       dataVars, RoomInv
  <2>2. ASSUME NEW r \in Radars, TakeBuffer(r) PROVE RoomInv'
    BY <2>0, <2>2 DEF TakeBuffer, SetLocal, Step, dataVars, RoomInv
  <2>3. ASSUME NEW r \in Radars, LoadIndex(r) PROVE RoomInv'
    BY <2>0, <2>3 DEF LoadIndex, SetLocal, Step, dataVars, semVars, RoomInv,
       Locals, Measurements
  <2>4. ASSUME NEW r \in Radars, StoreEntry(r) PROVE RoomInv'
    <3>1. /\ \A q \in Radars \ {r} : pc'[q] \notin Critical
          /\ pc'[r] = "test" /\ buffer_write_sem' = 0
      BY <2>0, <2>4 DEF StoreEntry, Step, semVars, SectionExclusive, Critical, Filling
    <3>2. measurements'.num_entries = local[r].idx + 1
      BY <2>0, <2>4 DEF StoreEntry, Set, Measurements
    <3>3. local[r].idx \in Nat /\ local[r].idx < PageEntries
      BY <2>0, <2>4 DEF StoreEntry, Step, RoomInv, Locals
    <3> QED BY <2>0, <3>1, <3>2, <3>3 DEF RoomInv, Critical, Filling, Sealing
  <2>5. ASSUME NEW r \in Radars, TestFull(r) PROVE RoomInv'
    <3>1. measurements.num_entries \in Nat
      BY <2>0 DEF Measurements
    <3> QED BY <2>0, <2>5, <3>1 DEF TestFull, Step, dataVars, semVars, RoomInv
  <2>6. ASSUME NEW r \in Radars, TakeEeprom(r) \/ GiveEeprom(r) \/ SpawnWriter(r)
        PROVE  RoomInv'
    BY <2>0, <2>6 DEF TakeEeprom, GiveEeprom, SpawnWriter, Step, dataVars, semVars,
       RoomInv
  <2>7. ASSUME NEW r \in Radars, SwapTemp(r) PROVE RoomInv'
    BY <2>0, <2>7 DEF SwapTemp, SetLocal, Step, dataVars, semVars, RoomInv, Locals
  <2>8. ASSUME NEW r \in Radars, SwapOut(r) \/ SwapIn(r) PROVE RoomInv'
    BY <2>0, <2>8 DEF SwapOut, SwapIn, Set, Step, semVars, RoomInv, Measurements
  <2>9. ASSUME NEW r \in Radars, ResetEntries(r) PROVE RoomInv'
    BY <2>0, <2>9 DEF ResetEntries, Set, SetLocal, Step, semVars, RoomInv,
       Measurements, Locals
  <2>10. ASSUME NEW r \in Radars, CountPage(r) PROVE RoomInv'
    BY <2>0, <2>10 DEF CountPage, Set, SetLocal, Step, semVars, RoomInv,
       Measurements, Locals
  <2>11. ASSUME NEW r \in Radars, GiveBuffer(r) PROVE RoomInv'
    BY <2>0, <2>11 DEF GiveBuffer, HandOver, dataVars, RoomInv
  <2>12. CASE Fault
    BY <2>0, <2>12 DEF Fault, dataVars, semVars, RoomInv
  <2>13. CASE Writer \/ WriterFault \/ Command \/ UseDone
    <3>1. UNCHANGED <<measurements, local>>
      BY <2>13 DEF Writer, WriterStart, WriterTakeEeprom, WriterTakeDriver,
         WriterCopy, WriterTransferred, WriterGiveEeprom, WriterExit, WriterStep,
         WriterFault, Command, Enable, StartErase, UseDriver, ShellTakeDriver,
         UseDone, ShellGiveDriver, radarVars, dataVars
    <3>2. /\ pc' = pc \/ pc' = HandOver("waitEe", "swapTemp")
          /\ buffer_write_sem' = buffer_write_sem
      BY <2>13, OutsideKeepsSection DEF Outside
    <3> QED BY <2>0, <3>1, <3>2 DEF HandOver, RoomInv
  <2>14. CASE StartReset
    BY <2>0, <2>14 DEF StartReset, ShellGiveDriver, radarVars, semVars, RoomInv
  <2>15. CASE UNCHANGED vars
    BY <2>15 DEF vars, radarVars, dataVars, semVars, RoomInv
  <2> QED
    BY <2>1, <2>2, <2>3, <2>4, <2>5, <2>6, <2>7, <2>8, <2>9, <2>10, <2>11, <2>12,
       <2>13, <2>14, <2>15 DEF Next, Radar
<1> QED BY <1>1, <1>2, Typing, SectionIsExclusive, PTL DEF Spec

(* The index of in_buffer stays inside it, whenever Start resets the count. *)
THEOREM IndexIsInBounds == Spec => []EntryBound
<1>1. TypeOK /\ RoomInv => EntryBound
  BY PageEntriesPositive DEF TypeOK, RoomInv, EntryBound, Slots, Locals
<1> QED BY <1>1, Typing, RoomHolds, PTL

-----------------------------------------------------------------------------
(* The buffers are never swapped while the writer holds eeprom_write_sem,   *)
(* even when the one writer thread is created again before it has ended.    *)
Writing == {"drv", "waitDrv", "copy", "xfer", "give"}
EepromInv ==
    /\ SwapExclusive
    /\ writer.at \in Writing => eeprom_write_sem = 0

THEOREM SwapIsExclusive == Spec => []SwapExclusive
<1>1. Init => EepromInv
  BY DEF Init, EepromInv, SwapExclusive, Swapping, Writing
<1>2. /\ TypeOK /\ SectionExclusive /\ EepromInv /\ [Next]_vars => EepromInv'
  <2> SUFFICES ASSUME TypeOK, SectionExclusive, EepromInv, [Next]_vars
               PROVE  EepromInv'
    OBVIOUS
  <2>0. /\ pc \in [Radars -> Labels] /\ eeprom_write_sem \in {0, 1}
        /\ writer \in Writers
    BY DEF TypeOK, Writers
  <2> USE DEF EepromInv, SwapExclusive, Swapping, Writing
  <2>1. ASSUME NEW r \in Radars,
               \/ Fetched(r) \/ Rested(r) \/ CheckRecording(r) \/ StopRecording(r)
               \/ TakeBuffer(r) \/ LoadIndex(r) \/ StoreEntry(r) \/ TestFull(r) \/ SwapTemp(r)
               \/ SwapOut(r) \/ SwapIn(r) \/ ResetEntries(r) \/ CountPage(r)
        PROVE  EepromInv'
    BY <2>0, <2>1 DEF Fetched, Rested, CheckRecording, StopRecording, TakeBuffer,
       LoadIndex, StoreEntry, TestFull, SwapTemp, SwapOut, SwapIn, ResetEntries,
       CountPage, Step, semVars, writerVars
  <2>2. ASSUME NEW r \in Radars, TakeEeprom(r) PROVE EepromInv'
    BY <2>0, <2>2 DEF TakeEeprom, Step
  <2>3. ASSUME NEW r \in Radars, GiveEeprom(r) PROVE EepromInv'
    <3>1. \A q \in Radars : pc'[q] \notin Swapping
      BY <2>0, <2>3 DEF GiveEeprom, Step, SectionExclusive, Critical
    <3> QED BY <2>0, <2>3, <3>1 DEF GiveEeprom, Step, Writers
  <2>4. ASSUME NEW r \in Radars, SpawnWriter(r) PROVE EepromInv'
    <3>1. writer'.at \in {"start", "dead"}
      BY <2>0, <2>4 DEF SpawnWriter, Writers
    <3> QED BY <2>0, <2>4, <3>1 DEF SpawnWriter, Step, semVars
  <2>5. ASSUME NEW r \in Radars, GiveBuffer(r) PROVE EepromInv'
    BY <2>0, <2>5 DEF GiveBuffer, HandOver
  <2>6. CASE Fault
    BY <2>0, <2>6 DEF Fault, semVars, writerVars
  <2>7. CASE WriterStart \/ WriterExit \/ WriterFault
    BY <2>0, <2>7 DEF WriterStart, WriterExit, WriterFault, WriterStep, radarVars,
       semVars, Writers
  <2>8. CASE WriterTakeEeprom
    BY <2>0, <2>8 DEF WriterTakeEeprom, WriterStep, Writers
  <2>9. CASE WriterTakeDriver \/ WriterCopy \/ WriterTransferred
    BY <2>0, <2>9 DEF WriterTakeDriver, WriterCopy, WriterTransferred, WriterStep,
       WriterRuns, radarVars, semVars, Writers
  <2>10. CASE WriterGiveEeprom
    BY <2>0, <2>10 DEF WriterGiveEeprom, WriterStep, WriterRuns, HandOver, Writers
  <2>11. CASE Command
    BY <2>0, <2>11 DEF Command, Enable, StartErase, UseDriver, ShellTakeDriver,
       radarVars, semVars, writerVars
  <2>12. CASE StartReset \/ UseDone
    BY <2>0, <2>12 DEF StartReset, UseDone, ShellGiveDriver, radarVars, semVars,
       Writers
  <2>13. CASE UNCHANGED vars
    BY <2>13 DEF vars, radarVars, semVars, writerVars
  <2> QED
    BY <2>1, <2>2, <2>3, <2>4, <2>5, <2>6, <2>7, <2>8, <2>9, <2>10, <2>11, <2>12,
       <2>13 DEF Next, Radar, Writer
<1>3. EepromInv => SwapExclusive
  BY DEF EepromInv
<1> QED BY <1>1, <1>2, <1>3, Typing, SectionIsExclusive, PTL DEF Spec

-----------------------------------------------------------------------------
(* One recording *)

\* The recording that is considered: Start is given once, a new writer has begun
\* before a radar thread fetches its next sample, and no thread dies of the frames
\* the other left on its stack. How long the writer then takes is left open. Two
\* threads that share a buffer of one entry would fill it while the writer is
\* created.
OneRecording ==
    /\ MaxStarts <= 1
    /\ PromptWriter
    /\ ~FatalOverlap
    /\ PageEntries > 1

Erasing == shell.at # "idle" /\ shell.erasing

\* Before Start has reset the recording no thread gets past its test of
\* is_recording, and after it no Start is left that could reset it again.
SessionInv ==
    /\ budget.start + session <= 1
    /\ Erasing => budget.start + session = 0
    /\ writer.at # "dead" /\ \A r \in Radars : pc[r] # "dead"
    /\ session = 0 =>
          /\ ~is_recording
          /\ \A r \in Radars : pc[r] \in {"rest", "fetch", "check"}
          /\ writer.at = "none"
          /\ measurements = [in_buffer |-> "A", out_buffer |-> "B",
                             num_entries |-> 0, num_pages |-> 0, max_pages |-> 0]
          /\ accepted = 0
          /\ flashed = <<>>

-----------------------------------------------------------------------------
(* What each party leaves alone *)

LEMMA RadarFrame ==
    ASSUME NEW r \in Radars, Radar(r)
    PROVE  UNCHANGED <<suspended, driver, flashed, shell, budget, session>>
BY DEF Radar, Fetched, Rested, CheckRecording, StopRecording, TakeBuffer, LoadIndex,
       StoreEntry, TestFull, TakeEeprom, SwapTemp, SwapOut, SwapIn, GiveEeprom,
       SpawnWriter, ResetEntries, CountPage, GiveBuffer, Step, dataVars, sessionVars,
       writerVars, shellVars

LEMMA WriterFrame ==
    ASSUME Writer
    PROVE  /\ UNCHANGED <<suspended, cpu, local, measurements, mem, is_recording,
                          session, accepted, buffer_write_sem, budget>>
           /\ pc' = pc \/ pc' = HandOver("waitEe", "swapTemp")
           /\ writer.at # "none"
           /\ \/ shell' = shell
              \/ shell.at = "wait" /\ shell' = [shell EXCEPT !.at = "busy"]
BY DEF Writer, WriterStart, WriterTakeEeprom, WriterTakeDriver, WriterCopy,
       WriterTransferred, WriterGiveEeprom, WriterExit, WriterStep, WriterRuns,
       radarVars, dataVars, sessionVars, semVars, shellVars

LEMMA CommandFrame ==
    ASSUME Command
    PROVE  UNCHANGED <<pc, local, measurements, mem, is_recording, session, accepted,
                       buffer_write_sem, eeprom_write_sem, writer, stack_user, flashed>>
BY DEF Command, Enable, StartErase, UseDriver, ShellTakeDriver, radarVars, dataVars,
       sessionVars, semVars, writerVars

\* The shell gives the driver to the writer that waits for it.
LEMMA GiveDriverFrame ==
    ASSUME UseDone \/ StartReset
    PROVE  /\ UNCHANGED <<pc, suspended, cpu, local, mem, buffer_write_sem,
                          eeprom_write_sem, stack_user, flashed, budget>>
           /\ \/ writer' = writer
              \/ writer.at = "waitDrv" /\ writer' = [writer EXCEPT !.at = "copy"]
           /\ shell' = [shell EXCEPT !.at = "idle"]
BY DEF UseDone, StartReset, ShellGiveDriver, radarVars, semVars, dataVars, sessionVars

-----------------------------------------------------------------------------
(* One recording *)

LEMMA InitSession == OneRecording /\ Init => SessionInv
BY BoundsAssumption DEF OneRecording, Init, SessionInv, Erasing

LEMMA NextSession ==
    ASSUME OneRecording, TypeOK, SessionInv, [Next]_vars
    PROVE  SessionInv'
<1>0. /\ pc \in [Radars -> Labels] /\ session \in Nat
      /\ budget \in [enable : Nat, start : Nat, use : Nat]
      /\ shell \in [at : {"idle", "wait", "busy"}, erasing : BOOLEAN, p : Nat]
      /\ writer \in Writers
  BY DEF TypeOK, Writers
<1>1. ASSUME NEW r \in Radars, Radar(r) PROVE SessionInv'
  <2>1. UNCHANGED <<flashed, shell, budget, session>>
    BY <1>1, RadarFrame
  <2>2. writer'.at # "dead" /\ \A q \in Radars : pc'[q] # "dead"
    BY <1>0, <1>1 DEF Radar, Fetched, Rested, CheckRecording, StopRecording, TakeBuffer,
       LoadIndex, StoreEntry, TestFull, TakeEeprom, SwapTemp, SwapOut, SwapIn,
       GiveEeprom, SpawnWriter, ResetEntries, CountPage, GiveBuffer, HandOver, Step,
       writerVars, SessionInv, Writers, OneRecording
  <2>3. CASE session = 0
    <3>1. Fetched(r) \/ Rested(r) \/ CheckRecording(r)
      BY <1>1, <2>3 DEF Radar, StopRecording, TakeBuffer, LoadIndex, StoreEntry,
         TestFull, TakeEeprom, SwapTemp, SwapOut, SwapIn, GiveEeprom, SpawnWriter,
         ResetEntries, CountPage, GiveBuffer, Step, SessionInv
    <3>2. UNCHANGED <<is_recording, writer, measurements, accepted>>
      BY <3>1 DEF Fetched, Rested, CheckRecording, dataVars, sessionVars, writerVars
    <3>3. \A q \in Radars : pc'[q] \in {"rest", "fetch", "check"}
      BY <1>0, <2>3, <3>1 DEF Fetched, Rested, CheckRecording, Step, SessionInv
    <3> QED BY <2>1, <2>2, <2>3, <3>2, <3>3 DEF SessionInv, Erasing
  <2>4. CASE session # 0
    BY <2>1, <2>2, <2>4 DEF SessionInv, Erasing
  <2> QED BY <2>3, <2>4
<1>2. CASE Writer
  <2>1. UNCHANGED <<session, budget>> /\ session # 0
    BY <1>2, WriterFrame DEF SessionInv
  <2>2. Erasing' => Erasing
    BY <1>0, <1>2, WriterFrame DEF Erasing
  <2>3. \A q \in Radars : pc'[q] # "dead"
    BY <1>0, <1>2, WriterFrame DEF HandOver, SessionInv
  <2>4. writer'.at # "dead"
    BY <1>0, <1>2 DEF Writer, WriterStart, WriterTakeEeprom, WriterTakeDriver,
       WriterCopy, WriterTransferred, WriterGiveEeprom, WriterExit, WriterStep, Writers
  <2> QED BY <2>1, <2>2, <2>3, <2>4 DEF SessionInv
<1>3. CASE Command
  <2>1. UNCHANGED <<pc, measurements, is_recording, session, accepted, writer, flashed>>
    BY <1>3, CommandFrame
  <2>2. budget'.start + session <= 1
    BY <1>0, <1>3 DEF Command, Enable, StartErase, UseDriver, ShellTakeDriver, Spend,
       SessionInv
  <2>3. Erasing' => budget'.start + session = 0
    <3>1. CASE \E p \in Requests : StartErase(p)
      BY <1>0, <3>1 DEF StartErase, ShellTakeDriver, Spend, SessionInv
    <3>2. CASE ~\E p \in Requests : StartErase(p)
      <4>1. Erasing' => Erasing
        BY <1>3, <3>2 DEF Command, Enable, UseDriver, ShellTakeDriver, Erasing
      <4>2. budget'.start = budget.start
        BY <1>0, <1>3, <3>2 DEF Command, Enable, UseDriver, ShellTakeDriver, Spend
      <4> QED BY <4>1, <4>2 DEF SessionInv
    <3> QED BY <3>1, <3>2
  <2> QED BY <2>1, <2>2, <2>3 DEF SessionInv
<1>4. CASE StartReset
  <2>1. budget'.start = 0 /\ session' = 1 /\ shell'.at = "idle"
    BY <1>0, <1>4, GiveDriverFrame DEF StartReset, SessionInv, Erasing
  <2>2. writer'.at # "dead" /\ \A q \in Radars : pc'[q] # "dead"
    BY <1>0, <1>4, GiveDriverFrame DEF SessionInv, Writers
  <2> QED BY <2>1, <2>2 DEF SessionInv, Erasing
<1>5. CASE UseDone
  <2>1. UNCHANGED <<pc, budget, flashed, measurements, is_recording, session, accepted>>
    BY <1>5, GiveDriverFrame DEF UseDone, dataVars, sessionVars
  <2>2. shell'.at = "idle" /\ writer'.at # "dead"
        /\ (writer.at = "none" => writer' = writer)
    BY <1>0, <1>5, GiveDriverFrame DEF SessionInv, Writers
  <2> QED BY <2>1, <2>2 DEF SessionInv, Erasing
<1>6. CASE UNCHANGED vars
  BY <1>6 DEF vars, radarVars, dataVars, sessionVars, writerVars, shellVars, SessionInv,
     Erasing
<1> QED
  BY <1>1, <1>2, <1>3, <1>4, <1>5, <1>6 DEF Next, OneRecording, Fault, WriterFault

-----------------------------------------------------------------------------
(* Entries and pages *)

\* How many entries k pages have.
Pages(k) == k * PageEntries

LEMMA PagesAdd ==
    /\ Pages(0) = 0
    /\ \A k \in Nat : Pages(k) \in Nat /\ Pages(k + 1) = Pages(k) + PageEntries
BY PageEntriesPositive DEF Pages

\* A thread that may still store an entry before it rests again.
Pending == {"fetch", "check", "takeBuf", "waitBuf", "load", "store"}
Owes(r) == IF pc[r] \in Pending THEN 1 ELSE 0
Owed == Owes("hcsr0") + Owes("hcsr1")

\* Where the thread in the section has a full page in hand.
FullPage == {"takeEe", "waitEe", "spawn", "reset"} \cup Swapping

\* While a new writer has not yet had its turn for eeprom_write_sem, the next page
\* receives at most the sample of the thread that did not create the writer.
PageInv ==
    /\ \A r \in Radars : pc[r] \in FullPage => measurements.num_entries = PageEntries
    /\ writer.at \in {"start", "take"} /\ (\A r \in Radars : pc[r] # "reset") =>
          measurements.num_entries + Owed <= 1

\* So the semaphore keeps the order of the pages: the writer never waits for it,
\* and a radar thread that seals a page passes only when the writer has given it.
TurnInv ==
    /\ writer.at # "waitEe"
    /\ writer.at \in Writing => eeprom_write_sem = 0
    /\ eeprom_write_sem = 0 =>
          writer.at \in Writing \/ \E r \in Radars : pc[r] \in Swapping
    /\ \A r \in Radars : /\ pc[r] = "waitEe" => writer.at \in Writing
                         /\ pc[r] \in Swapping \cup {"spawn"} =>
                               writer.at \in {"none", "exit"}

\* The entries accepted are those of the pages counted and those in in_buffer.
CountInv ==
    /\ \A r \in Radars : pc[r] = "store" => local[r].idx = measurements.num_entries
    /\ \A r \in Radars : pc[r] = "countPage" =>
          /\ measurements.num_entries = 0
          /\ local[r].pages = measurements.num_pages
          /\ accepted = Pages(measurements.num_pages + 1)
    /\ (\A r \in Radars : pc[r] # "countPage") =>
          accepted = Pages(measurements.num_pages) + measurements.num_entries

\* Of a step that moves one thread, what the two threads then owe.
LEMMA OwedMoves ==
    ASSUME TypeOK, NEW r \in Radars, \A q \in Radars \ {r} : pc'[q] = pc[q]
    PROVE  /\ Owed \in 0 .. 2 /\ Owed' \in 0 .. 2
           /\ Owed' = Owed - Owes(r) + Owes(r)'
BY DEF Owed, Owes, Radars

LEMMA InitPage == Init => PageInv /\ TurnInv /\ CountInv
BY PagesAdd DEF Init, PageInv, TurnInv, CountInv, FullPage, Swapping, Writing

LEMMA NextPage ==
    ASSUME OneRecording, TypeOK, SectionExclusive, RoomInv, SessionInv, PageInv,
           TurnInv, CountInv, [Next]_vars
    PROVE  PageInv'
<1>0. /\ pc \in [Radars -> Labels] /\ measurements \in Measurements
      /\ local \in [Radars -> Locals] /\ writer \in Writers
      /\ PageEntries \in Nat /\ PageEntries > 1
      /\ measurements.num_entries \in Nat /\ Owed \in 0 .. 2
  BY PageEntriesPositive DEF TypeOK, Writers, Measurements, OneRecording, Owed, Owes
<1> DEFINE n == measurements.num_entries
           New == writer.at \in {"start", "take"}
\* A step of one thread that makes it owe no more and hands it no page.
<1>1. ASSUME NEW r \in Radars, NEW l \in Labels, NEW next \in Labels,
             pc[r] = l, pc' = [pc EXCEPT ![r] = next],
             measurements'.num_entries = n, New' => New,
             next \in Pending => l \in Pending,
             next \in FullPage => l \in FullPage \/ n = PageEntries,
             l # "reset", next # "reset"
      PROVE  PageInv'
  <2>1. /\ \A q \in Radars \ {r} : pc'[q] = pc[q]
        /\ pc[r] = l /\ pc'[r] = next
    BY <1>0, <1>1
  <2>2. Owed' <= Owed /\ Owed' \in Nat
    BY <1>1, <2>1, OwedMoves DEF Owes
  <2>3. New' /\ (\A q \in Radars : pc'[q] # "reset") => n' + Owed' <= 1
    BY <1>0, <1>1, <2>1, <2>2 DEF PageInv
  <2> QED BY <1>1, <2>1, <2>3 DEF PageInv
<1>2. ASSUME NEW r \in Radars, Fetched(r) PROVE PageInv'
  BY <1>0, <1>1, <1>2 DEF Fetched, dataVars, writerVars, Pending, FullPage, Swapping,
     Labels, Critical
<1>3. ASSUME NEW r \in Radars, Rested(r) PROVE PageInv'
  <2>1. /\ \A q \in Radars \ {r} : pc'[q] = pc[q]
        /\ pc'[r] = "fetch" /\ UNCHANGED <<measurements, writer>> /\ ~New
    BY <1>0, <1>3 DEF Rested, OneRecording, dataVars, writerVars
  <2> QED BY <2>1 DEF PageInv, FullPage, Swapping
<1>4. ASSUME NEW r \in Radars,
             \/ CheckRecording(r) \/ StopRecording(r) \/ TakeBuffer(r) \/ LoadIndex(r)
             \/ TakeEeprom(r) \/ SwapTemp(r)
      PROVE  PageInv'
  BY <1>0, <1>1, <1>4 DEF CheckRecording, StopRecording, TakeBuffer, LoadIndex,
     TakeEeprom, SwapTemp, Step, dataVars, Pending, FullPage, Swapping, Labels,
     Critical, Filling, Sealing
<1>5. ASSUME NEW r \in Radars, StoreEntry(r) PROVE PageInv'
  <2>1. /\ \A q \in Radars \ {r} : pc'[q] = pc[q]
        /\ pc[r] = "store" /\ pc'[r] = "test" /\ UNCHANGED writer
    BY <1>0, <1>5 DEF StoreEntry, Step
  <2>2. n' = n + 1
    BY <1>0, <1>5, <2>1 DEF StoreEntry, Set, CountInv, Measurements
  <2>3. Owed' = Owed - 1
    BY <2>1, OwedMoves DEF Owes, Pending
  <2>4. \A q \in Radars : pc'[q] \notin FullPage
    BY <1>0, <2>1 DEF SectionExclusive, Critical, Filling, Sealing, Swapping, FullPage
  <2> QED BY <1>0, <2>1, <2>2, <2>3, <2>4 DEF PageInv, FullPage
<1>6. ASSUME NEW r \in Radars, TestFull(r) PROVE PageInv'
  <2>1. n >= PageEntries => n = PageEntries
    BY <1>0 DEF RoomInv
  <2> QED
    BY <1>0, <1>1, <1>6, <2>1 DEF TestFull, Step, dataVars, Pending, FullPage, Swapping,
       Labels, Critical, Filling, Sealing
<1>7. ASSUME NEW r \in Radars, SwapOut(r) \/ SwapIn(r) \/ CountPage(r) PROVE PageInv'
  <2>1. n' = n /\ UNCHANGED writer
    BY <1>0, <1>7 DEF SwapOut, SwapIn, CountPage, Set, Measurements
  <2> QED
    BY <1>0, <1>1, <1>7, <2>1 DEF SwapOut, SwapIn, CountPage, Step, Pending, FullPage,
       Swapping, Labels, Critical, Filling, Sealing
<1>8. ASSUME NEW r \in Radars, GiveEeprom(r) PROVE PageInv'
  <2>1. (New' => New) /\ UNCHANGED measurements
    BY <1>0, <1>8 DEF GiveEeprom, dataVars, Writers
  <2> QED
    BY <1>0, <1>1, <1>8, <2>1 DEF GiveEeprom, Step, Pending, FullPage, Swapping, Labels,
       Critical, Filling, Sealing
<1>9. ASSUME NEW r \in Radars, SpawnWriter(r) PROVE PageInv'
  <2>1. /\ \A q \in Radars \ {r} : pc'[q] = pc[q]
        /\ pc[r] = "spawn" /\ pc'[r] = "reset" /\ UNCHANGED measurements
    BY <1>0, <1>9 DEF SpawnWriter, Step, dataVars
  <2> QED BY <2>1 DEF PageInv, FullPage
<1>10. ASSUME NEW r \in Radars, ResetEntries(r) PROVE PageInv'
  <2>1. /\ \A q \in Radars \ {r} : pc'[q] = pc[q]
        /\ pc[r] = "reset" /\ pc'[r] = "countPage" /\ n' = 0
    BY <1>0, <1>10 DEF ResetEntries, Step, Set, Measurements
  <2>2. \A q \in Radars : pc'[q] \notin FullPage
    BY <1>0, <2>1 DEF SectionExclusive, Critical, Filling, Sealing, Swapping, FullPage
  <2>3. Owed' \in Nat /\ Owed' <= 1
    BY <2>1 DEF Owed, Owes, Pending, Radars
  <2>4. n' + Owed' <= 1
    <3>1. n' = 0
      BY <2>1
    <3>2. \A k \in Nat : k <= 1 => 0 + k <= 1
      OBVIOUS
    <3> QED BY <2>3, <3>1, <3>2
  <2> QED BY <2>2, <2>4 DEF PageInv
<1>11. ASSUME NEW r \in Radars, GiveBuffer(r) PROVE PageInv'
  <2>1. /\ UNCHANGED <<measurements, writer>>
        /\ pc[r] = "giveBuf" /\ pc'[r] \in {"finish", "rest"}
        /\ \A q \in Radars \ {r} :
              pc'[q] = pc[q] \/ (pc[q] = "waitBuf" /\ pc'[q] = "load")
    BY <1>0, <1>11 DEF GiveBuffer, HandOver, dataVars
  <2>2. \A q \in Radars : Owes(q) \in {0, 1} /\ Owes(q)' \in {0, 1} /\ Owes(q)' <= Owes(q)
    BY <2>1 DEF Owes, Pending
  <2>3. Owed' \in 0 .. 2 /\ Owed' <= Owed
    BY <2>2 DEF Owed, Radars
  <2>4. \A q \in Radars : pc'[q] \in FullPage \cup {"reset"} => pc'[q] = pc[q]
    BY <2>1 DEF FullPage, Swapping
  <2>5. \A q \in Radars : pc[q] = "reset" => pc'[q] = "reset"
    BY <2>1
  <2> QED BY <1>0, <2>1, <2>3, <2>4, <2>5 DEF PageInv
<1>12. CASE Writer
  <2>1. /\ UNCHANGED measurements
        /\ pc' = pc \/ pc' = HandOver("waitEe", "swapTemp")
    BY <1>12, WriterFrame
  <2>2. New' => New
    BY <1>0, <1>12 DEF Writer, WriterStart, WriterTakeEeprom, WriterTakeDriver,
       WriterCopy, WriterTransferred, WriterGiveEeprom, WriterExit, WriterStep,
       WriterRuns, Writers
  <2>3. \A q \in Radars : /\ pc'[q] \in FullPage <=> pc[q] \in FullPage
                          /\ pc'[q] = "reset" <=> pc[q] = "reset"
                          /\ pc'[q] \in Pending <=> pc[q] \in Pending
    BY <1>0, <2>1 DEF HandOver, FullPage, Swapping, Pending
  <2>4. Owed' = Owed
    BY <2>3 DEF Owed, Owes, Radars
  <2> QED BY <2>1, <2>2, <2>3, <2>4 DEF PageInv
<1>13. CASE Command \/ UseDone
  <2>1. UNCHANGED <<pc, measurements>> /\ (New' => New)
    BY <1>0, <1>13, CommandFrame, GiveDriverFrame DEF UseDone, dataVars, Writers
  <2> QED BY <2>1 DEF PageInv, Owed, Owes
<1>14. CASE StartReset
  <2>1. session = 0
    BY <1>0, <1>14 DEF StartReset, SessionInv, Erasing, TypeOK
  <2>2. ~New' /\ \A q \in Radars : pc'[q] \in {"rest", "fetch", "check"}
    BY <1>14, <2>1, GiveDriverFrame DEF SessionInv
  <2> QED BY <2>2 DEF PageInv, FullPage, Swapping
<1>15. CASE UNCHANGED vars
  BY <1>15 DEF vars, radarVars, dataVars, writerVars, PageInv, Owed, Owes
<1> QED
  BY <1>2, <1>3, <1>4, <1>5, <1>6, <1>7, <1>8, <1>9, <1>10, <1>11, <1>12, <1>13, <1>14,
     <1>15 DEF Next, Radar, OneRecording, Fault, WriterFault

LEMMA NextTurn ==
    ASSUME OneRecording, TypeOK, SectionExclusive, SessionInv, PageInv, TurnInv,
           [Next]_vars
    PROVE  TurnInv'
<1>0. /\ pc \in [Radars -> Labels] /\ writer \in Writers
      /\ eeprom_write_sem \in {0, 1}
  BY DEF TypeOK, Writers
\* A step that leaves the semaphore, the writer and the swap as they are.
<1>1. ASSUME eeprom_write_sem' = eeprom_write_sem,
             writer'.at = writer.at \/ {writer.at, writer'.at} \subseteq Writing,
             \A q \in Radars :
                 /\ pc'[q] \in Swapping <=> pc[q] \in Swapping
                 /\ pc'[q] = "waitEe" => pc[q] = "waitEe"
                 /\ pc'[q] \in Swapping \cup {"spawn"} => pc[q] \in Swapping \cup {"spawn"}
      PROVE  TurnInv'
  BY <1>1 DEF TurnInv, Writing
<1>2. ASSUME NEW r \in Radars,
             \/ Fetched(r) \/ Rested(r) \/ CheckRecording(r) \/ StopRecording(r)
             \/ TakeBuffer(r) \/ LoadIndex(r) \/ StoreEntry(r) \/ TestFull(r)
             \/ SwapTemp(r) \/ SwapOut(r) \/ SwapIn(r) \/ ResetEntries(r) \/ CountPage(r)
      PROVE  TurnInv'
  <2>1. UNCHANGED <<eeprom_write_sem, writer>>
    BY <1>2 DEF Fetched, Rested, CheckRecording, StopRecording, TakeBuffer, LoadIndex,
       StoreEntry, TestFull, SwapTemp, SwapOut, SwapIn, ResetEntries, CountPage,
       semVars, writerVars
  <2>2. \A q \in Radars :
            /\ pc'[q] \in Swapping <=> pc[q] \in Swapping
            /\ pc'[q] = "waitEe" => pc[q] = "waitEe"
            /\ pc'[q] = "spawn" => pc[q] = "spawn"
    BY <1>0, <1>2 DEF Fetched, Rested, CheckRecording, StopRecording, TakeBuffer,
       LoadIndex, StoreEntry, TestFull, SwapTemp, SwapOut, SwapIn, ResetEntries,
       CountPage, Step, Swapping
  <2> QED BY <1>1, <2>1, <2>2
<1>3. ASSUME NEW r \in Radars, TakeEeprom(r) PROVE TurnInv'
  <2>1. /\ pc[r] = "takeEe" /\ eeprom_write_sem' = 0 /\ UNCHANGED writer
        /\ pc' = [pc EXCEPT ![r] = IF eeprom_write_sem = 1 THEN "swapTemp" ELSE "waitEe"]
    BY <1>3 DEF TakeEeprom, Step
  <2>2. \A q \in Radars \ {r} : pc[q] \notin Critical
    BY <2>1 DEF SectionExclusive, Critical, Filling
  <2>3. \A q \in Radars \ {r} : pc'[q] \notin Swapping \cup {"spawn", "waitEe"}
    BY <2>1, <2>2 DEF Critical, Filling, Sealing
  <2>4. writer.at \notin {"start", "take"}
    <3>1. measurements.num_entries = PageEntries
      BY <2>1 DEF PageInv, FullPage
    <3>2. \A q \in Radars : pc[q] # "reset"
      BY <2>1, <2>2 DEF Critical, Sealing
    <3>3. ~(measurements.num_entries + Owed <= 1)
      BY <3>1, PageEntriesPositive DEF Owed, Owes, OneRecording
    <3> QED BY <3>2, <3>3 DEF PageInv
  <2>5. writer.at \in {"none", "exit"} \cup Writing
    BY <1>0, <2>4 DEF Writers, WriterLabels, Writing, TurnInv, SessionInv
  <2>6. CASE eeprom_write_sem = 1
    <3>1. pc'[r] = "swapTemp" /\ writer.at \in {"none", "exit"}
      BY <1>0, <2>1, <2>5, <2>6 DEF TurnInv
    <3> QED BY <2>1, <2>3, <3>1 DEF TurnInv, Swapping, Writing
  <2>7. CASE eeprom_write_sem = 0
    <3>1. pc'[r] = "waitEe" /\ \A q \in Radars : pc[q] \notin Swapping
      BY <1>0, <2>1, <2>2, <2>7 DEF Critical, Swapping
    <3>2. writer.at \in Writing
      BY <2>7, <3>1 DEF TurnInv
    <3> QED BY <2>1, <2>3, <3>1, <3>2 DEF TurnInv, Swapping, Writing
  <2> QED BY <1>0, <2>6, <2>7
<1>4. ASSUME NEW r \in Radars, GiveEeprom(r) PROVE TurnInv'
  <2>1. pc[r] = "giveEe" /\ pc'[r] = "spawn" /\ \A q \in Radars \ {r} : pc'[q] = pc[q]
    BY <1>0, <1>4 DEF GiveEeprom, Step
  <2>2. writer.at \in {"none", "exit"}
    BY <2>1 DEF TurnInv, Swapping
  <2>3. eeprom_write_sem' = 1 /\ UNCHANGED writer
    BY <1>4, <2>2 DEF GiveEeprom
  <2>4. \A q \in Radars : pc'[q] # "waitEe"
    BY <2>1 DEF SectionExclusive, Critical, Filling, Swapping
  <2> QED BY <2>2, <2>3, <2>4 DEF TurnInv, Writing
<1>5. ASSUME NEW r \in Radars, SpawnWriter(r) PROVE TurnInv'
  <2>1. /\ pc[r] = "spawn" /\ pc'[r] = "reset" /\ UNCHANGED eeprom_write_sem
        /\ \A q \in Radars \ {r} : pc'[q] = pc[q]
    BY <1>0, <1>5 DEF SpawnWriter, Step, semVars
  <2>2. writer'.at = "start"
    BY <1>0, <1>5 DEF SpawnWriter, Writers, OneRecording
  <2>3. \A q \in Radars \ {r} : pc[q] \notin Critical
    BY <2>1 DEF SectionExclusive, Critical, Sealing
  <2>4. \A q \in Radars : pc[q] \notin Swapping
    BY <2>1, <2>3 DEF Critical, Swapping
  <2>5. writer.at \notin Writing
    BY <2>1 DEF TurnInv, Writing
  <2>6. eeprom_write_sem' # 0
    BY <2>1, <2>4, <2>5 DEF TurnInv
  <2>7. \A q \in Radars : pc'[q] \notin Swapping \cup {"spawn", "waitEe"}
    BY <2>1, <2>3 DEF Critical, Filling, Swapping, Sealing
  <2> QED BY <2>2, <2>6, <2>7 DEF TurnInv, Writing
<1>6. ASSUME NEW r \in Radars, GiveBuffer(r) PROVE TurnInv'
  BY <1>0, <1>1, <1>6 DEF GiveBuffer, HandOver, Swapping
<1>7. CASE WriterTakeEeprom
  <2>1. writer.at = "take" /\ eeprom_write_sem' = 0 /\ UNCHANGED pc
    BY <1>7 DEF WriterTakeEeprom, WriterStep, WriterRuns
  <2>2. \A q \in Radars : pc[q] \notin Swapping \cup {"spawn", "waitEe"}
    BY <2>1 DEF TurnInv, Writing
  <2>3. eeprom_write_sem = 1
    BY <1>0, <2>1, <2>2 DEF TurnInv, Writing
  <2>4. writer'.at = "drv"
    BY <1>0, <1>7, <2>3 DEF WriterTakeEeprom, WriterStep, Writers
  <2> QED BY <2>1, <2>2, <2>4 DEF TurnInv, Writing
<1>8. CASE WriterGiveEeprom
  <2>1. /\ writer.at = "give" /\ writer'.at = "exit"
        /\ pc' = HandOver("waitEe", "swapTemp")
        /\ eeprom_write_sem' = IF \E r \in Radars : pc[r] = "waitEe" THEN 0 ELSE 1
    BY <1>0, <1>8 DEF WriterGiveEeprom, WriterStep, WriterRuns, Writers
  <2>2. \A q \in Radars : pc'[q] # "waitEe"
    BY <1>0, <2>1 DEF HandOver
  <2>3. eeprom_write_sem' = 0 => \E q \in Radars : pc'[q] \in Swapping
    BY <1>0, <2>1 DEF HandOver, Swapping
  <2> QED BY <2>1, <2>2, <2>3 DEF TurnInv, Writing
<1>9. CASE WriterStart \/ WriterExit
  <2>1. /\ UNCHANGED <<pc, eeprom_write_sem>> /\ writer.at \in {"start", "exit"}
        /\ writer'.at = IF writer.at = "start" THEN "take" ELSE "none"
    BY <1>0, <1>9 DEF WriterStart, WriterExit, WriterStep, WriterRuns, Writers,
       radarVars, semVars
  <2> QED BY <2>1 DEF TurnInv, Writing
<1>10. CASE WriterTakeDriver \/ WriterCopy \/ WriterTransferred
  <2>1. UNCHANGED <<pc, eeprom_write_sem>> /\ {writer.at, writer'.at} \subseteq Writing
    BY <1>0, <1>10 DEF WriterTakeDriver, WriterCopy, WriterTransferred, WriterStep,
       WriterRuns, Writers, Writing, radarVars, semVars
  <2> QED BY <1>1, <2>1
<1>11. CASE Command \/ UseDone \/ StartReset
  <2>1. /\ UNCHANGED <<pc, eeprom_write_sem>>
        /\ writer'.at = writer.at \/ {writer.at, writer'.at} \subseteq Writing
    BY <1>0, <1>11, CommandFrame, GiveDriverFrame DEF Writers, Writing
  <2> QED BY <1>1, <2>1
<1>12. CASE UNCHANGED vars
  BY <1>1, <1>12 DEF vars, radarVars, semVars, writerVars
<1> QED
  BY <1>2, <1>3, <1>4, <1>5, <1>6, <1>7, <1>8, <1>9, <1>10, <1>11, <1>12
  DEF Next, Radar, Writer, OneRecording, Fault, WriterFault

LEMMA NextCount ==
    ASSUME OneRecording, TypeOK, SectionExclusive, SessionInv, PageInv, CountInv,
           [Next]_vars
    PROVE  CountInv'
<1>0. /\ pc \in [Radars -> Labels] /\ measurements \in Measurements
      /\ local \in [Radars -> Locals] /\ accepted \in Nat
      /\ measurements.num_entries \in Nat /\ measurements.num_pages \in Nat
      /\ PageEntries \in Nat
      /\ Pages(measurements.num_pages) \in Nat
      /\ Pages(measurements.num_pages + 1) = Pages(measurements.num_pages) + PageEntries
  BY PageEntriesPositive, PagesAdd DEF TypeOK, Measurements
<1>1. ASSUME UNCHANGED <<measurements, accepted>>,
             \A q \in Radars : pc'[q] \in {"store", "countPage"} =>
                                   pc[q] = pc'[q] /\ local'[q] = local[q],
             \A q \in Radars : pc[q] = "countPage" => pc'[q] = "countPage"
      PROVE  CountInv'
  BY <1>1 DEF CountInv
<1>2. ASSUME NEW r \in Radars,
             \/ Fetched(r) \/ Rested(r) \/ CheckRecording(r) \/ StopRecording(r)
             \/ TakeBuffer(r) \/ TestFull(r) \/ TakeEeprom(r) \/ SwapTemp(r) \/ GiveEeprom(r)
             \/ SpawnWriter(r)
      PROVE  CountInv'
  BY <1>0, <1>1, <1>2 DEF Fetched, Rested, CheckRecording, StopRecording, TakeBuffer,
     TestFull, TakeEeprom, SwapTemp, GiveEeprom, SpawnWriter, Step, SetLocal, dataVars,
     sessionVars
<1>3. ASSUME NEW r \in Radars, LoadIndex(r) PROVE CountInv'
  <2>1. /\ UNCHANGED <<measurements, accepted>>
        /\ local'[r].idx = measurements.num_entries
        /\ \A q \in Radars \ {r} : pc'[q] = pc[q] /\ local'[q] = local[q]
        /\ pc[r] = "load" /\ pc'[r] = "store"
    BY <1>0, <1>3 DEF LoadIndex, Step, SetLocal, Locals, dataVars, sessionVars
  <2> QED BY <2>1 DEF CountInv
<1>4. ASSUME NEW r \in Radars, StoreEntry(r) PROVE CountInv'
  <2>1. /\ pc[r] = "store" /\ pc'[r] = "test" /\ UNCHANGED local
        /\ accepted' = accepted + 1
        /\ \A q \in Radars \ {r} : pc'[q] = pc[q]
    BY <1>0, <1>4 DEF StoreEntry, Step
  <2>2. \A q \in Radars : pc[q] \in Critical => q = r
    BY <2>1 DEF SectionExclusive, Critical, Filling
  <2>3. \A q \in Radars : pc'[q] \notin {"store", "countPage"} /\ pc[q] # "countPage"
    BY <2>1, <2>2 DEF Critical, Filling, Sealing
  <2>4. /\ measurements'.num_entries = measurements.num_entries + 1
        /\ measurements'.num_pages = measurements.num_pages
    BY <1>0, <1>4, <2>1 DEF StoreEntry, Set, Measurements, CountInv
  <2>5. accepted = Pages(measurements.num_pages) + measurements.num_entries
    BY <2>3 DEF CountInv
  <2>6. accepted' = Pages(measurements.num_pages) + measurements'.num_entries
    BY <1>0, <2>1, <2>4, <2>5
  <2> QED BY <2>3, <2>4, <2>6 DEF CountInv
<1>5. ASSUME NEW r \in Radars, SwapOut(r) \/ SwapIn(r) PROVE CountInv'
  <2>1. /\ pc[r] \in {"swapOut", "swapIn"} /\ pc'[r] \in {"swapIn", "giveEe"}
        /\ \A q \in Radars \ {r} : pc'[q] = pc[q]
        /\ UNCHANGED <<local, accepted>>
        /\ measurements'.num_entries = measurements.num_entries
        /\ measurements'.num_pages = measurements.num_pages
    BY <1>0, <1>5 DEF SwapOut, SwapIn, Step, Set, Measurements, sessionVars
  <2> QED BY <2>1 DEF CountInv
<1>6. ASSUME NEW r \in Radars, ResetEntries(r) PROVE CountInv'
  <2>1. /\ pc[r] = "reset" /\ pc'[r] = "countPage" /\ UNCHANGED accepted
        /\ \A q \in Radars \ {r} : pc'[q] = pc[q]
        /\ local'[r].pages = measurements.num_pages
        /\ measurements'.num_entries = 0
        /\ measurements'.num_pages = measurements.num_pages
    BY <1>0, <1>6 DEF ResetEntries, Step, Set, SetLocal, Measurements, Locals, sessionVars
  <2>2. \A q \in Radars \ {r} : pc[q] \notin {"store", "countPage"}
    BY <2>1 DEF SectionExclusive, Critical, Filling, Sealing
  <2>3. accepted = Pages(measurements.num_pages) + PageEntries
    BY <2>1, <2>2 DEF CountInv, PageInv, FullPage
  <2> QED BY <1>0, <2>1, <2>2, <2>3 DEF CountInv
<1>7. ASSUME NEW r \in Radars, CountPage(r) PROVE CountInv'
  <2>1. /\ pc[r] = "countPage" /\ pc'[r] = "giveBuf" /\ UNCHANGED accepted
        /\ \A q \in Radars \ {r} : pc'[q] = pc[q]
        /\ measurements'.num_entries = measurements.num_entries
        /\ measurements'.num_pages = local[r].pages + 1
    BY <1>0, <1>7 DEF CountPage, Step, Set, Measurements, sessionVars
  <2>2. \A q \in Radars \ {r} : pc[q] \notin {"store", "countPage"}
    BY <2>1 DEF SectionExclusive, Critical, Filling, Sealing
  <2>3. /\ measurements'.num_entries = 0
        /\ measurements'.num_pages = measurements.num_pages + 1
        /\ accepted' = Pages(measurements.num_pages + 1)
    BY <2>1 DEF CountInv
  <2>4. accepted' = Pages(measurements'.num_pages) + measurements'.num_entries
    BY <1>0, <2>3
  <2> QED BY <2>1, <2>2, <2>4 DEF CountInv
<1>8. ASSUME NEW r \in Radars, GiveBuffer(r) PROVE CountInv'
  <2>1. /\ UNCHANGED <<measurements, accepted, local>>
        /\ pc[r] = "giveBuf" /\ pc'[r] \in {"finish", "rest"}
        /\ \A q \in Radars \ {r} :
              pc'[q] = pc[q] \/ (pc[q] = "waitBuf" /\ pc'[q] = "load")
    BY <1>0, <1>8 DEF GiveBuffer, HandOver, dataVars, sessionVars
  <2> QED BY <1>1, <2>1
<1>9. CASE Writer
  <2>1. /\ UNCHANGED <<measurements, accepted, local>>
        /\ pc' = pc \/ pc' = HandOver("waitEe", "swapTemp")
    BY <1>9, WriterFrame
  <2> QED BY <1>0, <1>1, <2>1 DEF HandOver
<1>10. CASE Command \/ UseDone
  BY <1>1, <1>10, CommandFrame, GiveDriverFrame DEF UseDone, dataVars, sessionVars
<1>11. CASE StartReset
  <2>1. session = 0
    BY <1>11 DEF StartReset, SessionInv, Erasing, TypeOK
  <2>2. \A q \in Radars : pc'[q] \in {"rest", "fetch", "check"}
    BY <1>11, <2>1, GiveDriverFrame DEF SessionInv
  <2>3. accepted' = 0 /\ measurements'.num_entries = 0 /\ measurements'.num_pages = 0
    BY <1>11 DEF StartReset
  <2> QED BY <2>2, <2>3, PagesAdd DEF CountInv
<1>12. CASE UNCHANGED vars
  BY <1>12 DEF vars, radarVars, dataVars, sessionVars, CountInv
<1> QED
  BY <1>2, <1>3, <1>4, <1>5, <1>6, <1>7, <1>8, <1>9, <1>10, <1>11, <1>12
  DEF Next, Radar, OneRecording, Fault, WriterFault, SessionInv

Recording == SessionInv /\ PageInv /\ TurnInv /\ CountInv

LEMMA RecordingHolds == ASSUME OneRecording PROVE Spec => []Recording
<1>1. Init => Recording
  BY InitSession, InitPage DEF Recording
<1>2. /\ TypeOK /\ SectionExclusive /\ RoomInv /\ Recording /\ [Next]_vars
      => Recording'
  BY NextSession, NextPage, NextTurn, NextCount DEF Recording
<1> QED BY <1>1, <1>2, Typing, SectionIsExclusive, RoomHolds, PTL DEF Spec

(* k_thread_create finds no writer with work to do, however long the flash driver
   and the bus keep it waiting and wherever the shell suspends a radar thread: a
   page that is full meanwhile waits for eeprom_write_sem until the writer has
   given it, with nothing left to do but to end. *)
THEOREM RespawnsLoseNothing ==
    ASSUME OneRecording PROVE Spec => RespawnLosesNothing
<1>1. Recording =>
          [\A r \in Radars : pc[r] = "spawn" /\ pc'[r] = "reset" =>
               writer.at \in {"none", "exit", "dead"}]_vars
  BY DEF Recording, TurnInv
<1> QED BY <1>1, RecordingHolds, PTL DEF RespawnLosesNothing

-----------------------------------------------------------------------------
(* What the buffers hold *)

\* Buffer b starts with the first n entries of page k of this recording.
Stored(b, k, n) ==
    \A s \in Slots : s < n => mem[b][s] = [session |-> session, n |-> Pages(k) + s + 1]

\* The page is full, and in_buffer no longer holds it.
Handed == {"giveEe", "spawn", "reset", "countPage"}

\* The writer was given a page it has not copied yet.
ToWrite == {"start", "take", "waitEe", "drv", "waitDrv", "copy"}

BufferInv ==
    /\ (\A r \in Radars : pc[r] \notin Handed) =>
          Stored(measurements.in_buffer, measurements.num_pages,
          measurements.num_entries)
    /\ \A r \in Radars : pc[r] \in {"swapIn", "giveEe", "spawn"} =>
          Stored(measurements.out_buffer, measurements.num_pages, PageEntries)
    /\ (\A r \in Radars : pc[r] # "swapIn") =>
          measurements.in_buffer # measurements.out_buffer
    /\ \A r \in Radars : pc[r] = "swapOut" => local[r].temp = measurements.out_buffer
    /\ \A r \in Radars : pc[r] = "swapIn" => local[r].temp # measurements.out_buffer
    /\ writer.at \in ToWrite =>
          /\ writer.buffer = measurements.out_buffer
          /\ \E k \in Nat : Stored(writer.buffer, k, PageEntries)

LEMMA InitBuffer == Init => BufferInv
BY DEF Init, BufferInv, Stored, Slots, ToWrite

\* A step that neither stores, swaps nor counts keeps what the buffers hold.
LEMMA BufferFrame ==
    ASSUME BufferInv,
           UNCHANGED <<measurements, mem, session>>,
           \A r \in Radars : /\ pc'[r] \in {"swapIn", "giveEe", "spawn"} =>
                                   pc[r] \in {"swapIn", "giveEe", "spawn"}
                             /\ pc'[r] \in {"swapOut", "swapIn"} => pc[r] = pc'[r]
                             /\ pc'[r] \in {"swapOut", "swapIn"} =>
                                   local'[r].temp = local[r].temp
                             /\ pc[r] \in Handed => pc'[r] \in Handed
                             /\ pc[r] = "swapIn" => pc'[r] = "swapIn",
           writer'.at \in ToWrite => writer.at \in ToWrite /\ writer'.buffer = writer.buffer
    PROVE  BufferInv'
<1>1. \A b, k, n : Stored(b, k, n)' = Stored(b, k, n)
  BY DEF Stored, Pages
<1> QED BY <1>1 DEF BufferInv

\* BufferInv after a step, when the struct then reads in, out, n and k.
LEMMA BufferParts ==
    ASSUME NEW in \in Buffers, NEW out \in Buffers, NEW n \in Nat, NEW k \in Nat,
           measurements'.in_buffer = in, measurements'.out_buffer = out,
           measurements'.num_entries = n, measurements'.num_pages = k,
           (\A r \in Radars : pc'[r] \notin Handed) => Stored(in, k, n)',
           \A r \in Radars : pc'[r] \in {"swapIn", "giveEe", "spawn"} =>
               Stored(out, k, PageEntries)',
           (\A r \in Radars : pc'[r] # "swapIn") => in # out,
           \A r \in Radars : /\ pc'[r] = "swapOut" => local'[r].temp = out
                             /\ pc'[r] = "swapIn" => local'[r].temp # out,
           writer'.at \in ToWrite =>
               writer'.buffer = out /\ \E i \in Nat : Stored(out, i, PageEntries)'
    PROVE  BufferInv'
<1>1. (\A r \in Radars : pc'[r] \notin Handed) =>
          Stored(measurements.in_buffer, measurements.num_pages,
                 measurements.num_entries)'
  BY DEF Stored
<1>2. \A r \in Radars : pc'[r] \in {"swapIn", "giveEe", "spawn"} =>
          Stored(measurements.out_buffer, measurements.num_pages, PageEntries)'
  BY DEF Stored
<1>3. writer'.at \in ToWrite =>
          /\ writer'.buffer = measurements'.out_buffer
          /\ \E i \in Nat : Stored(writer.buffer, i, PageEntries)'
  BY DEF Stored
<1> QED BY <1>1, <1>2, <1>3 DEF BufferInv

LEMMA NextBuffer ==
    ASSUME OneRecording, TypeOK, SectionExclusive, RoomInv, Recording, BufferInv,
           [Next]_vars
    PROVE  BufferInv'
<1>0. /\ pc \in [Radars -> Labels] /\ measurements \in Measurements
      /\ local \in [Radars -> Locals] /\ writer \in Writers
      /\ mem \in [Buffers -> [Slots -> Entries]]
      /\ accepted \in Nat /\ session \in Nat
      /\ PageEntries \in Nat /\ PageEntries > 1
      /\ measurements.num_entries \in Nat /\ measurements.num_pages \in Nat
      /\ measurements.in_buffer \in Buffers /\ measurements.out_buffer \in Buffers
  BY PageEntriesPositive DEF TypeOK, Measurements, Writers, OneRecording
<1>a. PICK N \in Nat, K \in Nat, In \in Buffers, Out \in Buffers :
           /\ measurements.num_entries = N /\ measurements.num_pages = K
           /\ measurements.in_buffer = In /\ measurements.out_buffer = Out
  BY <1>0
<1>b. Pages(K) \in Nat
  BY PagesAdd
<1>1. ASSUME NEW r \in Radars,
             \/ Fetched(r) \/ Rested(r) \/ CheckRecording(r) \/ StopRecording(r)
             \/ TakeBuffer(r) \/ LoadIndex(r) \/ TestFull(r) \/ TakeEeprom(r)
      PROVE  BufferInv'
  BY <1>0, <1>1, BufferFrame DEF Fetched, Rested, CheckRecording, StopRecording,
     TakeBuffer, LoadIndex, TestFull, TakeEeprom, Step, SetLocal, dataVars, sessionVars,
     writerVars, Handed
<1>2. ASSUME NEW r \in Radars, StoreEntry(r) PROVE BufferInv'
  <2>1. /\ pc[r] = "store" /\ pc'[r] = "test" /\ UNCHANGED <<local, session, writer>>
        /\ \A q \in Radars \ {r} : pc'[q] = pc[q]
    BY <1>0, <1>2 DEF StoreEntry, Step
  <2>2. \A q \in Radars \ {r} : pc[q] \notin Critical
    BY <2>1 DEF SectionExclusive, Critical, Filling
  <2>3. \A q \in Radars : /\ pc[q] \notin Handed \cup {"swapOut", "swapIn"}
                          /\ pc'[q] \notin Handed \cup {"swapOut", "swapIn"}
    BY <2>1, <2>2 DEF Handed, Critical, Swapping, Sealing
  <2>4. local[r].idx = N /\ accepted = Pages(K) + N
    BY <1>a, <2>1, <2>3 DEF Recording, CountInv, Handed
  <2>5. N < PageEntries /\ N \in Slots
    BY <1>0, <2>1, <2>4 DEF RoomInv, Slots
  <2>6. /\ measurements' = [measurements EXCEPT !.num_entries = N + 1]
        /\ mem' = [mem EXCEPT ![In][N] = [session |-> session, n |-> Pages(K) + N + 1]]
    BY <1>2, <1>a, <2>4 DEF StoreEntry, Set
  <2>7. In # Out /\ Stored(In, K, N)
    BY <1>a, <2>3 DEF BufferInv
  <2>8. /\ measurements'.in_buffer = In /\ measurements'.out_buffer = Out
        /\ measurements'.num_pages = K /\ measurements'.num_entries = N + 1
    BY <1>0, <1>a, <2>6 DEF Measurements
  <2>9. Stored(In, K, N + 1)'
    <3>1. ASSUME NEW s \in Slots, s < N + 1
          PROVE  mem'[In][s] = [session |-> session, n |-> Pages(K) + s + 1]
      <4>1. CASE s = N
        BY <1>0, <2>5, <2>6, <4>1
      <4>2. CASE s < N
        BY <1>0, <2>5, <2>6, <2>7, <4>2 DEF Stored
      <4> QED BY <1>0, <3>1, <4>1, <4>2 DEF Slots
    <3> QED BY <2>1, <3>1 DEF Stored, Pages
  <2>10. \A k, n : Stored(Out, k, n) => Stored(Out, k, n)'
    BY <1>0, <2>1, <2>6, <2>7 DEF Stored, Pages
  <2>11. writer'.at \in ToWrite =>
            writer'.buffer = Out /\ \E k \in Nat : Stored(Out, k, PageEntries)'
    <3>1. SUFFICES ASSUME writer.at \in ToWrite
                   PROVE  writer.buffer = Out /\ \E k \in Nat : Stored(Out, k, PageEntries)'
      BY <2>1
    <3>2. writer.buffer = Out /\ \E k \in Nat : Stored(Out, k, PageEntries)
      BY <1>a, <3>1 DEF BufferInv, Stored
    <3> QED BY <2>10, <3>2
  <2> QED BY <2>3, <2>7, <2>8, <2>9, <2>11, BufferParts DEF Handed
<1>3. ASSUME NEW r \in Radars, SwapTemp(r) PROVE BufferInv'
  <2>1. /\ pc[r] = "swapTemp" /\ pc'[r] = "swapOut" /\ local'[r].temp = Out
        /\ UNCHANGED <<measurements, mem, session, writer>>
        /\ \A q \in Radars \ {r} : pc'[q] = pc[q] /\ local'[q] = local[q]
    BY <1>0, <1>a, <1>3 DEF SwapTemp, Step, SetLocal, Locals, dataVars, sessionVars
  <2>2. \A q \in Radars \ {r} : pc[q] \notin Critical
    BY <2>1 DEF SectionExclusive, Critical, Swapping
  <2>3. \A q \in Radars : /\ pc[q] \notin Handed \cup {"swapIn"}
                          /\ pc'[q] \notin Handed \cup {"swapIn"}
    BY <2>1, <2>2 DEF Handed, Critical, Swapping, Sealing
  <2>4. \A b, k, n : Stored(b, k, n)' = Stored(b, k, n)
    BY <2>1 DEF Stored, Pages
  <2>5. In # Out /\ Stored(In, K, N)
    BY <1>a, <2>3 DEF BufferInv
  <2>6. writer.at \in ToWrite =>
            writer.buffer = Out /\ \E k \in Nat : Stored(Out, k, PageEntries)
    BY <1>a DEF BufferInv, Stored
  <2>7. \A q \in Radars : pc'[q] = "swapOut" => local'[q].temp = Out
    BY <2>1, <2>2 DEF Critical, Swapping
  <2> QED BY <1>a, <2>1, <2>3, <2>4, <2>5, <2>6, <2>7, BufferParts DEF Handed
<1>4. ASSUME NEW r \in Radars, SwapOut(r) PROVE BufferInv'
  <2>1. /\ pc[r] = "swapOut" /\ pc'[r] = "swapIn"
        /\ UNCHANGED <<local, mem, session, writer>>
        /\ \A q \in Radars \ {r} : pc'[q] = pc[q]
        /\ measurements' = [measurements EXCEPT !.out_buffer = In]
    BY <1>0, <1>a, <1>4 DEF SwapOut, Step, Set, sessionVars
  <2>2. /\ measurements'.in_buffer = In /\ measurements'.out_buffer = In
        /\ measurements'.num_pages = K /\ measurements'.num_entries = N
    BY <1>0, <1>a, <2>1 DEF Measurements
  <2>3. \A q \in Radars \ {r} : pc[q] \notin Critical
    BY <2>1 DEF SectionExclusive, Critical, Swapping
  <2>4. \A q \in Radars : pc[q] \notin Handed \cup {"swapIn"}
    BY <2>1, <2>3 DEF Handed, Critical, Swapping, Sealing
  <2>5. \A b, k, n : Stored(b, k, n)' = Stored(b, k, n)
    BY <2>1 DEF Stored, Pages
  <2>6. N = PageEntries
    BY <1>a, <2>1 DEF Recording, PageInv, FullPage, Swapping
  <2>7. In # Out /\ Stored(In, K, N) /\ local[r].temp = Out
    BY <1>a, <2>1, <2>4 DEF BufferInv
  <2>8. writer.at \notin ToWrite
    BY <2>1 DEF Recording, TurnInv, Swapping, ToWrite
  <2>9. \A q \in Radars : pc'[q] \notin {"swapOut", "giveEe", "spawn"}
    BY <2>1, <2>3 DEF Critical, Swapping, Sealing
  <2>10. \A q \in Radars : pc'[q] = "swapIn" => local'[q].temp # In
    BY <2>1, <2>3, <2>7 DEF Critical, Swapping
  <2> QED BY <2>1, <2>2, <2>5, <2>6, <2>7, <2>8, <2>9, <2>10, BufferParts
<1>5. ASSUME NEW r \in Radars, SwapIn(r) PROVE BufferInv'
  <2>1. /\ pc[r] = "swapIn" /\ pc'[r] = "giveEe"
        /\ UNCHANGED <<local, mem, session, writer>>
        /\ \A q \in Radars \ {r} : pc'[q] = pc[q]
        /\ measurements' = [measurements EXCEPT !.in_buffer = local[r].temp]
    BY <1>0, <1>5 DEF SwapIn, Step, Set, sessionVars
  <2>2. local[r].temp \in Buffers /\ local[r].temp # Out /\ Stored(Out, K, PageEntries)
    BY <1>0, <1>a, <2>1 DEF BufferInv, Locals
  <2>3. /\ measurements'.in_buffer = local[r].temp /\ measurements'.out_buffer = Out
        /\ measurements'.num_pages = K /\ measurements'.num_entries = N
    BY <1>0, <1>a, <2>1 DEF Measurements
  <2>4. \A q \in Radars \ {r} : pc[q] \notin Critical
    BY <2>1 DEF SectionExclusive, Critical, Swapping
  <2>5. \A q \in Radars : pc'[q] \notin {"swapOut", "swapIn"}
    BY <2>1, <2>4 DEF Critical, Swapping
  <2>6. \A b, k, n : Stored(b, k, n)' = Stored(b, k, n)
    BY <2>1 DEF Stored, Pages
  <2>7. writer.at \in ToWrite =>
            writer.buffer = Out /\ \E k \in Nat : Stored(Out, k, PageEntries)
    BY <1>a DEF BufferInv, Stored
  <2> QED BY <2>1, <2>2, <2>3, <2>5, <2>6, <2>7, BufferParts DEF Handed
<1>6. ASSUME NEW r \in Radars, GiveEeprom(r) PROVE BufferInv'
  <2>1. /\ pc[r] = "giveEe" /\ pc'[r] = "spawn"
        /\ UNCHANGED <<local, measurements, mem, session>>
        /\ \A q \in Radars \ {r} : pc'[q] = pc[q]
    BY <1>0, <1>6 DEF GiveEeprom, Step, dataVars, sessionVars
  <2>2. writer'.at \in ToWrite => writer.at \in ToWrite /\ writer'.buffer = writer.buffer
    BY <1>0, <1>6 DEF GiveEeprom, ToWrite, Writers
  <2> QED BY <2>1, <2>2, BufferFrame DEF Handed
<1>7. ASSUME NEW r \in Radars, SpawnWriter(r) PROVE BufferInv'
  <2>1. /\ pc[r] = "spawn" /\ pc'[r] = "reset"
        /\ UNCHANGED <<local, measurements, mem, session>>
        /\ \A q \in Radars \ {r} : pc'[q] = pc[q]
        /\ writer'.buffer = Out
    BY <1>0, <1>a, <1>7 DEF SpawnWriter, Step, dataVars, sessionVars, Writers
  <2>2. \A q \in Radars \ {r} : pc[q] \notin Critical
    BY <2>1 DEF SectionExclusive, Critical, Sealing
  <2>3. \A q \in Radars : pc'[q] \notin {"swapOut", "swapIn", "giveEe", "spawn"}
    BY <2>1, <2>2 DEF Critical, Swapping, Sealing
  <2>4. In # Out /\ Stored(Out, K, PageEntries)
    BY <1>a, <2>1, <2>2 DEF BufferInv, Critical, Swapping
  <2>5. Stored(Out, K, PageEntries)'
    BY <2>1, <2>4 DEF Stored, Pages
  <2> QED BY <1>a, <2>1, <2>3, <2>4, <2>5, BufferParts DEF Handed
<1>8. ASSUME NEW r \in Radars, ResetEntries(r) \/ CountPage(r) PROVE BufferInv'
  <2>1. /\ pc[r] \in Sealing /\ pc'[r] \in {"countPage", "giveBuf"}
        /\ UNCHANGED <<mem, session, writer>>
        /\ \A q \in Radars \ {r} : pc'[q] = pc[q]
        /\ measurements'.in_buffer = In /\ measurements'.out_buffer = Out
    BY <1>0, <1>a, <1>8 DEF ResetEntries, CountPage, Step, Set, sessionVars,
       Measurements, Sealing
  <2>2. measurements'.num_entries = 0
    BY <1>0, <1>8 DEF ResetEntries, CountPage, Step, Set, Measurements, Recording,
       CountInv
  <2>3. PICK M \in Nat : measurements'.num_pages = M
    BY <1>0, <1>8 DEF ResetEntries, CountPage, Step, Set, Measurements, Locals
  <2>4. \A q \in Radars \ {r} : pc[q] \notin Critical
    BY <2>1 DEF SectionExclusive, Critical
  <2>5. \A q \in Radars : pc'[q] \notin Swapping \cup {"spawn"} /\ pc[q] \notin Swapping
    BY <2>1, <2>4 DEF Critical, Swapping, Sealing
  <2>6. Stored(In, M, 0)'
    BY DEF Stored, Slots
  <2>7. writer'.at \in ToWrite =>
            writer'.buffer = Out /\ \E k \in Nat : Stored(Out, k, PageEntries)'
    <3>1. \A b, k, n : Stored(b, k, n)' = Stored(b, k, n)
      BY <2>1 DEF Stored, Pages
    <3> QED BY <1>a, <2>1, <3>1 DEF BufferInv, Stored
  <2>8. In # Out
    BY <1>a, <2>5 DEF BufferInv, Swapping
  <2> QED BY <1>a, <2>1, <2>2, <2>3, <2>5, <2>6, <2>7, <2>8, BufferParts
     DEF Swapping
<1>9. ASSUME NEW r \in Radars, GiveBuffer(r) PROVE BufferInv'
  BY <1>0, <1>9, BufferFrame DEF GiveBuffer, HandOver, dataVars, sessionVars, Handed
<1>10. CASE Writer
  <2>1. /\ UNCHANGED <<measurements, mem, session, local>>
        /\ pc' = pc \/ pc' = HandOver("waitEe", "swapTemp")
    BY <1>10, WriterFrame
  <2>2. writer'.at \in ToWrite => writer.at \in ToWrite /\ writer'.buffer = writer.buffer
    BY <1>0, <1>10 DEF Writer, WriterStart, WriterTakeEeprom, WriterTakeDriver,
       WriterCopy, WriterTransferred, WriterGiveEeprom, WriterExit, WriterStep,
       WriterRuns, Writers, ToWrite
  <2>3. \A q \in Radars : pc'[q] = pc[q] \/ (pc[q] = "waitEe" /\ pc'[q] = "swapTemp")
    BY <1>0, <2>1 DEF HandOver
  <2> QED BY <2>1, <2>2, <2>3, BufferFrame DEF Handed
<1>11. CASE Command \/ UseDone
  <2>1. /\ UNCHANGED <<pc, local, measurements, mem, session>>
        /\ \/ writer' = writer
           \/ writer.at = "waitDrv" /\ writer' = [writer EXCEPT !.at = "copy"]
    BY <1>11, CommandFrame, GiveDriverFrame DEF UseDone, dataVars, sessionVars
  <2>2. writer'.at \in ToWrite => writer.at \in ToWrite /\ writer'.buffer = writer.buffer
    BY <1>0, <2>1 DEF ToWrite, Writers
  <2> QED BY <2>1, <2>2, BufferFrame
<1>12. CASE StartReset
  <2>1. session = 0
    BY <1>12 DEF StartReset, Recording, SessionInv, Erasing, TypeOK
  <2>2. /\ \A q \in Radars : pc'[q] \in {"rest", "fetch", "check"}
        /\ writer'.at = "none"
    BY <1>12, <2>1, GiveDriverFrame DEF Recording, SessionInv
  <2>3. /\ measurements'.in_buffer = "A" /\ measurements'.out_buffer = "B"
        /\ measurements'.num_entries = 0 /\ measurements'.num_pages = 0
    BY <1>12 DEF StartReset
  <2>4. Stored("A", 0, 0)'
    BY DEF Stored, Slots
  <2> QED BY <2>2, <2>3, <2>4, BufferParts DEF Buffers, ToWrite
<1>13. CASE UNCHANGED vars
  BY <1>13, BufferFrame DEF vars, radarVars, dataVars, sessionVars, writerVars
<1> QED
  BY <1>1, <1>2, <1>3, <1>4, <1>5, <1>6, <1>7, <1>8, <1>9, <1>10, <1>11, <1>12, <1>13
  DEF Next, Radar, OneRecording, Fault, WriterFault, Recording, SessionInv

LEMMA BufferHolds == ASSUME OneRecording PROVE Spec => []BufferInv
<1>1. /\ TypeOK /\ SectionExclusive /\ RoomInv /\ Recording /\ BufferInv /\ [Next]_vars
      => BufferInv'
  BY NextBuffer
<1> QED
  BY <1>1, InitBuffer, Typing, SectionIsExclusive, RoomHolds, RecordingHolds, PTL DEF Spec

\* The first entry of a page follows a multiple of the page size.
LEMMA FirstOfPage ==
    ASSUME NEW p \in Nat, p > 1, NEW k \in Nat
    PROVE  (k * p + 1) % p = 1 % p
<1> DEFINE a == k * p + 1
           q == a \div p
           r == a % p
<1>1. a \in Nat /\ q \in Nat /\ r \in 0 .. p - 1 /\ a = q * p + r
  OBVIOUS
<1> HIDE DEF q, r
<1>2. CASE q >= k + 1
  <2>1. PICK d \in Nat : q = k + 1 + d
    BY <1>1, <1>2
  <2>2. q * p = k * p + p + d * p
    BY <2>1
  <2>3. d * p \in Nat /\ k * p \in Nat
    OBVIOUS
  <2> QED BY <1>1, <2>2, <2>3
<1>3. CASE k >= q + 1
  <2>1. PICK d \in Nat : k = q + 1 + d
    BY <1>1, <1>3
  <2>2. k * p = q * p + p + d * p
    BY <1>1, <2>1
  <2>3. d * p \in Nat /\ q * p \in Nat
    BY <1>1
  <2> QED BY <1>1, <2>2, <2>3
<1>4. CASE q = k
  BY <1>1, <1>4
<1>5. r = 1
  BY <1>1, <1>2, <1>3, <1>4
<1>6. 1 % p = 1
  OBVIOUS
<1> QED BY <1>5, <1>6 DEF r

(* The buffer the writer was given keeps the page, whole and in order, until it
   is copied, while the radar threads fill the other buffer. *)
THEOREM WriterFindsThePage == ASSUME OneRecording PROVE Spec => []PageUnchanged
<1>1. ASSUME BufferInv PROVE PageUnchanged
  <2>1. SUFFICES ASSUME writer.at \in ToWrite
                 PROVE  LET first == mem[writer.buffer][0]
                        IN  /\ first.n % PageEntries = 1 % PageEntries
                            /\ \A s \in Slots :
                                  mem[writer.buffer][s] = [first EXCEPT !.n = @ + s]
    BY DEF PageUnchanged, ToWrite
  <2>2. PICK k \in Nat : Stored(writer.buffer, k, PageEntries)
    BY <1>1, <2>1 DEF BufferInv
  <2>3. \A s \in Slots :
            mem[writer.buffer][s] = [session |-> session, n |-> Pages(k) + s + 1]
    BY <2>2, PageEntriesPositive DEF Stored, Slots
  <2>4. Pages(k) \in Nat /\ PageEntries \in Nat /\ PageEntries > 1 /\ 0 \in Slots
    BY PagesAdd, PageEntriesPositive DEF OneRecording
  <2>5. mem[writer.buffer][0] = [session |-> session, n |-> Pages(k) + 1]
    BY <2>3, <2>4
  <2>6. (Pages(k) + 1) % PageEntries = 1 % PageEntries
    BY <2>4, FirstOfPage DEF Pages
  <2>7. \A s \in Slots : mem[writer.buffer][s]
                             = [mem[writer.buffer][0] EXCEPT !.n = @ + s]
    BY <2>3, <2>4, <2>5 DEF Slots
  <2> QED BY <2>5, <2>6, <2>7
<1> QED BY <1>1, BufferHolds, PTL

-----------------------------------------------------------------------------
(* A recording that no Enable disturbs *)

\* Enable only ever resumes a sensor that is at work, or is given once, before the
\* recording; and Start asks for a page at least.
Undisturbed ==
    /\ OneRecording
    /\ EnableArgs \subseteq {"1"} \/ EnableArgs \subseteq {"2"} \/ MaxEnables <= 1
    /\ 0 \notin Requests

\* The second sensor was never enabled.
Sole == pc["hcsr1"] = "fetch" /\ "hcsr1" \in suspended

\* No Enable is left that could suspend a thread which has something to do.
StillEnabled ==
    \/ EnableArgs \subseteq {"2"}
    \/ EnableArgs \subseteq {"1"} /\ Sole
    \/ budget.enable = 0
    \/ /\ budget.enable = 1 /\ cpu = NoThread
       /\ \A r \in Radars : pc[r] = "fetch" /\ r \in suspended

\* Where a thread may be while another one has the processor.
Aside == {"rest", "fetch", "check", "waitBuf", "waitEe", "load", "swapTemp"}

\* From its test of is_recording on, a thread keeps the processor unless it has to
\* wait for one of the two semaphores.
CpuInv ==
    /\ StillEnabled
    /\ \A r \in Radars : /\ pc[r] # "fetch" => r \notin suspended
                         /\ pc[r] \notin Aside => cpu = r

LEMMA InitCpu == Undisturbed /\ Init => CpuInv
BY BoundsAssumption DEF Undisturbed, Init, CpuInv, StillEnabled, Sole, Radars, Aside

LEMMA AloneOnCpu ==
    ASSUME CpuInv, NEW r \in Radars, Runs(r)
    PROVE  \A q \in Radars \ {r} : pc[q] \in Aside
BY DEF CpuInv, Runs, Radars, NoThread

\* While the writer runs, each radar thread rests, fetches or waits.
LEMMA WriterAlone ==
    ASSUME CpuInv, Writer
    PROVE  \A q \in Radars : pc[q] \in {"rest", "fetch", "waitBuf", "waitEe", "dead"}
<1>1. \A q \in Radars : ~Ready(q)
  BY DEF Writer, WriterStart, WriterTakeEeprom, WriterTakeDriver, WriterCopy,
     WriterTransferred, WriterGiveEeprom, WriterExit, WriterStep, WriterRuns
<1> QED BY <1>1 DEF CpuInv, Ready, Blocked

\* What a step of a radar thread is, seen from the processor.
LEMMA RadarMoves ==
    ASSUME NEW r \in Radars, Radar(r)
    PROVE  \/ Fetched(r) \/ Rested(r) \/ GiveBuffer(r)
           \/ \E l, next \in Labels :
                  l \notin Blocked /\ next # "dead" /\ Step(r, l, next)
BY DEF Radar, CheckRecording, StopRecording, TakeBuffer, LoadIndex, StoreEntry, TestFull,
       TakeEeprom, SwapTemp, SwapOut, SwapIn, GiveEeprom, SpawnWriter, ResetEntries,
       CountPage, Labels, Critical, Filling, Swapping, Sealing, Blocked

LEMMA NextSole ==
    ASSUME OneRecording, TypeOK, EnableArgs \subseteq {"1"}, Sole, [Next]_vars
    PROVE  Sole'
<1>0. pc \in [Radars -> Labels]
  BY DEF TypeOK
<1>1. ASSUME NEW r \in Radars, Radar(r) PROVE Sole'
  <2>1. suspended' = suspended
    BY <1>1, RadarFrame
  <2>2. pc'["hcsr1"] = "fetch"
    <3>1. CASE Fetched(r) \/ Rested(r) \/ GiveBuffer(r)
      BY <1>0, <3>1 DEF Fetched, Rested, GiveBuffer, HandOver, Sole, Radars
    <3>2. CASE \E l, next \in Labels :
                  l \notin Blocked /\ next # "dead" /\ Step(r, l, next)
      BY <1>0, <3>2 DEF Step, Blocked, Sole, Radars
    <3> QED BY <1>1, <3>1, <3>2, RadarMoves
  <2> QED BY <2>1, <2>2 DEF Sole
<1>2. CASE Writer
  BY <1>0, <1>2, WriterFrame DEF HandOver, Sole, Radars
<1>3. CASE Command
  BY <1>3 DEF Command, Enable, StartErase, UseDriver, ShellTakeDriver, radarVars, Sole
<1>4. CASE UseDone \/ StartReset
  BY <1>4, GiveDriverFrame DEF Sole
<1>5. CASE UNCHANGED vars
  BY <1>5 DEF vars, radarVars, Sole
<1> QED
  BY <1>1, <1>2, <1>3, <1>4, <1>5 DEF Next, OneRecording, Fault, WriterFault

LEMMA NextEnabled ==
    ASSUME Undisturbed, TypeOK, SessionInv, CpuInv, [Next]_vars
    PROVE  StillEnabled'
<1>0. budget \in [enable : Nat, start : Nat, use : Nat]
  BY DEF TypeOK
<1>a. ASSUME NEW r \in Radars, Radar(r)
      PROVE  r \notin suspended
  <2>1. CASE Fetched(r) \/ Rested(r) \/ GiveBuffer(r)
    BY <2>1 DEF Fetched, Rested, GiveBuffer, Runs, Ready, CpuInv
  <2>2. CASE \E l, next \in Labels :
                l \notin Blocked /\ next # "dead" /\ Step(r, l, next)
    BY <2>2 DEF Step, Runs, Ready
  <2> QED BY <1>a, <2>1, <2>2, RadarMoves
<1>1. CASE budget.enable = 0
  <2>1. budget'.enable = budget.enable \/ \E n \in EnableArgs : Enable(n)
    BY <1>0, RadarFrame, WriterFrame, GiveDriverFrame
    DEF Next, Command, StartErase, UseDriver, Spend, Fault, WriterFault, shellVars, vars
  <2> QED BY <1>0, <1>1, <2>1 DEF Enable, Spend, StillEnabled
<1>2. CASE /\ budget.enable = 1 /\ cpu = NoThread
           /\ \A r \in Radars : pc[r] = "fetch" /\ r \in suspended
  <2>1. ASSUME NEW r \in Radars, Radar(r) PROVE FALSE
    BY <1>2, <2>1, <1>a
  <2>2. CASE \E n \in EnableArgs : Enable(n)
    BY <1>0, <1>2, <2>2 DEF Enable, Spend, StillEnabled
  <2>3. CASE Command /\ ~\E n \in EnableArgs : Enable(n)
    BY <1>0, <1>2, <2>3 DEF Command, StartErase, UseDriver, ShellTakeDriver, Spend,
       radarVars, StillEnabled
  <2>4. CASE Writer
    <3>1. pc' = pc
      BY <1>2, <2>4, WriterFrame DEF HandOver, TypeOK
    <3> QED BY <1>2, <2>4, <3>1, WriterFrame DEF StillEnabled
  <2>5. CASE UseDone \/ StartReset
    BY <1>2, <2>5, GiveDriverFrame DEF StillEnabled
  <2>6. CASE UNCHANGED vars
    BY <1>2, <2>6 DEF vars, radarVars, shellVars, StillEnabled
  <2> QED
    BY <2>1, <2>2, <2>3, <2>4, <2>5, <2>6 DEF Next, Undisturbed, OneRecording, Fault,
       WriterFault
<1>3. CASE EnableArgs \subseteq {"2"}
  BY <1>3 DEF StillEnabled
<1>4. CASE EnableArgs \subseteq {"1"} /\ Sole
  BY <1>4, NextSole DEF Undisturbed, StillEnabled
<1> QED BY <1>1, <1>2, <1>3, <1>4 DEF CpuInv, StillEnabled

LEMMA NextCpu ==
    ASSUME Undisturbed, TypeOK, SessionInv, CpuInv, [Next]_vars
    PROVE  CpuInv'
<1>0. pc \in [Radars -> Labels] /\ StillEnabled'
  BY NextEnabled DEF TypeOK
<1>1. ASSUME NEW r \in Radars, NEW l \in Labels, NEW next \in Labels, l \notin Blocked,
             next # "dead", Step(r, l, next)
      PROVE  CpuInv'
  <2>1. /\ pc' = [pc EXCEPT ![r] = next] /\ UNCHANGED suspended /\ Runs(r)
        /\ cpu' = IF next \in Blocked THEN NoThread ELSE r
    BY <1>1 DEF Step
  <2>2. \A q \in Radars \ {r} : pc'[q] = pc[q] /\ pc[q] \in Aside
    BY <2>1, <1>0, AloneOnCpu
  <2>3. pc'[r] = next /\ r \notin suspended
    BY <2>1, <1>0 DEF Runs, Ready
  <2>4. pc'[r] \notin Aside => cpu' = r
    BY <1>1, <2>1, <2>3 DEF Aside, Blocked
  <2> QED BY <1>0, <2>1, <2>2, <2>3, <2>4 DEF CpuInv
<1>2. ASSUME NEW r \in Radars, Fetched(r) \/ Rested(r) PROVE CpuInv'
  <2>1. /\ UNCHANGED <<suspended, cpu>> /\ \A q \in Radars \ {r} : pc'[q] = pc[q]
        /\ \/ pc[r] = "fetch" /\ pc'[r] = "check" /\ r \notin suspended
           \/ pc'[r] = "fetch"
    BY <1>0, <1>2 DEF Fetched, Rested
  <2> QED BY <1>0, <2>1 DEF CpuInv, Aside
<1>3. ASSUME NEW r \in Radars, GiveBuffer(r) PROVE CpuInv'
  <2>1. pc[r] = "giveBuf" /\ Runs(r) /\ UNCHANGED suspended
    BY <1>3 DEF GiveBuffer
  <2>2. \A q \in Radars \ {r} : pc[q] \in Aside
    BY <2>1, AloneOnCpu
  <2>3. /\ \A q \in Radars \ {r} :
               pc'[q] = pc[q] \/ (pc[q] = "waitBuf" /\ pc'[q] = "load")
        /\ pc'[r] = IF local[r].ret THEN "finish" ELSE "rest"
        /\ cpu' = IF local[r].ret THEN r ELSE NoThread
    BY <1>0, <1>3 DEF GiveBuffer, HandOver
  <2>4. r \notin suspended
    BY <2>1 DEF Runs, Ready
  <2>5. \A q \in Radars \ {r} : /\ pc'[q] \in Aside
                                /\ pc'[q] # "fetch" => q \notin suspended
    BY <2>2, <2>3 DEF Aside, CpuInv
  <2>6. pc'[r] \notin Aside => cpu' = r
    BY <2>3 DEF Aside
  <2> QED BY <1>0, <2>1, <2>4, <2>5, <2>6 DEF CpuInv
<1>4. CASE Writer
  <2>1. /\ UNCHANGED <<suspended, cpu>>
        /\ \A q \in Radars : pc'[q] = pc[q] \/ (pc[q] = "waitEe" /\ pc'[q] = "swapTemp")
    BY <1>0, <1>4, WriterFrame DEF HandOver
  <2> QED BY <1>0, <2>1 DEF CpuInv, Aside
<1>5. CASE Command
  <2>1. UNCHANGED pc
    BY <1>5, CommandFrame
  <2>2. CASE UNCHANGED <<suspended, cpu>>
    BY <1>0, <2>1, <2>2 DEF CpuInv
  <2>3. ASSUME NEW n \in EnableArgs, Enable(n) PROVE CpuInv'
    <3>1. CASE n = "2"
      <4>1. suspended' = {} /\ cpu' = cpu
        BY <2>3, <3>1 DEF Enable
      <4> QED BY <1>0, <2>1, <4>1 DEF CpuInv
    <3>2. CASE n = "1" /\ EnableArgs \subseteq {"1"} /\ Sole
      <4>1. suspended' = {"hcsr1"} /\ cpu' = IF cpu = "hcsr1" THEN NoThread ELSE cpu
        BY <2>3, <3>2 DEF Enable
      <4>2. pc["hcsr1"] = "fetch"
        BY <3>2 DEF Sole
      <4>3. \A r \in Radars : pc[r] \notin Aside => cpu' = r
        BY <4>1, <4>2 DEF CpuInv, Aside
      <4> QED BY <1>0, <2>1, <4>1, <4>2, <4>3 DEF CpuInv
    <3>3. CASE n # "2" /\ ~(n = "1" /\ EnableArgs \subseteq {"1"} /\ Sole)
      <4>1. \A r \in Radars : pc[r] = "fetch"
        BY <2>3, <3>3 DEF Enable, Spend, CpuInv, StillEnabled
      <4> QED BY <1>0, <2>1, <4>1 DEF CpuInv, Aside
    <3> QED BY <3>1, <3>2, <3>3
  <2> QED
    BY <1>5, <2>2, <2>3 DEF Command, StartErase, UseDriver, ShellTakeDriver, radarVars
<1>6. CASE UseDone \/ StartReset
  BY <1>0, <1>6, GiveDriverFrame DEF CpuInv
<1>7. CASE UNCHANGED vars
  BY <1>0, <1>7 DEF vars, radarVars, CpuInv
<1>8. ASSUME NEW r \in Radars, Radar(r) PROVE CpuInv'
  BY <1>1, <1>2, <1>3, <1>8, RadarMoves
<1> QED
  BY <1>4, <1>5, <1>6, <1>7, <1>8
  DEF Next, Undisturbed, OneRecording, Fault, WriterFault

LEMMA CpuHolds == ASSUME Undisturbed PROVE Spec => []CpuInv
<1>1. TypeOK /\ Recording /\ CpuInv /\ [Next]_vars => CpuInv'
  BY NextCpu DEF Recording
<1>2. Init => CpuInv
  BY InitCpu
<1>3. Spec => []Recording
  BY RecordingHolds DEF Undisturbed
<1> QED
  BY <1>1, <1>2, <1>3, Typing, PTL DEF Spec

-----------------------------------------------------------------------------
(* Where the recording ends *)

\* A thread that has passed its test of is_recording and not stored its entry yet.
Due == {"waitBuf", "load", "store"}

\* Where a thread is about to enter the section, or seals a page.
Paging == {"takeBuf", "countPage"} \cup FullPage

\* The thread that is to set is_recording to false.
Ends(r) == pc[r] = "finish" \/ (pc[r] = "giveBuf" /\ local[r].ret)

\* A page is asked for while one is missing, and the thread that seals the last page
\* ends the recording. By then the other thread may wait for buffer_write_sem: its
\* entry is stored, but no page comes of it.
LimitInv ==
    /\ measurements.num_pages <= measurements.max_pages
    /\ \A r \in Radars : pc[r] \in Paging =>
          measurements.num_pages < measurements.max_pages
    /\ measurements.num_pages = measurements.max_pages =>
          /\ measurements.num_entries <= 1
          /\ \A r \in Radars : pc[r] \in Due =>
                /\ measurements.num_entries = 0
                /\ \A q \in Radars : pc[q] \in Due => q = r
          /\ is_recording => \E r \in Radars : Ends(r)
    /\ Erasing => shell.p > 0

LEMMA InitLimit == Init => LimitInv
BY DEF Init, LimitInv, Paging, FullPage, Swapping, Due, Erasing

LEMMA NextLimit ==
    ASSUME Undisturbed, TypeOK, SectionExclusive, Recording, CpuInv, LimitInv,
           [Next]_vars
    PROVE  LimitInv'
<1>0. /\ pc \in [Radars -> Labels] /\ measurements \in Measurements
      /\ local \in [Radars -> Locals]
      /\ shell \in [at : {"idle", "wait", "busy"}, erasing : BOOLEAN, p : Nat]
      /\ measurements.num_entries \in Nat /\ measurements.num_pages \in Nat
      /\ measurements.max_pages \in Nat /\ PageEntries \in Nat /\ PageEntries > 1
  BY PageEntriesPositive DEF TypeOK, Measurements, Undisturbed, OneRecording
<1>a. PICK N \in Nat, K \in Nat, M \in Nat :
           /\ measurements.num_entries = N /\ measurements.num_pages = K
           /\ measurements.max_pages = M /\ K <= M
  BY <1>0 DEF LimitInv
\* A step before which a page is missing, and that counts none.
<1>1. ASSUME K < M, measurements'.num_pages = K, measurements'.max_pages = M,
             UNCHANGED shell
      PROVE  LimitInv'
  BY <1>1 DEF LimitInv, Erasing
\* A step that makes nobody due and nobody go for a page.
<1>2. ASSUME measurements'.num_pages = K, measurements'.max_pages = M,
             measurements'.num_entries = N,
             \A q \in Radars : /\ pc'[q] \in Paging => pc[q] \in Paging
                               /\ pc'[q] \in Due => pc[q] \in Due,
             is_recording' => is_recording /\ \A q \in Radars : Ends(q) => Ends(q)',
             Erasing' => shell'.p > 0
      PROVE  LimitInv'
  <2>1. K = M /\ is_recording' => \E q \in Radars : Ends(q)'
    BY <1>a, <1>2 DEF LimitInv
  <2> QED BY <1>a, <1>2, <2>1 DEF LimitInv
<1>3. ASSUME NEW r \in Radars,
             \/ Fetched(r) \/ Rested(r) \/ LoadIndex(r) \/ TakeEeprom(r) \/ SwapTemp(r)
             \/ SwapOut(r) \/ SwapIn(r) \/ GiveEeprom(r) \/ SpawnWriter(r)
      PROVE  LimitInv'
  <2>1. /\ measurements'.num_pages = K /\ measurements'.max_pages = M
        /\ measurements'.num_entries = N /\ UNCHANGED <<is_recording, shell>>
    BY <1>0, <1>a, <1>3 DEF Fetched, Rested, LoadIndex, TakeEeprom, SwapTemp, SwapOut,
       SwapIn, GiveEeprom, SpawnWriter, Set, Step, Measurements, dataVars, sessionVars,
       shellVars
  <2>2. /\ \A q \in Radars \ {r} : pc'[q] = pc[q] /\ local'[q] = local[q]
        /\ pc[r] \notin {"finish", "giveBuf"}
        /\ pc'[r] \in Paging => pc[r] \in Paging
        /\ pc'[r] \in Due => pc[r] \in Due
    BY <1>0, <1>3 DEF Fetched, Rested, LoadIndex, TakeEeprom, SwapTemp, SwapOut, SwapIn,
       GiveEeprom, SpawnWriter, Step, SetLocal, Paging, FullPage, Swapping, Due
  <2>3. \A q \in Radars : Ends(q) => Ends(q)'
    BY <2>2 DEF Ends
  <2>4. Erasing' => shell'.p > 0
    BY <2>1 DEF LimitInv, Erasing
  <2> QED BY <1>2, <2>1, <2>2, <2>3, <2>4
<1>4. ASSUME NEW r \in Radars, TakeBuffer(r) \/ ResetEntries(r) PROVE LimitInv'
  <2>1. /\ measurements'.num_pages = K /\ measurements'.max_pages = M
        /\ UNCHANGED shell /\ pc[r] \in Paging
    BY <1>0, <1>a, <1>4 DEF TakeBuffer, ResetEntries, Set, Step, Measurements, dataVars,
       shellVars, Paging, FullPage
  <2> QED BY <1>1, <1>a, <2>1 DEF LimitInv
<1>5. ASSUME NEW r \in Radars, CheckRecording(r) PROVE LimitInv'
  <2>1. /\ pc[r] = "check" /\ Runs(r)
        /\ pc' = [pc EXCEPT ![r] = IF is_recording THEN "takeBuf" ELSE "rest"]
        /\ UNCHANGED <<measurements, local, is_recording, shell>>
    BY <1>5 DEF CheckRecording, Step, dataVars, sessionVars, shellVars
  <2>2. CASE is_recording
    <3>1. \A q \in Radars : ~Ends(q)
      BY <2>1, AloneOnCpu DEF Ends, Aside
    <3>2. K < M
      BY <1>a, <2>2, <3>1 DEF LimitInv
    <3> QED BY <1>1, <1>a, <2>1, <3>2
  <2>3. CASE ~is_recording
    <3>1. pc' = [pc EXCEPT ![r] = "rest"]
      BY <2>1, <2>3
    <3>2. \A q \in Radars : /\ pc'[q] \in Paging => pc[q] \in Paging
                            /\ pc'[q] \in Due => pc[q] \in Due
      BY <1>0, <3>1 DEF Paging, FullPage, Swapping, Due
    <3> QED BY <1>2, <1>a, <2>1, <2>3, <3>2 DEF LimitInv, Erasing
  <2> QED BY <2>2, <2>3
<1>6. ASSUME NEW r \in Radars, StopRecording(r) PROVE LimitInv'
  <2>1. /\ pc' = [pc EXCEPT ![r] = "rest"] /\ ~is_recording'
        /\ UNCHANGED <<measurements, shell>>
    BY <1>6 DEF StopRecording, Step, shellVars
  <2>2. \A q \in Radars : /\ pc'[q] \in Paging => pc[q] \in Paging
                          /\ pc'[q] \in Due => pc[q] \in Due
    BY <1>0, <2>1 DEF Paging, FullPage, Swapping, Due
  <2> QED BY <1>2, <1>a, <2>1, <2>2 DEF LimitInv, Erasing
<1>7. ASSUME NEW r \in Radars, StoreEntry(r) PROVE LimitInv'
  <2>1. /\ pc[r] = "store" /\ pc'[r] = "test" /\ UNCHANGED <<local, is_recording, shell>>
        /\ \A q \in Radars \ {r} : pc'[q] = pc[q]
    BY <1>0, <1>7 DEF StoreEntry, Step, shellVars
  <2>2. local[r].idx = N
    BY <1>a, <2>1 DEF Recording, CountInv
  <2>3. /\ measurements'.num_pages = K /\ measurements'.max_pages = M
        /\ measurements'.num_entries = N + 1
    BY <1>0, <1>a, <1>7, <2>2 DEF StoreEntry, Set, Measurements
  <2>4. CASE K < M
    BY <1>1, <2>1, <2>3, <2>4
  <2>5. CASE K = M
    <3>1. N = 0 /\ \A q \in Radars : pc[q] \in Due => q = r
      BY <1>a, <2>1, <2>5 DEF LimitInv, Due
    <3>2. \A q \in Radars : /\ pc'[q] \notin Due
                            /\ pc'[q] \in Paging => pc[q] \in Paging
      BY <2>1, <3>1 DEF Due, Paging, FullPage, Swapping
    <3>3. \A q \in Radars : pc'[q] \notin Paging
      BY <1>a, <2>5, <3>2 DEF LimitInv
    <3>4. \A q \in Radars : Ends(q) => Ends(q)'
      BY <2>1 DEF Ends
    <3>5. is_recording' => \E q \in Radars : Ends(q)'
      BY <1>a, <2>1, <2>5, <3>4 DEF LimitInv
    <3>6. measurements'.num_entries = 1
      BY <2>3, <3>1
    <3> QED BY <2>1, <2>3, <2>5, <3>2, <3>3, <3>5, <3>6 DEF LimitInv, Erasing
  <2> QED BY <1>a, <2>4, <2>5
<1>8. ASSUME NEW r \in Radars, TestFull(r) PROVE LimitInv'
  <2>1. /\ pc[r] = "test" /\ UNCHANGED <<local, measurements, is_recording, shell>>
        /\ \A q \in Radars \ {r} : pc'[q] = pc[q]
        /\ pc'[r] = IF N >= PageEntries THEN "takeEe" ELSE "giveBuf"
    BY <1>0, <1>a, <1>8 DEF TestFull, Step, dataVars, sessionVars, shellVars
  <2>2. CASE N >= PageEntries
    <3>1. K < M
      BY <1>0, <1>a, <2>2 DEF LimitInv
    <3> QED BY <1>1, <1>a, <2>1, <3>1
  <2>3. CASE ~(N >= PageEntries)
    <3>1. \A q \in Radars : /\ pc'[q] \in Paging => pc[q] \in Paging
                            /\ pc'[q] \in Due => pc[q] \in Due
                            /\ Ends(q) => Ends(q)'
      BY <2>1, <2>3 DEF Paging, FullPage, Swapping, Due, Ends
    <3> QED BY <1>2, <1>a, <2>1, <3>1 DEF LimitInv, Erasing
  <2> QED BY <2>2, <2>3
<1>9. ASSUME NEW r \in Radars, CountPage(r) PROVE LimitInv'
  <2>1. /\ pc[r] = "countPage" /\ pc'[r] = "giveBuf" /\ Runs(r) /\ UNCHANGED shell
        /\ \A q \in Radars \ {r} : pc'[q] = pc[q]
        /\ local'[r].ret = (local[r].pages + 1 = M)
        /\ measurements'.num_pages = local[r].pages + 1
        /\ measurements'.num_entries = N /\ measurements'.max_pages = M
    BY <1>0, <1>a, <1>9 DEF CountPage, Step, Set, SetLocal, Measurements, Locals,
       shellVars
  <2>2. local[r].pages = K /\ N = 0
    BY <1>a, <2>1 DEF Recording, CountInv
  <2>3. K < M
    BY <1>a, <2>1 DEF LimitInv, Paging
  <2>4. \A q \in Radars \ {r} : pc[q] \in Aside /\ pc[q] \notin Critical
    BY <2>1, AloneOnCpu DEF SectionExclusive, Critical, Sealing
  <2>5. \A q \in Radars : pc'[q] \notin Paging
    BY <2>1, <2>4 DEF Aside, Paging, FullPage, Critical, Filling, Swapping, Sealing
  <2>6. \A q, s \in Radars : pc'[q] \in Due /\ pc'[s] \in Due => q = s
    BY <2>1 DEF Due, Radars
  <2>7. K + 1 = M => Ends(r)'
    BY <2>1, <2>2 DEF Ends
  <2>8. measurements'.num_pages = K + 1 /\ K + 1 <= M
    BY <1>a, <2>1, <2>2, <2>3
  <2>9. Erasing' => shell'.p > 0
    BY <2>1 DEF LimitInv, Erasing
  <2> QED BY <2>1, <2>2, <2>5, <2>6, <2>7, <2>8, <2>9 DEF LimitInv
<1>10. ASSUME NEW r \in Radars, GiveBuffer(r) PROVE LimitInv'
  <2>1. /\ pc[r] = "giveBuf"
        /\ UNCHANGED <<local, measurements, is_recording, shell>>
        /\ pc'[r] = IF local[r].ret THEN "finish" ELSE "rest"
        /\ \A q \in Radars \ {r} :
              pc'[q] = pc[q] \/ (pc[q] = "waitBuf" /\ pc'[q] = "load")
    BY <1>0, <1>10 DEF GiveBuffer, HandOver, dataVars, sessionVars, shellVars
  <2>2. \A q \in Radars : /\ pc'[q] \in Paging => pc[q] \in Paging
                          /\ pc'[q] \in Due => pc[q] \in Due
                          /\ Ends(q) => Ends(q)'
    BY <2>1 DEF Paging, FullPage, Swapping, Due, Ends
  <2> QED BY <1>2, <1>a, <2>1, <2>2 DEF LimitInv, Erasing
<1>11. CASE Writer
  <2>1. /\ UNCHANGED <<local, measurements, is_recording>>
        /\ shell'.p = shell.p /\ (Erasing' => Erasing)
        /\ \A q \in Radars : pc'[q] = pc[q] \/ (pc[q] = "waitEe" /\ pc'[q] = "swapTemp")
    BY <1>0, <1>11, WriterFrame DEF HandOver, Erasing
  <2>2. \A q \in Radars : /\ pc'[q] \in Paging => pc[q] \in Paging
                          /\ pc'[q] \in Due => pc[q] \in Due
                          /\ Ends(q) => Ends(q)'
    BY <2>1 DEF Paging, FullPage, Swapping, Due, Ends
  <2> QED BY <1>2, <1>a, <2>1, <2>2 DEF LimitInv
<1>12. CASE Command
  <2>1. UNCHANGED <<pc, local, measurements, is_recording>>
    BY <1>12, CommandFrame
  <2>2. Erasing' => shell'.p > 0
    <3>1. CASE \E p \in Requests : StartErase(p)
      BY <3>1, RequestsAssumption DEF StartErase, ShellTakeDriver, Undisturbed
    <3>2. CASE ~\E p \in Requests : StartErase(p)
      BY <1>12, <3>2 DEF Command, Enable, UseDriver, ShellTakeDriver, Erasing, LimitInv
    <3> QED BY <3>1, <3>2
  <2> QED BY <1>2, <1>a, <2>1, <2>2 DEF Ends
<1>13. CASE UseDone
  <2>1. UNCHANGED <<pc, local, measurements, is_recording>> /\ ~Erasing'
    BY <1>0, <1>13, GiveDriverFrame DEF UseDone, dataVars, sessionVars, Erasing
  <2> QED BY <1>2, <1>a, <2>1 DEF Ends
<1>14. CASE StartReset
  <2>1. session = 0 /\ shell.p > 0
    BY <1>14 DEF StartReset, Recording, SessionInv, Erasing, TypeOK, LimitInv
  <2>2. \A q \in Radars : pc'[q] \in {"rest", "fetch", "check"}
    BY <1>14, <2>1, GiveDriverFrame DEF Recording, SessionInv
  <2>3. /\ measurements'.num_entries = 0 /\ measurements'.num_pages = 0
        /\ measurements'.max_pages = shell.p
    BY <1>14 DEF StartReset
  <2>4. shell'.at = "idle"
    BY <1>0, <1>14, GiveDriverFrame
  <2>5. shell.p \in Nat /\ ~(0 = shell.p)
    BY <1>0, <2>1
  <2> QED
    BY <2>1, <2>2, <2>3, <2>4, <2>5 DEF LimitInv, Paging, FullPage, Swapping, Erasing
<1>15. CASE UNCHANGED vars
  <2>1. UNCHANGED <<pc, local, measurements, is_recording, shell>>
    BY <1>15 DEF vars, radarVars, dataVars, sessionVars, shellVars
  <2> QED BY <1>2, <1>a, <2>1 DEF LimitInv, Erasing, Ends
<1> QED
  BY <1>3, <1>4, <1>5, <1>6, <1>7, <1>8, <1>9, <1>10, <1>11, <1>12, <1>13, <1>14, <1>15
  DEF Next, Radar, Undisturbed, OneRecording, Fault, WriterFault

LEMMA LimitHolds == ASSUME Undisturbed PROVE Spec => []LimitInv
<1>1. TypeOK /\ SectionExclusive /\ Recording /\ CpuInv /\ LimitInv /\ [Next]_vars
      => LimitInv'
  BY NextLimit
<1>2. Spec => []Recording
  BY RecordingHolds DEF Undisturbed
<1> QED
  BY <1>1, <1>2, InitLimit, Typing, SectionIsExclusive, CpuHolds, PTL DEF Spec

LEMMA PagesMonotone ==
    ASSUME NEW j \in Nat, NEW k \in Nat, j <= k
    PROVE  Pages(j) <= Pages(k)
<1>1. PICK d \in Nat : k = j + d
  OBVIOUS
<1>2. PageEntries \in Nat /\ d * PageEntries \in Nat /\ j * PageEntries \in Nat
  BY PageEntriesPositive
<1>3. k * PageEntries = j * PageEntries + d * PageEntries
  BY <1>1, <1>2
<1> QED BY <1>2, <1>3 DEF Pages

\* What the limit means for the number of entries.
LEMMA EntriesAccepted ==
    ASSUME TypeOK, RoomInv, Recording, LimitInv, NEW e \in Nat,
           measurements.num_pages = measurements.max_pages =>
               measurements.num_entries <= e
    PROVE  accepted <= measurements.max_pages * PageEntries + e
<1>1. PICK N \in Nat, K \in Nat, M \in Nat :
           /\ measurements.num_entries = N /\ measurements.num_pages = K
           /\ measurements.max_pages = M /\ K <= M /\ N <= PageEntries
           /\ K = M => N <= e
  BY DEF TypeOK, Measurements, RoomInv, LimitInv
<1>2. /\ PageEntries \in Nat /\ Pages(K) \in Nat /\ Pages(M) \in Nat
      /\ Pages(K + 1) = Pages(K) + PageEntries
  BY <1>1, PagesAdd, PageEntriesPositive
<1>3. (accepted = Pages(K + 1) /\ K < M) \/ accepted = Pages(K) + N
  <2>1. CASE \E r \in Radars : pc[r] = "countPage"
    BY <1>1, <2>1 DEF Recording, CountInv, LimitInv, Paging
  <2>2. CASE \A r \in Radars : pc[r] # "countPage"
    BY <1>1, <2>2 DEF Recording, CountInv
  <2> QED BY <2>1, <2>2
<1>4. accepted <= Pages(M) + e
  <2>1. CASE K < M
    <3>1. Pages(K + 1) <= Pages(M)
      BY <1>1, <2>1, PagesMonotone
    <3> QED BY <1>1, <1>2, <1>3, <3>1
  <2>2. CASE K = M
    BY <1>1, <1>2, <1>3, <2>2
  <2> QED BY <1>1, <2>1, <2>2
<1> QED BY <1>1, <1>4 DEF Pages

(* If no Enable suspends a sensor after Start p, the recording stops when p pages
   are full: no further page is counted, and of both sensors together one entry at
   most is stored beyond them, of the thread that waited for buffer_write_sem while
   the last page was sealed. *)
THEOREM UndisturbedStops ==
    ASSUME Undisturbed
    PROVE  Spec => [](/\ measurements.num_pages <= measurements.max_pages
                      /\ accepted <= measurements.max_pages * PageEntries + 1)
<1>1. TypeOK /\ RoomInv /\ Recording /\ LimitInv =>
          /\ measurements.num_pages <= measurements.max_pages
          /\ accepted <= measurements.max_pages * PageEntries + 1
  BY EntriesAccepted DEF LimitInv
<1>2. Spec => []Recording
  BY RecordingHolds DEF Undisturbed
<1> QED BY <1>1, <1>2, Typing, RoomHolds, LimitHolds, PTL

\* With one sensor nobody is left to store an entry after the last page.
StopInv ==
    /\ Sole
    /\ measurements.num_pages = measurements.max_pages =>
          measurements.num_entries = 0 /\ \A r \in Radars : pc[r] \notin Due

LEMMA NextStop ==
    ASSUME Undisturbed, EnableArgs \subseteq {"1"}, TypeOK, Recording, LimitInv, StopInv,
           [Next]_vars
    PROVE  StopInv'
<1>0. /\ pc \in [Radars -> Labels] /\ measurements \in Measurements
      /\ Sole'
  BY NextSole DEF TypeOK, Undisturbed, StopInv
<1>1. ASSUME measurements'.num_pages = measurements.num_pages,
             measurements'.max_pages = measurements.max_pages,
             \/ measurements.num_pages < measurements.max_pages
             \/ /\ measurements'.num_entries = measurements.num_entries
                /\ \A q \in Radars : pc'[q] \in Due => pc[q] \in Due
      PROVE  StopInv'
  <2>1. measurements.num_pages \in Nat /\ measurements.max_pages \in Nat
    BY <1>0 DEF Measurements
  <2> QED BY <1>0, <1>1, <2>1 DEF StopInv
<1>2. ASSUME NEW r \in Radars,
             \/ Fetched(r) \/ Rested(r) \/ CheckRecording(r) \/ StopRecording(r)
             \/ LoadIndex(r) \/ TestFull(r) \/ TakeEeprom(r) \/ SwapTemp(r) \/ SwapOut(r)
             \/ SwapIn(r) \/ GiveEeprom(r) \/ SpawnWriter(r) \/ GiveBuffer(r)
      PROVE  StopInv'
  <2>1. \A q \in Radars : pc'[q] \in Due => pc[q] \in Due
    BY <1>0, <1>2 DEF Fetched, Rested, CheckRecording, StopRecording, LoadIndex, TestFull,
       TakeEeprom, SwapTemp, SwapOut, SwapIn, GiveEeprom, SpawnWriter, GiveBuffer,
       HandOver, Step, Due
  <2>2. /\ measurements'.num_pages = measurements.num_pages
        /\ measurements'.max_pages = measurements.max_pages
        /\ measurements'.num_entries = measurements.num_entries
    BY <1>0, <1>2 DEF Fetched, Rested, CheckRecording, StopRecording, LoadIndex, TestFull,
       TakeEeprom, SwapTemp, SwapOut, SwapIn, GiveEeprom, SpawnWriter, GiveBuffer, Set,
       Measurements, dataVars
  <2> QED BY <1>1, <2>1, <2>2
<1>3. ASSUME NEW r \in Radars, TakeBuffer(r) \/ StoreEntry(r) \/ ResetEntries(r)
      PROVE  StopInv'
  <2>1. /\ measurements'.num_pages = measurements.num_pages
        /\ measurements'.max_pages = measurements.max_pages
        /\ pc[r] \in Paging \cup Due
    BY <1>0, <1>3 DEF TakeBuffer, StoreEntry, ResetEntries, Set, Step, Measurements,
       dataVars, Paging, FullPage, Due
  <2>2. measurements.num_pages < measurements.max_pages
    <3>1. /\ measurements.num_pages \in Nat /\ measurements.max_pages \in Nat
          /\ measurements.num_pages <= measurements.max_pages
      BY <1>0 DEF Measurements, LimitInv
    <3>2. measurements.num_pages < measurements.max_pages
          \/ measurements.num_pages # measurements.max_pages
      BY <2>1 DEF LimitInv, StopInv
    <3> QED BY <3>1, <3>2
  <2> QED BY <1>1, <2>1, <2>2
<1>4. ASSUME NEW r \in Radars, CountPage(r) PROVE StopInv'
  <2>1. /\ pc[r] = "countPage" /\ pc'[r] = "giveBuf"
        /\ \A q \in Radars \ {r} : pc'[q] = pc[q]
        /\ measurements'.num_entries = measurements.num_entries
    BY <1>0, <1>4 DEF CountPage, Step, Set, Measurements
  <2>2. measurements.num_entries = 0
    BY <2>1 DEF Recording, CountInv
  <2>3. \A q \in Radars : pc'[q] \notin Due
    BY <1>0, <2>1 DEF Sole, Due, Radars
  <2> QED BY <1>0, <2>1, <2>2, <2>3 DEF StopInv
<1>5. CASE Writer
  <2>1. \A q \in Radars : pc'[q] \in Due => pc[q] \in Due
    BY <1>0, <1>5, WriterFrame DEF HandOver, Due
  <2> QED BY <1>1, <1>5, <2>1, WriterFrame
<1>6. CASE Command \/ UseDone
  BY <1>1, <1>6, CommandFrame, GiveDriverFrame DEF UseDone, dataVars
<1>7. CASE StartReset
  <2>1. session = 0
    BY <1>7 DEF StartReset, Recording, SessionInv, Erasing, TypeOK
  <2>2. \A q \in Radars : pc'[q] \notin Due
    BY <1>7, <2>1, GiveDriverFrame DEF Recording, SessionInv, Due
  <2>3. measurements'.num_entries = 0
    BY <1>7 DEF StartReset
  <2> QED BY <1>0, <2>2, <2>3 DEF StopInv
<1>8. CASE UNCHANGED vars
  BY <1>0, <1>8 DEF vars, radarVars, dataVars, StopInv
<1> QED
  BY <1>2, <1>3, <1>4, <1>5, <1>6, <1>7, <1>8
  DEF Next, Radar, Undisturbed, OneRecording, Fault, WriterFault

(* With one sensor enabled the recording stops exactly there. That it needs the
   sensor to stay enabled is what the run RecorderSuspended shows. *)
THEOREM OneSensorStops ==
    ASSUME Undisturbed, EnableArgs \subseteq {"1"} PROVE Spec => []StopsAfterPages
<1>1. TypeOK /\ RoomInv /\ Recording /\ LimitInv /\ StopInv => StopsAfterPages
  <2> SUFFICES ASSUME TypeOK, RoomInv, Recording, LimitInv, StopInv PROVE StopsAfterPages
    OBVIOUS
  <2>1. measurements.num_pages = measurements.max_pages => measurements.num_entries <= 0
    BY DEF StopInv
  <2>2. accepted <= measurements.max_pages * PageEntries + 0
    BY <2>1, EntriesAccepted
  <2>3. measurements.max_pages * PageEntries \in Nat
    BY PageEntriesPositive DEF TypeOK, Measurements
  <2>4. measurements.max_pages * PageEntries + 0 = measurements.max_pages * PageEntries
    BY <2>3
  <2> QED BY <2>2, <2>4 DEF StopsAfterPages, LimitInv
<1>2. Init => StopInv
  BY DEF Init, StopInv, Sole, Radars, Due
<1>3. TypeOK /\ Recording /\ LimitInv /\ StopInv /\ [Next]_vars => StopInv'
  BY NextStop
<1>4. Spec => []Recording
  BY RecordingHolds DEF Undisturbed
<1> QED BY <1>1, <1>2, <1>3, <1>4, Typing, RoomHolds, LimitHolds, PTL DEF Spec

-----------------------------------------------------------------------------
(* What reaches the EEPROM *)

\* A page was sealed, and the next one is being counted.
Counting == {"reset", "countPage"}

\* The writer holds a page that is not in the EEPROM yet.
Unsaved == writer.at \in ToWrite \cup {"xfer"}

SavedInv ==
    /\ \A r \in Radars : pc[r] \in Counting =>
          writer.at = "start" /\ measurements.num_pages = Len(flashed)
    /\ (\A r \in Radars : pc[r] \notin Counting) =>
          measurements.num_pages = Len(flashed) + (IF Unsaved THEN 1 ELSE 0)
    /\ writer.at \in (ToWrite \cup {"xfer"}) \ {"start"} =>
          writer.page = measurements.num_pages
    /\ writer.at \in ToWrite => Stored(writer.buffer, Len(flashed), PageEntries)
    /\ writer.at = "xfer" => writer.data.n = Pages(Len(flashed)) + 1
    /\ \A i \in 1 .. Len(flashed) : flashed[i].page = i

LEMMA InitSaved == Init => SavedInv
BY DEF Init, SavedInv, Counting, Unsaved, ToWrite

\* A step that counts nothing and leaves the writer and its buffer alone.
LEMMA SavedFrame ==
    ASSUME SavedInv,
           measurements'.num_pages = measurements.num_pages,
           UNCHANGED <<flashed, session, writer>>,
           \A r \in Radars : pc'[r] \in Counting <=> pc[r] \in Counting,
           writer.at \in ToWrite => mem'[writer.buffer] = mem[writer.buffer]
    PROVE  SavedInv'
<1>1. writer.at \in ToWrite => Stored(writer.buffer, Len(flashed), PageEntries)'
  BY DEF SavedInv, Stored, Pages
<1> QED BY <1>1 DEF SavedInv, Unsaved, Pages

LEMMA NextSaved ==
    ASSUME Undisturbed, ~FailingBus, TypeOK, SectionExclusive, Recording, BufferInv,
           CpuInv, SavedInv, [Next]_vars
    PROVE  SavedInv'
<1>0. /\ pc \in [Radars -> Labels] /\ measurements \in Measurements
      /\ local \in [Radars -> Locals] /\ writer \in Writers
      /\ mem \in [Buffers -> [Slots -> Entries]] /\ flashed \in Seq(PageWrites)
      /\ measurements.num_pages \in Nat /\ Len(flashed) \in Nat
      /\ PageEntries \in Nat /\ PageEntries > 1 /\ 0 \in Slots
  BY PageEntriesPositive DEF TypeOK, Measurements, Writers, Undisturbed, OneRecording
<1>1. ASSUME NEW r \in Radars,
             \/ Fetched(r) \/ Rested(r) \/ CheckRecording(r) \/ StopRecording(r)
             \/ TakeBuffer(r) \/ LoadIndex(r) \/ TestFull(r) \/ TakeEeprom(r) \/ SwapTemp(r)
      PROVE  SavedInv'
  <2>1. /\ UNCHANGED <<measurements, flashed, session, writer, mem>>
        /\ \A q \in Radars : pc'[q] \in Counting <=> pc[q] \in Counting
    BY <1>0, <1>1 DEF Fetched, Rested, CheckRecording, StopRecording, TakeBuffer,
       LoadIndex, TestFull, TakeEeprom, SwapTemp, Step, dataVars, sessionVars, writerVars,
       Counting
  <2> QED BY <2>1, SavedFrame
<1>2. ASSUME NEW r \in Radars, StoreEntry(r) PROVE SavedInv'
  <2>1. /\ UNCHANGED <<flashed, session, writer>>
        /\ measurements'.num_pages = measurements.num_pages
        /\ \A q \in Radars : pc'[q] \in Counting <=> pc[q] \in Counting
    BY <1>0, <1>2 DEF StoreEntry, Step, Set, Measurements, Counting
  <2>2. writer.at \in ToWrite => writer.buffer # measurements.in_buffer
    BY <1>2 DEF StoreEntry, Step, BufferInv, SectionExclusive, Critical, Filling, Swapping
  <2>3. writer.at \in ToWrite => mem'[writer.buffer] = mem[writer.buffer]
    BY <1>0, <1>2, <2>2 DEF StoreEntry, Writers
  <2> QED BY <2>1, <2>3, SavedFrame
<1>3. ASSUME NEW r \in Radars, SwapOut(r) \/ SwapIn(r) \/ GiveBuffer(r) PROVE SavedInv'
  <2>1. /\ UNCHANGED <<flashed, session, writer, mem>>
        /\ measurements'.num_pages = measurements.num_pages
        /\ \A q \in Radars : pc'[q] \in Counting <=> pc[q] \in Counting
    BY <1>0, <1>3 DEF SwapOut, SwapIn, GiveBuffer, HandOver, Step, Set, Measurements,
       dataVars, sessionVars, Counting
  <2> QED BY <2>1, SavedFrame
<1>4. ASSUME NEW r \in Radars, GiveEeprom(r) PROVE SavedInv'
  <2>1. writer.at # "waitEe"
    BY DEF Recording, TurnInv
  <2>2. /\ UNCHANGED <<measurements, flashed, session, writer, mem>>
        /\ \A q \in Radars : pc'[q] \in Counting <=> pc[q] \in Counting
    BY <1>0, <1>4, <2>1 DEF GiveEeprom, Step, dataVars, sessionVars, Counting
  <2> QED BY <2>2, SavedFrame
<1>5. ASSUME NEW r \in Radars, SpawnWriter(r) PROVE SavedInv'
  <2>1. /\ UNCHANGED <<measurements, flashed, session, mem>>
        /\ pc[r] = "spawn" /\ pc'[r] = "reset" /\ Runs(r)
        /\ writer' = [writer EXCEPT !.at = "start", !.buffer = measurements.out_buffer]
    BY <1>0, <1>5 DEF SpawnWriter, Step, dataVars, sessionVars, Undisturbed, OneRecording
  <2>2. writer'.at = "start" /\ writer'.buffer = measurements.out_buffer
    BY <1>0, <2>1 DEF Writers
  <2>3. \A q \in Radars : pc[q] \notin Counting
    BY <2>1 DEF SectionExclusive, Critical, Sealing, Counting
  <2>4. writer.at \in {"none", "exit"}
    BY <2>1 DEF Recording, TurnInv
  <2>5. measurements.num_pages = Len(flashed)
    BY <1>0, <2>3, <2>4 DEF SavedInv, Unsaved, ToWrite
  <2>6. Stored(measurements.out_buffer, Len(flashed), PageEntries)
    BY <2>1, <2>5 DEF BufferInv
  <2>7. Stored(writer.buffer, Len(flashed), PageEntries)'
    BY <2>1, <2>2, <2>6 DEF Stored, Pages
  <2>8. pc'[r] \in Counting
    BY <2>1 DEF Counting
  <2> QED BY <2>1, <2>2, <2>5, <2>7, <2>8 DEF SavedInv, ToWrite
<1>6. ASSUME NEW r \in Radars, ResetEntries(r) PROVE SavedInv'
  <2>1. /\ UNCHANGED <<flashed, session, writer, mem>>
        /\ measurements'.num_pages = measurements.num_pages
        /\ \A q \in Radars : pc'[q] \in Counting <=> pc[q] \in Counting
    BY <1>0, <1>6 DEF ResetEntries, Step, Set, Measurements, sessionVars, Counting
  <2> QED BY <2>1, SavedFrame
<1>7. ASSUME NEW r \in Radars, CountPage(r) PROVE SavedInv'
  <2>1. /\ UNCHANGED <<flashed, session, writer, mem>>
        /\ pc[r] = "countPage" /\ pc'[r] = "giveBuf" /\ Runs(r)
        /\ \A q \in Radars \ {r} : pc'[q] = pc[q]
        /\ measurements'.num_pages = local[r].pages + 1
    BY <1>0, <1>7 DEF CountPage, Step, Set, Measurements, sessionVars
  <2>2. local[r].pages = measurements.num_pages
    BY <2>1 DEF Recording, CountInv
  <2>3. writer.at = "start" /\ measurements.num_pages = Len(flashed)
    BY <2>1 DEF SavedInv, Counting
  <2>4. \A q \in Radars : pc'[q] \notin Counting
    BY <2>1 DEF SectionExclusive, Critical, Sealing, Counting
  <2>5. Stored(writer.buffer, Len(flashed), PageEntries)'
    BY <2>1, <2>3 DEF SavedInv, Stored, Pages, ToWrite
  <2> QED BY <2>1, <2>2, <2>3, <2>4, <2>5 DEF SavedInv, Unsaved, ToWrite
<1>8. CASE Writer
  <2>1. /\ \A q \in Radars : pc[q] \notin Counting /\ pc'[q] \notin Counting
        /\ UNCHANGED <<measurements, mem, session>>
    BY <1>0, <1>8, WriterAlone, WriterFrame DEF HandOver, Counting
  <2>2. measurements.num_pages = Len(flashed) + (IF Unsaved THEN 1 ELSE 0)
    BY <2>1 DEF SavedInv
  <2>3. CASE WriterStart \/ WriterTakeEeprom \/ WriterTakeDriver
    <3>1. /\ writer.at \in ToWrite /\ writer'.at \in ToWrite \ {"start"}
          /\ writer'.buffer = writer.buffer /\ UNCHANGED flashed
      BY <1>0, <2>3 DEF WriterStart, WriterTakeEeprom, WriterTakeDriver, WriterStep,
         WriterRuns, Writers, ToWrite
    <3>2. writer'.page = measurements.num_pages
      BY <1>0, <2>3 DEF WriterStart, WriterTakeEeprom, WriterTakeDriver, WriterStep,
         WriterRuns, Writers, SavedInv, ToWrite
    <3>3. Stored(writer.buffer, Len(flashed), PageEntries)'
      BY <2>1, <3>1 DEF SavedInv, Stored, Pages
    <3> QED BY <2>1, <2>2, <3>1, <3>2, <3>3 DEF SavedInv, Unsaved, ToWrite
  <2>4. CASE WriterCopy
    <3>1. /\ writer.at = "copy" /\ writer'.at = "xfer" /\ writer'.page = writer.page
          /\ writer'.data = mem[writer.buffer][0] /\ UNCHANGED flashed
      BY <1>0, <2>4 DEF WriterCopy, WriterRuns, Writers
    <3>2. /\ Stored(writer.buffer, Len(flashed), PageEntries)
          /\ writer.page = measurements.num_pages
      BY <3>1 DEF SavedInv, ToWrite
    <3>3. Pages(Len(flashed)) + 0 + 1 = Pages(Len(flashed)) + 1
      <4>1. Pages(Len(flashed)) \in Nat
        BY <1>0, PagesAdd
      <4> QED BY <4>1
    <3>4. writer'.data.n = Pages(Len(flashed)) + 1
      <4>1. mem[writer.buffer][0] = [session |-> session, n |-> Pages(Len(flashed)) + 0 + 1]
        <5>1. 0 \in Slots /\ 0 < PageEntries
          BY <1>0
        <5> QED BY <3>2, <5>1 DEF Stored
      <4> QED BY <3>1, <3>3, <4>1
    <3>5. measurements'.num_pages = Len(flashed') + (IF Unsaved' THEN 1 ELSE 0)
      BY <2>1, <2>2, <3>1 DEF Unsaved, ToWrite
    <3>6. writer'.data.n = Pages(Len(flashed')) + 1
      BY <3>1, <3>4
    <3>7. /\ \A q \in Radars : pc'[q] \notin Counting
          /\ writer'.at = "xfer" /\ writer'.at \notin ToWrite
          /\ writer'.page = measurements'.num_pages
      BY <2>1, <3>1, <3>2 DEF ToWrite
    <3>8. \A i \in 1 .. Len(flashed') : flashed'[i].page = i
      BY <3>1 DEF SavedInv
    <3> QED BY <3>5, <3>6, <3>7, <3>8 DEF SavedInv
  <2>5. CASE WriterTransferred
    <3>1. /\ writer.at = "xfer" /\ writer'.at = "give"
          /\ flashed' = Append(flashed, [page |-> writer.page, data |-> writer.data])
      BY <1>0, <2>5 DEF WriterTransferred, WriterStep, WriterRuns, Writers
    <3>2. Len(flashed') = Len(flashed) + 1
      BY <1>0, <3>1
    <3>3. measurements'.num_pages = Len(flashed')
      BY <2>1, <2>2, <3>1, <3>2 DEF Unsaved
    <3>4. Len(flashed') = Len(flashed') + (IF Unsaved' THEN 1 ELSE 0)
      BY <1>0, <3>1, <3>2 DEF Unsaved, ToWrite
    <3>5. writer.page = Len(flashed) + 1
      BY <2>2, <3>1 DEF SavedInv, Unsaved, ToWrite
    <3>6. \A i \in 1 .. Len(flashed') : flashed'[i].page = i
      BY <1>0, <3>1, <3>2, <3>5 DEF SavedInv
    <3> QED BY <2>1, <3>1, <3>3, <3>4, <3>6 DEF SavedInv, ToWrite
  <2>6. CASE WriterGiveEeprom \/ WriterExit
    <3>1. /\ writer.at \in {"give", "exit"} /\ writer'.at \in {"exit", "none"}
          /\ UNCHANGED flashed
      BY <1>0, <2>6 DEF WriterGiveEeprom, WriterExit, WriterStep, WriterRuns, Writers
    <3> QED BY <2>1, <2>2, <3>1 DEF SavedInv, Unsaved, ToWrite
  <2> QED BY <1>8, <2>3, <2>4, <2>5, <2>6 DEF Writer
<1>9. CASE Command
  BY <1>9, CommandFrame, SavedFrame
<1>10. CASE UseDone
  <2>1. /\ UNCHANGED <<pc, measurements, mem, session, flashed>>
        /\ \/ writer' = writer
           \/ writer.at = "waitDrv" /\ writer' = [writer EXCEPT !.at = "copy"]
    BY <1>10, GiveDriverFrame DEF UseDone, dataVars, sessionVars
  <2>2. CASE writer' = writer
    BY <2>1, <2>2, SavedFrame
  <2>3. CASE writer.at = "waitDrv" /\ writer' = [writer EXCEPT !.at = "copy"]
    <3>1. /\ writer'.at = "copy" /\ writer'.buffer = writer.buffer
          /\ writer'.page = writer.page
      BY <1>0, <2>3 DEF Writers
    <3>2. Stored(writer.buffer, Len(flashed), PageEntries)'
      BY <2>1, <2>3, <3>1 DEF SavedInv, Stored, Pages, ToWrite
    <3> QED BY <2>1, <2>3, <3>1, <3>2 DEF SavedInv, Unsaved, ToWrite
  <2> QED BY <2>1, <2>2, <2>3
<1>11. CASE StartReset
  <2>1. session = 0
    BY <1>11 DEF StartReset, Recording, SessionInv, Erasing, TypeOK
  <2>2. /\ \A q \in Radars : pc'[q] \in {"rest", "fetch", "check"}
        /\ writer'.at = "none" /\ flashed' = <<>>
    BY <1>11, <2>1, GiveDriverFrame DEF Recording, SessionInv
  <2>3. measurements'.num_pages = 0
    BY <1>11 DEF StartReset
  <2> QED BY <2>2, <2>3 DEF SavedInv, Unsaved, ToWrite, Counting
<1>12. CASE UNCHANGED vars
  BY <1>12, SavedFrame DEF vars, radarVars, dataVars, sessionVars, writerVars
<1> QED
  BY <1>1, <1>2, <1>3, <1>4, <1>5, <1>6, <1>7, <1>8, <1>9, <1>10, <1>11, <1>12
  DEF Next, Radar, Undisturbed, OneRecording, Fault, WriterFault, Recording, SessionInv

LEMMA SavedHolds == ASSUME Undisturbed, ~FailingBus PROVE Spec => []SavedInv
<1>1. TypeOK /\ SectionExclusive /\ Recording /\ BufferInv /\ CpuInv /\ SavedInv
      /\ [Next]_vars => SavedInv'
  BY NextSaved
<1>2. Spec => []Recording /\ []BufferInv
  BY RecordingHolds, BufferHolds DEF Undisturbed
<1> QED
  BY <1>1, <1>2, InitSaved, Typing, SectionIsExclusive, CpuHolds, PTL DEF Spec

-----------------------------------------------------------------------------
(* Refinement of PageLog *)

\* What PageLog sees of a sequence of page writes.
Logged(f) == [i \in DOMAIN f |-> [page |-> f[i].page, first |-> f[i].data.n]]

LEMMA LoggedLen ==
    ASSUME NEW f \in Seq(PageWrites)
    PROVE  /\ Logged(f) \in Seq([page : Nat, first : Nat])
           /\ Len(Logged(f)) = Len(f)
<1>0. \A i \in 1 .. Len(f) : f[i] \in PageWrites
  OBVIOUS
<1>1. \A i \in 1 .. Len(f) : f[i].page \in Nat /\ f[i].data.n \in Nat
  BY <1>0 DEF PageWrites, Entries
<1>2. Logged(f) = [i \in 1 .. Len(f) |-> [page |-> f[i].page, first |-> f[i].data.n]]
  BY DEF Logged
<1> QED BY <1>1, <1>2

LEMMA LoggedAppend ==
    ASSUME NEW f \in Seq(PageWrites), NEW w \in PageWrites
    PROVE  Logged(Append(f, w)) = Append(Logged(f), [page |-> w.page,
    first |-> w.data.n])
<1> DEFINE g == Append(f, w)
           e == [page |-> w.page, first |-> w.data.n]
<1>1. /\ g \in Seq(PageWrites) /\ Len(g) = Len(f) + 1 /\ Len(f) \in Nat
      /\ DOMAIN g = 1 .. Len(f) + 1
      /\ \A i \in 1 .. Len(f) : g[i] = f[i]
      /\ g[Len(f) + 1] = w
  OBVIOUS
<1>2. e \in [page : Nat, first : Nat]
  BY DEF PageWrites, Entries
<1>3. /\ DOMAIN Append(Logged(f), e) = 1 .. Len(f) + 1
      /\ \A i \in 1 .. Len(f) : Append(Logged(f), e)[i] = Logged(f)[i]
      /\ Append(Logged(f), e)[Len(f) + 1] = e
  BY <1>1, <1>2, LoggedLen
<1>4. \A i \in 1 .. Len(f) + 1 : Logged(g)[i] = Append(Logged(f), e)[i]
  BY <1>1, <1>3 DEF Logged
<1>5. /\ Logged(g) = [i \in 1 .. Len(f) + 1 |-> Logged(g)[i]]
      /\ Append(Logged(f), e) = [i \in 1 .. Len(f) + 1 |-> Append(Logged(f), e)[i]]
  BY <1>1, <1>2, <1>3, LoggedLen DEF Logged
<1> QED BY <1>4, <1>5

\* What PageLog sees of the recorder, and of a step that it does not see.
LogView == <<measurements.max_pages, measurements.num_pages, accepted, flashed>>

LEMMA LogStutters == LogView' = LogView => UNCHANGED Log!vars
BY DEF LogView, Log!vars, PageData

LEMMA StoreAccepts ==
    ASSUME TypeOK, SectionExclusive, RoomInv, Recording, LimitInv, NEW r \in Radars,
           StoreEntry(r)
    PROVE  Log!Accept \/ UNCHANGED Log!vars
<1>1. /\ pc[r] = "store" /\ accepted' = accepted + 1 /\ UNCHANGED flashed
      /\ measurements'.max_pages = measurements.max_pages
      /\ measurements'.num_pages = measurements.num_pages
  BY DEF StoreEntry, Step, Set, TypeOK, Measurements
<1>2. PICK N \in Nat, K \in Nat, M \in Nat, a \in Nat :
           /\ measurements.num_entries = N /\ measurements.num_pages = K
           /\ measurements.max_pages = M /\ accepted = a /\ K <= M
  BY DEF TypeOK, Measurements, LimitInv
<1>3. N < PageEntries
  BY <1>1, <1>2 DEF Recording, CountInv, RoomInv
<1>4. \A q \in Radars : pc[q] # "countPage"
  BY <1>1 DEF SectionExclusive, Critical, Filling, Sealing
<1>5. a = Pages(K) + N
  BY <1>2, <1>4 DEF Recording, CountInv
<1>6. /\ PageEntries \in Nat /\ Pages(K) \in Nat /\ Pages(M) \in Nat
      /\ Pages(K + 1) = Pages(K) + PageEntries
  BY <1>2, PagesAdd, PageEntriesPositive
<1>7. /\ PageData = IF a < Pages(M) THEN a ELSE Pages(M)
      /\ PageData' = IF a + 1 < Pages(M) THEN a + 1 ELSE Pages(M)
  BY <1>1, <1>2 DEF PageData, Pages
<1>8. CASE K < M
  <2>1. Pages(K + 1) <= Pages(M)
    BY <1>2, <1>8, PagesMonotone
  <2>2. PageData = a /\ PageData' = a + 1 /\ a < Pages(K + 1)
    BY <1>2, <1>3, <1>5, <1>6, <1>7, <2>1
  <2> QED BY <1>1, <1>2, <1>8, <2>2 DEF Log!Accept, Pages
<1>9. CASE K = M
  <2>1. PageData' = PageData
    BY <1>2, <1>5, <1>6, <1>7, <1>9
  <2> QED BY <1>1, <2>1 DEF Log!vars
<1> QED BY <1>2, <1>8, <1>9

LEMMA CountSeals ==
    ASSUME TypeOK, Recording, LimitInv, SavedInv, NEW r \in Radars, CountPage(r)
    PROVE  Log!Seal
<1>1. /\ pc[r] = "countPage" /\ UNCHANGED <<accepted, flashed>>
      /\ measurements'.max_pages = measurements.max_pages
      /\ measurements'.num_pages = local[r].pages + 1
  BY DEF CountPage, Step, Set, TypeOK, Measurements, sessionVars
<1>2. /\ local[r].pages = measurements.num_pages
      /\ accepted = Pages(measurements.num_pages + 1)
  BY <1>1 DEF Recording, CountInv
<1>3. Len(Logged(flashed)) = measurements.num_pages
  BY <1>1, LoggedLen DEF SavedInv, Counting, TypeOK
<1>4. PageData = Pages(measurements.num_pages + 1) /\ PageData' = PageData
  <2>1. PICK K \in Nat, M \in Nat : /\ measurements.num_pages = K
                                    /\ measurements.max_pages = M /\ K < M
    BY <1>1 DEF TypeOK, Measurements, LimitInv, Paging
  <2>2. Pages(K + 1) <= Pages(M) /\ Pages(K + 1) \in Nat /\ Pages(M) \in Nat
    BY <2>1, PagesMonotone, PagesAdd
  <2>3. PageData = IF accepted < Pages(M) THEN accepted ELSE Pages(M)
    BY <2>1 DEF PageData, Pages
  <2>4. PageData = Pages(K + 1)
    BY <1>2, <2>1, <2>2, <2>3
  <2> QED BY <1>1, <2>1, <2>4 DEF PageData
<1> QED BY <1>1, <1>2, <1>3, <1>4 DEF Log!Seal, Pages, Logged

LEMMA TransferCommits ==
    ASSUME TypeOK, ~FailingBus, CpuInv, SavedInv, WriterTransferred
    PROVE  Log!Commit
<1> DEFINE w == [page |-> writer.page, data |-> writer.data]
<1>1. /\ writer.at = "xfer" /\ UNCHANGED <<measurements, accepted>>
      /\ flashed' = Append(flashed, w)
  BY DEF WriterTransferred, WriterStep, WriterRuns, dataVars, sessionVars
<1>2. \A q \in Radars : pc[q] \notin Counting
  BY WriterAlone DEF Writer, Counting
<1>3. flashed \in Seq(PageWrites) /\ w \in PageWrites
  BY DEF TypeOK, PageWrites
<1>4. /\ measurements.num_pages = Len(flashed) + 1
      /\ writer.page = Len(flashed) + 1
      /\ writer.data.n = Pages(Len(flashed)) + 1
  BY <1>1, <1>2 DEF SavedInv, Unsaved, ToWrite
<1>5. Len(Logged(flashed)) = Len(flashed) /\ Len(flashed) \in Nat
  BY <1>3, LoggedLen
<1>6. Logged(flashed') = Append(Logged(flashed), [page |-> w.page, first |-> w.data.n])
  BY <1>1, <1>3, LoggedAppend
<1>7. Logged(flashed') =
          Append(Logged(flashed), [page |-> 1 + Len(Logged(flashed)),
                                   first |-> Len(Logged(flashed)) * PageEntries + 1])
  BY <1>4, <1>5, <1>6 DEF Pages
<1>8. Len(Logged(flashed)) < measurements.num_pages
  BY <1>4, <1>5
<1>9. PageData' = PageData
  BY <1>1 DEF PageData
<1> QED BY <1>1, <1>7, <1>8, <1>9 DEF Log!Commit, Logged

(* The pages of an undisturbed recording over a bus that does not fail are numbered
   from 1: num_pages is read by the writer after the page was counted. The README of
   the assignment says that Start records from page 0, which is never written. *)
THEOREM PagesCountFromOne ==
    ASSUME Undisturbed, ~FailingBus
    PROVE  Spec => [](\A i \in 1 .. Len(flashed) : flashed[i].page = i)
<1>1. SavedInv => \A i \in 1 .. Len(flashed) : flashed[i].page = i
  BY DEF SavedInv
<1> QED BY <1>1, SavedHolds, PTL

(* An undisturbed recording over a bus that does not fail does what PageLog
   allows, with one sensor or both and however long a page takes to write: each
   page is saved once, in order and with its own number, before another page is
   full, and nothing else is saved. That the pages are saved at last (the fairness
   of PageLog) is left to the run RecorderSession. *)
THEOREM RecordingKeepsPageLog ==
    ASSUME Undisturbed, ~FailingBus PROVE Spec => Log!Safety
<1>1. Init => Log!Init
  <2> SUFFICES ASSUME Init PROVE Log!Init
    OBVIOUS
  <2>1. PageData = 0
    BY PageEntriesPositive DEF Init, PageData
  <2> QED BY <2>1 DEF Init, Log!Init
<1>2. ASSUME TypeOK, SectionExclusive, RoomInv, Recording, CpuInv, LimitInv, SavedInv,
             [Next]_vars
      PROVE  [Log!Next]_(Log!vars)
  <2>1. ASSUME NEW r \in Radars, StoreEntry(r)
        PROVE  Log!Next \/ UNCHANGED Log!vars
    BY <1>2, <2>1, StoreAccepts DEF Log!Next
  <2>2. ASSUME NEW r \in Radars, CountPage(r) PROVE Log!Next
    BY <1>2, <2>2, CountSeals DEF Log!Next
  <2>3. CASE WriterTransferred
    BY <1>2, <2>3, TransferCommits DEF Log!Next
  <2>4. CASE StartReset
    <3>1. /\ session = 0 /\ shell.p \in Nat /\ shell.p > 0 /\ UNCHANGED flashed
          /\ measurements'.max_pages = shell.p /\ measurements'.num_pages = 0
          /\ accepted' = 0
      BY <1>2, <2>4, GiveDriverFrame DEF StartReset, Recording, SessionInv, Erasing,
         TypeOK, LimitInv
    <3>2. measurements.max_pages = 0 /\ measurements.num_pages = 0 /\ accepted = 0
      BY <1>2, <3>1 DEF Recording, SessionInv
    <3>3. PageData = 0 /\ PageData' = 0
      <4>1. 0 * PageEntries = 0 /\ shell.p * PageEntries \in Nat
            /\ 0 < shell.p * PageEntries
        BY <3>1, PageEntriesPositive
      <4> QED BY <3>1, <3>2, <4>1 DEF PageData
    <3> QED BY <3>1, <3>2, <3>3 DEF Log!Next, Log!Begin
  <2>5. ASSUME NEW r \in Radars, Radar(r), ~StoreEntry(r), ~CountPage(r)
        PROVE  LogView' = LogView
    BY <1>2, <2>5, RadarFrame DEF Radar, Fetched, Rested, CheckRecording, StopRecording,
       TakeBuffer, LoadIndex, TestFull, TakeEeprom, SwapTemp, SwapOut, SwapIn,
       GiveEeprom, SpawnWriter, ResetEntries, GiveBuffer, Set, TypeOK, Measurements,
       dataVars, sessionVars, LogView
  <2>6. CASE Writer /\ ~WriterTransferred
    <3>1. UNCHANGED <<measurements, accepted>>
      BY <2>6, WriterFrame
    <3>2. UNCHANGED flashed
      BY <2>6 DEF Writer, WriterStart, WriterTakeEeprom, WriterTakeDriver, WriterCopy,
         WriterGiveEeprom, WriterExit
    <3> QED BY <3>1, <3>2, LogStutters DEF LogView
  <2>7. CASE Command \/ UseDone \/ UNCHANGED vars
    <3>1. UNCHANGED <<measurements, accepted, flashed>>
      BY <2>7, CommandFrame, GiveDriverFrame DEF UseDone, dataVars, sessionVars,
         writerVars, vars
    <3> QED BY <3>1, LogStutters DEF LogView
  <2> QED
    BY <1>2, <2>1, <2>2, <2>3, <2>4, <2>5, <2>6, <2>7, LogStutters
    DEF Next, Undisturbed, OneRecording, Fault, WriterFault, Recording, SessionInv
<1>3. Spec => []Recording
  BY RecordingHolds DEF Undisturbed
<1> QED
  BY <1>1, <1>2, <1>3, Typing, SectionIsExclusive, RoomHolds, CpuHolds, LimitHolds,
     SavedHolds, PTL DEF Spec, Log!Safety

=============================================================================
