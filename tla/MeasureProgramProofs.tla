-------------------------- MODULE MeasureProgramProofs --------------------------
(***************************************************************************)
(* Tests 1 and 2 for a buffer of any size. The heart of the argument is the *)
(* count of int_sem: it stays at BufferSize + 1 from the end of a phase to  *)
(* the reset of the next one, and an interrupt that finds it there touches  *)
(* neither the index nor a cell. The whole program of assignment 3 behaves  *)
(* as its tests alone, the two threads in the background take turns for as  *)
(* long as they exist, and the results show what they did to the latencies. *)
(***************************************************************************)
EXTENDS MeasureProgram, SumTheory

Before == {"pinmux", "clear", "index", "buffer", "reset", "run"}
During == {"enable", "wait", "stamp", "pulse", "low"}

\* Where main is, and what it has set up there.
Places ==
    /\ at \in {"pinmux", "clear"} => phase = 2
    /\ at \in {"stamp", "pulse", "low"} => phase = 1
    /\ at = "run" <=> phase = 4 /\ at \notin {"index", "buffer"}
    /\ at \in {"buffer", "reset"} => buffer_index = 0
    /\ at \in During \cup {"reset"} => buffer = Phases[phase]
    /\ at \in During /\ int_sem <= BufferSize => buffer_index = int_sem

\* What the interrupts can do.
Interrupts ==
    /\ pwm => phase > 1
    /\ edge => at = "low"
    /\ phase = 1 /\ at \in {"index", "buffer", "reset", "enable"} =>
           ~enabled /\ int_sem = 0
    /\ phase > 1 /\ at \in Before => int_sem = BufferSize + 1
    /\ done_mut = 1 => int_sem = BufferSize + 1 /\ at \in {"enable", "wait", "low"}

Inv == TypeOK /\ Places /\ Interrupts

LEMMA PhaseBuffers ==
    \A p \in 1 .. 4 : Phases[p] \in Buffers /\ (Phases[p] = "switch" <=> p = 4)
  BY DEF Phases, Buffers

LEMMA InitInv == Init => Inv
<1> SUFFICES ASSUME Init PROVE Inv
  OBVIOUS
<1> USE BufferSizeAssumption DEF Init
<1>1. TypeOK
  <2>1. cells \in [Buffers -> [Slots -> Kinds]]
    BY DEF Kinds
  <2>2. enabled \in BOOLEAN /\ pwm \in BOOLEAN /\ edge \in BOOLEAN
    BY Zenon
  <2> QED
    BY <2>1, <2>2 DEF TypeOK, Labels
<1>2. Places
  BY DEF Places, During
<1>3. Interrupts
  BY DEF Interrupts, Before
<1> QED
  BY <1>1, <1>2, <1>3 DEF Inv

LEMMA MainInv == Inv /\ Main => Inv'
<1> SUFFICES ASSUME Inv, Main PROVE Inv'
  OBVIOUS
<1> USE BufferSizeAssumption, PhaseBuffers
    DEF Inv, TypeOK, Places, Interrupts, Labels, Before, During, MainStep
<1>1. CASE SelectPwm
  BY <1>1 DEF SelectPwm
<1>2. CASE ClearBuffers
  BY <1>2 DEF ClearBuffers, Kinds
<1>3. CASE ResetIndex
  BY <1>3 DEF ResetIndex
<1>4. CASE SelectBuffer
  <2>1. at' = (IF phase = 4 THEN "run" ELSE "reset") /\ buffer' \in Buffers
    BY <1>4 DEF SelectBuffer
  <2>2. TypeOK' /\ Places'
    BY <1>4, <2>1 DEF SelectBuffer
  <2>3. Interrupts'
    BY <1>4, <2>1 DEF SelectBuffer
  <2> QED
    BY <2>2, <2>3
<1>5. CASE ResetCount
  BY <1>5 DEF ResetCount
<1>6. CASE EnableCallback
  BY <1>6 DEF EnableCallback
<1>7. CASE TakeDone
  BY <1>7 DEF TakeDone
<1>8. CASE NotDone
  BY <1>8 DEF NotDone
<1>9. CASE Stamp
  <2>1. cells' \in [Buffers -> [Slots -> Kinds]]
    BY <1>9 DEF Stamp, Kinds
  <2> QED
    BY <1>9, <2>1 DEF Stamp
<1>10. CASE Pulse
  BY <1>10 DEF Pulse
<1>11. CASE Low
  BY <1>11 DEF Low
<1> QED
  BY <1>1, <1>2, <1>3, <1>4, <1>5, <1>6, <1>7, <1>8, <1>9, <1>10, <1>11 DEF Main

\* An interrupt records only while the phase's own buffer is selected.
LEMMA RecordPlace ==
    ASSUME Inv, SigGot, Record
    PROVE  /\ at \in During /\ phase \in 1 .. 3
           /\ buffer = Phases[phase] /\ buffer_index = int_sem /\ buffer_index \in Slots
<1>1. at \in During
  BY BufferSizeAssumption
     DEF SigGot, Record, Inv, TypeOK, Places, Interrupts, Labels, Before, During
<1> QED
  BY <1>1, BufferSizeAssumption
     DEF Record, Inv, TypeOK, Places, During, Slots

LEMMA SigGotInv == Inv /\ SigGot => Inv'
<1> SUFFICES ASSUME Inv, SigGot PROVE Inv'
  OBVIOUS
<1> USE BufferSizeAssumption
<1>1. CASE Record
  <2>1. buffer \in Buffers
    BY <1>1, RecordPlace, PhaseBuffers
  <2>2. \A k \in Kinds : Elapsed(k) \in Kinds
    BY DEF Elapsed, Kinds
  <2>3. cells' \in [Buffers -> [Slots -> Kinds]]
    BY <1>1, <2>1, <2>2, RecordPlace DEF Record, Inv, TypeOK
  <2>4. buffer_index' \in 0 .. BufferSize /\ int_sem' \in 0 .. BufferSize + 1
    BY <1>1, RecordPlace DEF Record, Inv, TypeOK, Slots
  <2>5. TypeOK'
    <3>1. enabled' \in BOOLEAN /\ pwm' \in BOOLEAN /\ edge' \in BOOLEAN
      BY <1>1, Zenon DEF SigGot, Record, Inv, TypeOK
    <3> QED
      BY <1>1, <2>3, <2>4, <3>1 DEF SigGot, Record, Inv, TypeOK
  <2>6. Places'
    BY <1>1, RecordPlace DEF SigGot, Record, Inv, TypeOK, Places, During, Slots
  <2>7. Interrupts'
    BY <1>1, RecordPlace DEF SigGot, Record, Inv, TypeOK, Interrupts, During, Before, Slots
  <2> QED
    BY <2>5, <2>6, <2>7 DEF Inv
<1>2. CASE Full
  <2>1. at \in {"enable", "wait", "low", "stamp", "pulse"}
    BY <1>2 DEF SigGot, Full, Inv, TypeOK, Places, Interrupts, Labels, Before
  <2>2. at \notin {"stamp", "pulse"}
    BY DEF SigGot, Inv, Places, Interrupts
  <2>3. TypeOK'
    <3>1. enabled' \in BOOLEAN /\ pwm' \in BOOLEAN /\ edge' \in BOOLEAN
      BY <1>2, Zenon DEF SigGot, Full, Inv, TypeOK
    <3> QED
      BY <1>2, <3>1 DEF SigGot, Full, Inv, TypeOK
  <2>4. Places'
    BY <1>2 DEF SigGot, Full, Inv, TypeOK, Places, During
  <2>5. Interrupts'
    BY <1>2, <2>1, <2>2 DEF SigGot, Full, Inv, TypeOK, Interrupts, Before
  <2> QED
    BY <2>3, <2>4, <2>5 DEF Inv
<1>3. CASE End
  BY <1>3 DEF SigGot, End, Inv, TypeOK, Places, Interrupts, During, Before
<1> QED
  BY <1>1, <1>2, <1>3 DEF SigGot

LEMMA NextInv == Inv /\ [Next]_vars => Inv'
<1>1. Inv /\ UNCHANGED vars => Inv'
  BY DEF vars, Inv, TypeOK, Places, Interrupts
<1> QED
  BY <1>1, MainInv, SigGotInv DEF Next

\* Every variable stays in its type: in particular neither the index nor the
\* count of int_sem passes its end.
THEOREM Typing == Spec => []TypeOK
<1>1. Inv => TypeOK
  BY DEF Inv
<1> QED
  BY <1>1, InitInv, NextInv, PTL DEF Spec

\* For every size of the buffers and however the edges of the PWM fall, the
\* interrupt records in the phase's own buffer, cell after cell.
THEOREM RecordsAreInPlace == Spec => []RecordsInPlace
<1>1. Inv => RecordsInPlace
  BY BufferSizeAssumption
     DEF Inv, TypeOK, Labels, Places, Interrupts, Before, During, RecordsInPlace
<1> QED
  BY <1>1, InitInv, NextInv, PTL DEF Spec

\* main is never woken by the completion of an earlier phase.
THEOREM DoneIsFresh == Spec => []NoStaleDone
<1>1. Inv => NoStaleDone
  BY DEF Inv, TypeOK, Interrupts, NoStaleDone
<1> QED
  BY <1>1, InitInv, NextInv, PTL DEF Spec

\* While test 3 runs no interrupt changes its index or its cells.
THEOREM SwitchIsUndisturbed == Spec => SwitchUndisturbed
<1>1. Inv /\ [Next]_vars => [at = "run" => UNCHANGED <<buffer_index, cells>>]_vars
  <2> SUFFICES ASSUME Inv, [Next]_vars, at = "run"
               PROVE  UNCHANGED <<buffer_index, cells>>
    OBVIOUS
  <2>1. CASE Main
    BY <2>1 DEF Main, MainStep, SelectPwm, ClearBuffers, ResetIndex, SelectBuffer,
                ResetCount, EnableCallback, TakeDone, NotDone, Stamp, Pulse, Low
  <2>2. CASE SigGot
    <3>1. ~Record
      BY <2>2, RecordPlace DEF During
    <3> QED
      BY <2>2, <3>1 DEF SigGot, Full, End
  <2> QED
    BY <2>1, <2>2 DEF Next, vars
<1> QED
  BY <1>1, InitInv, NextInv, PTL DEF Spec, SwitchUndisturbed

-----------------------------------------------------------------------------
(***************************************************************************)
(* What the cells hold: the records of the phase so far, zeros where test 2 *)
(* has yet to record, and the time main stored before it raised the pin.    *)
(***************************************************************************)
Result(p) == IF p = 1 THEN "elapsed" ELSE "time"

Finished == \A p \in 1 .. phase - 1, i \in Slots : cells[Phases[p]][i] = Result(p)

Recorded ==
    phase < 4 /\ at \in During \cup {"buffer", "reset"} =>
        \A i \in Slots : i < buffer_index => cells[Phases[phase]][i] = Result(phase)

Stamped ==
    phase = 1 /\ buffer_index \in Slots /\ (at = "pulse" \/ (at = "low" /\ edge)) =>
        cells["gpio"][buffer_index] = "stamp"

Clean(b) == \A i \in Slots : at = "index" \/ i >= buffer_index => cells[b][i] = "zero"

Cleared ==
    /\ phase = 2 /\ at \notin {"pinmux", "clear"} =>
           Clean("background") /\ \A i \in Slots : cells["reference"][i] = "zero"
    /\ phase = 3 => Clean("reference")

Counted == at \in During /\ int_sem = BufferSize + 1 => buffer_index = BufferSize

Contents == Finished /\ Recorded /\ Stamped /\ Cleared /\ Counted

LEMMA ThePhases ==
    /\ Phases[1] = "gpio" /\ Phases[2] = "background"
    /\ Phases[3] = "reference" /\ Phases[4] = "switch"
  BY DEF Phases

LEMMA InitContents == Init => Contents
  BY BufferSizeAssumption
     DEF Init, Contents, Finished, Recorded, Stamped, Cleared, Counted, During

\* The steps of main that leave the cells alone but for the phase's end.
LEMMA QuietContents ==
  ASSUME Inv, Contents,
         \/ SelectPwm \/ ResetIndex \/ SelectBuffer \/ ResetCount \/ EnableCallback
         \/ NotDone \/ Pulse \/ Low
  PROVE  Contents'
<1> USE BufferSizeAssumption
<1>1. UNCHANGED <<phase, cells>>
  BY DEF SelectPwm, ResetIndex, SelectBuffer, ResetCount, EnableCallback, NotDone, Pulse, Low
<1>2. phase \in 1 .. 4 /\ buffer_index \in 0 .. BufferSize /\ (at \in {"pinmux", "clear"} => phase = 2)
  BY DEF Inv, TypeOK, Places
<1>3. Finished'
  BY <1>1 DEF Contents, Finished
<1>4. /\ at' = "buffer" => buffer_index' = 0
      /\ at' # "buffer" => buffer_index' = buffer_index
      /\ at' \in During \cup {"reset"} => at \in During \cup {"buffer", "reset"}
  BY DEF SelectPwm, ResetIndex, SelectBuffer, ResetCount, EnableCallback, NotDone, Pulse, Low,
         MainStep, During
<1>5. Recorded'
  BY <1>1, <1>2, <1>4 DEF Contents, Recorded, Slots, During
<1>6. Stamped'
  <2>1. CASE Pulse
    <3>1. at = "pulse" /\ buffer_index' = buffer_index
      BY <2>1 DEF Pulse, MainStep
    <3>2. phase = 1 /\ buffer_index \in Slots => cells["gpio"][buffer_index] = "stamp"
      BY <3>1 DEF Contents, Stamped
    <3>3. phase' = 1 /\ buffer_index' \in Slots => cells'["gpio"][buffer_index'] = "stamp"
      BY <1>1, <3>1, <3>2 DEF Slots
    <3> QED
      BY <3>3 DEF Stamped, Slots
  <2>2. CASE ~Pulse
    <3>1. at' \notin {"pulse", "low"}
      BY <2>2 DEF SelectPwm, ResetIndex, SelectBuffer, ResetCount, EnableCallback, NotDone, Low,
                  MainStep
    <3> QED
      BY <3>1 DEF Stamped
  <2> QED
    BY <2>1, <2>2
<1>7. /\ at' \notin {"index", "pinmux"}
      /\ at \in {"pinmux", "clear"} => at' \in {"pinmux", "clear"}
      /\ at # "index" => buffer_index' = buffer_index
  BY DEF SelectPwm, ResetIndex, SelectBuffer, ResetCount, EnableCallback, NotDone, Pulse, Low,
         MainStep
<1>8. Cleared'
  BY <1>1, <1>2, <1>7 DEF Contents, Cleared, Clean, Slots
<1>9. Counted'
  BY <1>2, <1>4 DEF Contents, Counted, During, SelectPwm, ResetIndex, SelectBuffer, ResetCount,
         EnableCallback, NotDone, Pulse, Low, MainStep
<1> QED
  BY <1>3, <1>5, <1>6, <1>8, <1>9 DEF Contents

LEMMA TakeDoneContents ==
  ASSUME Inv, Contents, TakeDone
  PROVE  Contents'
<1> USE BufferSizeAssumption
<1>1. /\ at = "wait" /\ phase \in 1 .. 3 /\ phase' = phase + 1
      /\ at' = IF phase = 1 THEN "pinmux" ELSE "index"
      /\ UNCHANGED <<cells, buffer_index>>
  BY DEF TakeDone, MainStep, Inv, TypeOK, Places
<1>2. buffer_index = BufferSize
  BY <1>1 DEF TakeDone, Inv, Interrupts, Contents, Counted, During
<1>3. Finished'
  <2>1. \A i \in Slots : cells[Phases[phase]][i] = Result(phase)
    BY <1>1, <1>2 DEF Contents, Recorded, During, Slots
  <2>2. \A p \in 1 .. phase' - 1 : p \in 1 .. phase - 1 \/ p = phase
    BY <1>1
  <2> QED
    BY <1>1, <2>1, <2>2 DEF Contents, Finished
<1>4. Recorded' /\ Stamped' /\ Counted'
  BY <1>1 DEF Recorded, Stamped, Counted, During
<1>5. Cleared'
  BY <1>1 DEF Contents, Cleared, Clean
<1> QED
  BY <1>3, <1>4, <1>5 DEF Contents

LEMMA ClearContents ==
  ASSUME Inv, Contents, ClearBuffers
  PROVE  Contents'
<1> USE BufferSizeAssumption
<1>1. at' = "index" /\ phase = 2 /\ phase' = 2
  BY DEF ClearBuffers, MainStep, Inv, Places
<1>2. /\ cells'["gpio"] = cells["gpio"]
      /\ cells'["background"] = [i \in Slots |-> "zero"]
      /\ cells'["reference"] = [i \in Slots |-> "zero"]
  BY DEF ClearBuffers, Buffers
<1>3. Finished'
  BY <1>1, <1>2, ThePhases DEF Contents, Finished
<1> QED
  BY <1>1, <1>2, <1>3 DEF Contents, Recorded, Stamped, Counted, Cleared, Clean, During

LEMMA StampContents ==
  ASSUME Inv, Contents, Stamp
  PROVE  Contents'
<1> USE BufferSizeAssumption
<1>1. /\ at = "stamp" /\ at' = "pulse" /\ phase = 1 /\ phase' = 1 /\ buffer = "gpio"
      /\ UNCHANGED <<buffer_index, int_sem>> /\ buffer_index \in 0 .. BufferSize
  BY ThePhases DEF Stamp, MainStep, Inv, TypeOK, Places, During
<1>2. /\ cells \in [Buffers -> [Slots -> Kinds]] /\ "gpio" \in Buffers
  BY DEF Inv, TypeOK, Buffers
<1>3. /\ \A i \in Slots : i < buffer_index => cells'["gpio"][i] = cells["gpio"][i]
      /\ buffer_index \in Slots => cells'["gpio"][buffer_index] = "stamp"
  <2>1. CASE buffer_index \in Slots
    BY <1>1, <1>2, <2>1 DEF Stamp, Slots
  <2>2. CASE buffer_index \notin Slots
    <3>1. cells'["gpio"] = cells["gpio"]
      BY <1>1, <1>2, <2>2 DEF Stamp
    <3> QED
      BY <2>2, <3>1
  <2> QED
    BY <2>1, <2>2
<1>4. Recorded' /\ Stamped'
  BY <1>1, <1>3, ThePhases DEF Contents, Recorded, Stamped, During
<1>5. Finished' /\ Cleared' /\ Counted'
  BY <1>1 DEF Contents, Finished, Cleared, Counted, During
<1> QED
  BY <1>4, <1>5 DEF Contents

LEMMA SigGotContents ==
  ASSUME Inv, Contents, SigGot
  PROVE  Contents'
<1> USE BufferSizeAssumption
<1>1. UNCHANGED <<phase, at>> /\ ~edge' /\ phase \in 1 .. 4 /\ buffer_index \in 0 .. BufferSize
  BY DEF SigGot, Inv, TypeOK
<1>2. CASE Record
  <2>1. /\ at \in During /\ phase \in 1 .. 3 /\ buffer = Phases[phase]
        /\ buffer_index = int_sem /\ buffer_index \in Slots
    BY <1>2, RecordPlace
  <2>2. /\ cells \in [Buffers -> [Slots -> Kinds]] /\ buffer \in Buffers
        /\ buffer_index' = buffer_index + 1 /\ int_sem' = int_sem + 1
    BY <1>2, <2>1, PhaseBuffers DEF Record, Inv, TypeOK
  <2>3. phase = 1 => at = "low" /\ edge
    BY DEF SigGot, Inv, Interrupts
  <2>4. cells[buffer][buffer_index] = IF phase = 1 THEN "stamp" ELSE "zero"
    <3>1. CASE phase = 1
      BY <2>1, <2>3, <3>1, ThePhases DEF Contents, Stamped
    <3>2. CASE phase = 2
      BY <2>1, <3>2, ThePhases DEF Contents, Cleared, Clean, During, Slots
    <3>3. CASE phase = 3
      BY <2>1, <3>3, ThePhases DEF Contents, Cleared, Clean, During, Slots
    <3> QED
      BY <2>1, <3>1, <3>2, <3>3
  <2>5. /\ cells'[buffer][buffer_index] = Result(phase)
        /\ \A i \in Slots : i # buffer_index => cells'[buffer][i] = cells[buffer][i]
        /\ \A b \in Buffers : b # buffer => cells'[b] = cells[b]
    BY <1>2, <2>1, <2>2, <2>4 DEF Record, Elapsed, Result
  <2>6. Finished'
    BY <1>1, <2>1, <2>5, ThePhases DEF Contents, Finished, Result, Buffers
  <2>7. Recorded'
    BY <1>1, <2>1, <2>2, <2>5 DEF Contents, Recorded, Slots
  <2>8. Cleared'
    BY <1>1, <2>1, <2>2, <2>5, ThePhases DEF Contents, Cleared, Clean, Slots, Buffers, During
  <2>9. Stamped' /\ Counted'
    BY <1>1, <2>1, <2>2, <2>3 DEF Stamped, Counted, Slots
  <2> QED
    BY <2>6, <2>7, <2>8, <2>9 DEF Contents
<1>3. CASE Full
  <2>1. UNCHANGED <<cells, buffer_index>> /\ int_sem = BufferSize
    BY <1>3 DEF Full
  <2>2. at \in During => buffer_index = BufferSize
    BY <2>1 DEF Inv, Places
  <2> QED
    BY <1>1, <2>1, <2>2 DEF Contents, Finished, Recorded, Stamped, Cleared, Clean, Counted
<1>4. CASE End
  BY <1>1, <1>4 DEF End, Contents, Finished, Recorded, Stamped, Cleared, Clean, Counted
<1> QED
  BY <1>2, <1>3, <1>4 DEF SigGot

LEMMA NextContents == Inv /\ Contents /\ [Next]_vars => Contents'
<1>1. Contents /\ UNCHANGED vars => Contents'
  BY DEF vars, Contents, Finished, Recorded, Stamped, Cleared, Clean, Counted
<1> QED
  BY <1>1, QuietContents, TakeDoneContents, ClearContents, StampContents, SigGotContents
     DEF Next, Main

\* A finished phase is kept, for buffers of any size: in particular the store of
\* test 1 past the end of its buffer falls where ClearBuffers or nobody reads.
THEOREM FinishedAreKept == Spec => []FinishedPhasesAreKept
<1>1. Contents => FinishedPhasesAreKept
  BY DEF Contents, Finished, FinishedPhasesAreKept, Result
<1> QED
  BY <1>1, InitInv, NextInv, InitContents, NextContents, PTL DEF Spec

-----------------------------------------------------------------------------
LEMMA StepsOfTheTests == [ProgramNext]_programVars => [Next]_vars
  BY DEF ProgramNext, programVars, TestStep, TakeMine, GiveOther, Results

\* The background threads and the results leave alone what the tests use: the
\* program implements InterruptTest, and what is proved of that holds for it.
THEOREM ProgramImplementsTests == Program => Spec
  BY StepsOfTheTests, PTL DEF Program, Spec, ProgramInit

LEMMA ProgramInv == Program => []Inv
  BY StepsOfTheTests, InitInv, NextInv, PTL DEF Program, ProgramInit

-----------------------------------------------------------------------------
\* The background threads do not exist yet.
NotYet == phase = 1 \/ at \in {"pinmux", "clear"}

Turn ==
    /\ doing \in [Passers -> {"take", "busy", "waiting"}]
    /\ \/ /\ sem["A"] = 0 /\ sem["B"] = 0
          /\ \/ doing["A"] = "busy" /\ doing["B"] # "busy"
             \/ doing["B"] = "busy" /\ doing["A"] # "busy"
       \/ sem["A"] = 1 /\ sem["B"] = 0 /\ doing["A"] = "take" /\ doing["B"] # "busy"
       \/ sem["B"] = 1 /\ sem["A"] = 0 /\ doing["B"] = "take" /\ doing["A"] # "busy"

Background ==
    /\ sem \in [Passers -> {0, 1}]
    /\ NotYet => sem["A"] = 1 /\ sem["B"] = 0
    /\ phase = 2 /\ ~NotYet => Turn

LEMMA Pair == Other("A") = "B" /\ Other("B") = "A" /\ Passers = {"A", "B"}
<1>1. Passers = {"A", "B"}
  BY DEF Passers
<1>2. \E q \in Passers : q # "A"
  BY <1>1
<1>3. \E q \in Passers : q # "B"
  BY <1>1
<1> QED
  BY <1>1, <1>2, <1>3 DEF Other

\* How main's place and phase change.
LEMMA Course ==
  ASSUME Inv, Next
  PROVE  /\ \/ phase' = phase
            \/ phase = 1 /\ phase' = 2 /\ at' = "pinmux"
            \/ phase > 1 /\ phase' = phase + 1 /\ at = "wait" /\ at' = "index"
         /\ phase' = phase =>
               /\ at = "pinmux" => at' \in {"pinmux", "clear"}
               /\ at = "clear" => at' \in {"clear", "index"}
               /\ at' \in {"pinmux", "clear"} => at \in {"pinmux", "clear"}
<1>1. phase \in 1 .. 4
  BY DEF Inv, TypeOK
<1>2. CASE TakeDone
  BY <1>1, <1>2 DEF TakeDone, MainStep
<1>3. CASE SigGot
  BY <1>3 DEF SigGot
<1>4. CASE SelectPwm \/ ClearBuffers
  BY <1>4 DEF SelectPwm, ClearBuffers, MainStep
<1>5. CASE \/ ResetIndex \/ SelectBuffer \/ ResetCount \/ EnableCallback
           \/ NotDone \/ Stamp \/ Pulse \/ Low
  BY <1>5 DEF ResetIndex, SelectBuffer, ResetCount, EnableCallback, NotDone, Stamp, Pulse, Low,
              MainStep
<1> QED
  BY <1>2, <1>3, <1>4, <1>5 DEF Next, Main

LEMMA InitBackground == ProgramInit => Background
  BY DEF ProgramInit, Init, Background, NotYet, Passers

LEMMA NextBackground == Inv /\ Background /\ [ProgramNext]_programVars => Background'
<1> SUFFICES ASSUME Inv, Background, [ProgramNext]_programVars
             PROVE  Background'
  OBVIOUS
<1>0. phase \in 1 .. 4 /\ (at \in {"pinmux", "clear"} => phase = 2)
  BY DEF Inv, TypeOK, Places
<1>1. CASE TestStep
  <2>1. UNCHANGED sem /\ sem \in [Passers -> {0, 1}]
    BY <1>1 DEF TestStep, Background
  <2>2. NotYet' => NotYet
    BY <1>0, <1>1, Course DEF TestStep, NotYet
  <2>3. CASE at = "clear" /\ at' = "index"
    <3>1. sem["A"] = 1 /\ sem["B"] = 0
      BY <2>3 DEF Background, NotYet
    <3>2. doing' = [p \in Passers |-> "take"]
      BY <1>1, <2>3 DEF TestStep, Lifetime
    <3>3. Turn'
      BY <2>1, <3>1, <3>2, Pair DEF Turn
    <3> QED
      BY <2>1, <3>1, <3>3 DEF Background
  <2>4. CASE ~(at = "clear" /\ at' = "index")
    <3>1. phase' = 2 /\ ~NotYet' => phase = 2 /\ ~NotYet
      BY <1>0, <1>1, <2>4, Course DEF TestStep, NotYet
    <3>2. phase' = 2 /\ ~NotYet' => doing' = doing
      BY <1>1, <2>4, <3>1 DEF TestStep, Lifetime
    <3> QED
      BY <2>1, <2>2, <3>1, <3>2 DEF Background, Turn
  <2> QED
    BY <2>3, <2>4
<1>2. ASSUME NEW p \in Passers, TakeMine(p)
      PROVE  Background'
  <2>1. Turn /\ UNCHANGED <<phase, at>> /\ phase = 2 /\ ~NotYet
    BY <1>2 DEF TakeMine, MainSleeps, Background, NotYet, vars
  <2>2. Turn' /\ sem' \in [Passers -> {0, 1}]
    BY <1>2, <2>1, Pair DEF TakeMine, Turn, Background
  <2> QED
    BY <2>1, <2>2 DEF Background, NotYet
<1>3. ASSUME NEW p \in Passers, GiveOther(p)
      PROVE  Background'
  <2>1. Turn /\ UNCHANGED <<phase, at>> /\ phase = 2 /\ ~NotYet
    BY <1>3 DEF GiveOther, MainSleeps, Background, NotYet, vars
  <2>2. Turn' /\ sem' \in [Passers -> {0, 1}]
    BY <1>3, <2>1, Pair DEF GiveOther, Turn, Background
  <2> QED
    BY <2>1, <2>2 DEF Background, NotYet
<1>4. CASE Results \/ UNCHANGED programVars
  BY <1>4 DEF Results, programVars, vars, Background, NotYet, Turn
<1> QED
  BY <1>1, <1>2, <1>3, <1>4 DEF ProgramNext

\* While main sleeps there is one turn, however long the second phase takes.
THEOREM OneTurnHolds == Program => []OneTurn
<1>1. Background => OneTurn
  <2> SUFFICES ASSUME Background, MainSleeps
               PROVE  OneTurn
    BY DEF OneTurn
  <2>1. Turn
    BY DEF MainSleeps, Background, NotYet
  <2>2. Busy = {p \in {"A", "B"} : doing[p] = "busy"}
    BY Pair DEF Busy
  <2>3. CASE sem["A"] = 0 /\ sem["B"] = 0
    <3>1. Busy = {"A"} \/ Busy = {"B"}
      BY <2>1, <2>2, <2>3 DEF Turn
    <3> QED
      BY <2>3, <3>1, Pair DEF OneTurn
  <2>4. CASE sem["A"] = 1 \/ sem["B"] = 1
    <3>1. Busy = {}
      BY <2>1, <2>2, <2>4 DEF Turn
    <3> QED
      BY <2>1, <2>4, <3>1, Pair DEF OneTurn, Turn
  <2> QED
    BY <2>1, <2>3, <2>4 DEF Turn
<1> QED
  BY <1>1, InitBackground, NextBackground, ProgramInv, PTL DEF Program

-----------------------------------------------------------------------------
(* The arithmetic of the results *)

LEMMA ModSmall == ASSUME NEW n \in Nat \ {0}, NEW x \in 0 .. n - 1 PROVE x % n = x
  OBVIOUS

\* A word holds a whole number of ints.
LEMMA WordOfInts ==
    \E q \in Nat \ {0} : WordSize = IntSize * q
<1>1. WordSize = IntSize * (WordSize \div IntSize) + (WordSize % IntSize)
      /\ WordSize \div IntSize \in Int
  BY WidthsAssumption
<1> DEFINE q == WordSize \div IntSize
<1> HIDE DEF q
<1>2. q \in Int /\ WordSize = IntSize * q
  BY <1>1, WidthsAssumption DEF q
<1>3. q > 0
  <2>1. ASSUME q <= 0 PROVE FALSE
    <3>1. IntSize * q <= 0
      BY <1>2, <2>1, WidthsAssumption
    <3> QED BY <1>2, <3>1, WidthsAssumption
  <2> QED BY <1>2, <2>1
<1> QED BY <1>2, <1>3

\* What a u64_t leaves of a number an int leaves of it too.
LEMMA WordThenInt ==
    ASSUME NEW x \in Int, NEW y \in Int
    PROVE  /\ U64(x) \in Nat
           /\ (y + U64(x)) % IntSize = (y + x) % IntSize
<1>1. PICK q \in Nat \ {0} : WordSize = IntSize * q
  BY WordOfInts
<1>2. x = WordSize * (x \div WordSize) + (x % WordSize) /\ x \div WordSize \in Int
      /\ x % WordSize \in Nat
  BY WidthsAssumption
<1> DEFINE p == x \div WordSize
<1> DEFINE s == x % WordSize
<1> HIDE DEF p, s
<1>3. x = WordSize * p + s /\ p \in Int /\ s \in Nat
  BY <1>2 DEF p, s
<1>4. y + x = (y + s) + IntSize * (q * p)
  <2>1. WordSize * p = IntSize * (q * p)
    BY <1>1, <1>3, WidthsAssumption
  <2>2. WordSize * p \in Int
    BY <1>3, WidthsAssumption
  <2> QED BY <1>3, <2>1, <2>2
<1>5. q * p \in Int
  BY <1>1, <1>3
<1>6. (y + x) % IntSize = (y + s) % IntSize
  <2> DEFINE k == q * p
  <2> HIDE DEF k
  <2>1. k \in Int /\ y + x = (y + s) + IntSize * k
    BY <1>4, <1>5 DEF k
  <2>2. ((y + s) + IntSize * k) % IntSize = (y + s) % IntSize
    <3>1. y + s \in Int
      BY <1>3
    <3>2. \A x0 \in Int : (x0 + IntSize * k) % IntSize = x0 % IntSize
      BY <2>1, ModShift, WidthsAssumption
    <3> QED BY <3>1, <3>2
  <2> QED BY <2>1, <2>2
<1> QED BY <1>3, <1>6 DEF U64, s

\* A number that fits an int comes back from any int with the same remainder.
LEMMA IntHolds ==
    ASSUME NEW x \in Int, NEW v \in Int, x % IntSize = v % IntSize,
           -IntSize <= 2 * v, 2 * v < IntSize
    PROVE  ToInt(x) = v
<1>1. CASE v >= 0
  <2>1. v % IntSize = v
    BY <1>1, ModSmall, WidthsAssumption
  <2> QED BY <1>1, <2>1, WidthsAssumption DEF ToInt
<1>2. CASE v < 0
  <2>1. v + IntSize \in 0 .. IntSize - 1
    BY <1>2, WidthsAssumption
  <2>2. (v + IntSize) % IntSize = v + IntSize
    BY <2>1, ModSmall, WidthsAssumption
  <2>3. \A k \in Int : (v + IntSize * k) % IntSize = v % IntSize
    BY ModShift, WidthsAssumption
  <2>4. IntSize * 1 = IntSize /\ 1 \in Int
    BY WidthsAssumption
  <2>5. v % IntSize = v + IntSize
    BY <2>2, <2>3, <2>4, Zenon
  <2> QED BY <1>2, <2>5, WidthsAssumption DEF ToInt
<1> QED BY <1>1, <1>2

LEMMA SameRemainder ==
    ASSUME NEW n \in Nat \ {0}, NEW x \in Int, NEW y \in Int, NEW d \in Int, x % n = y % n
    PROVE  (x + d) % n = (y + d) % n
<1>1. x = n * (x \div n) + (x % n) /\ x \div n \in Int /\ x % n \in Int
  OBVIOUS
<1>2. y = n * (y \div n) + (y % n) /\ y \div n \in Int
  OBVIOUS
<1> DEFINE p == x \div n
<1> DEFINE q == y \div n
<1> DEFINE s == x % n
<1> HIDE DEF p, q, s
<1>3. x = n * p + s /\ y = n * q + s /\ p \in Int /\ q \in Int /\ s \in Int
  BY <1>1, <1>2 DEF p, q, s
<1>4. x + d = (y + d) + n * (p - q)
  <2>1. n * (p - q) = n * p - n * q
    BY <1>3
  <2>2. n * p \in Int /\ n * q \in Int
    BY <1>3
  <2> QED BY <1>3, <2>1, <2>2
<1> DEFINE k == p - q
<1>5. k \in Int /\ y + d \in Int
  BY <1>3
<1> HIDE DEF k
<1>6. ((y + d) + n * k) % n = (y + d) % n
  BY <1>5, ModShift
<1> QED BY <1>4, <1>6 DEF k

LEMMA SlotFacts ==
    /\ BufferSize \in Nat \ {0} /\ Slots = 0 .. BufferSize - 1 /\ Slots \subseteq Nat
    /\ IsFiniteSet(Slots) /\ IsFiniteSet(Slots \ {0}) /\ 0 \in Slots
<1>1. 0 \in Int /\ BufferSize - 1 \in Int
  BY BufferSizeAssumption
<1>2. IsFiniteSet(Slots)
  BY <1>1, FS_Interval DEF Slots
<1>3. IsFiniteSet(Slots \ {0})
  BY <1>2, FS_Subset
<1> QED BY <1>2, <1>3, BufferSizeAssumption DEF Slots

LEMMA TotalIsSum ==
    ASSUME NEW S, IsFiniteSet(S), NEW f, DOMAIN f = S
    PROVE  Total(f) = SumOver(f, S)
  BY MapIsSum DEF Total

\* The times between the readings, as the loop of the results adds them up.
Gaps(reference) == [i \in Slots \ {0} |-> U64(reference[i] - reference[i - 1])]

\* They add up to the time from the first to the last.
LEMMA GapsAddUp ==
    ASSUME NEW reference \in [Slots -> Int], NEW n \in Slots
    PROVE  SumOver(Gaps(reference), 1 .. n) % IntSize = (reference[n] - reference[0]) % IntSize
<1> DEFINE f == Gaps(reference)
<1> DEFINE Q == {k \in Slots : SumOver(f, 1 .. k) % IntSize # (reference[k] - reference[0]) % IntSize}
<1>1. SUFFICES ASSUME Q # {} PROVE FALSE
  <2>1. n \notin Q
    BY <1>1
  <2> QED BY <2>1
<1>2. PICK k \in Q : \A m \in Q : k <= m
  <2>1. Q \subseteq Nat
    BY SlotFacts
  <2> HIDE DEF Q
  <2> QED BY <1>1, <2>1, MinimalNat
<1>3. /\ k \in Slots /\ k \in Nat /\ 0 \in Slots
      /\ SumOver(f, 1 .. k) % IntSize # (reference[k] - reference[0]) % IntSize
  BY SlotFacts
<1>4. \A x \in Slots \ {0} : f[x] = U64(reference[x] - reference[x - 1]) /\ f[x] \in Nat
  <2>1. TAKE x \in Slots \ {0}
  <2>2. x - 1 \in Slots
    BY SlotFacts
  <2>3. reference[x] - reference[x - 1] \in Int
    BY <2>2
  <2>4. U64(reference[x] - reference[x - 1]) \in Nat
    BY <2>3, WordThenInt, Zenon
  <2> QED BY <2>4 DEF Gaps
<1>5. CASE k = 0
  <2>1. 1 .. k = {} /\ reference[k] - reference[0] = 0
    BY <1>3, <1>5
  <2>2. SumOver(f, 1 .. k) = 0
    BY <2>1, SumEmpty
  <2> QED BY <1>3, <2>1, <2>2
<1>6. CASE k > 0
  <2>1. k - 1 \in Slots /\ k - 1 < k /\ k \in 1 .. k
    BY <1>3, <1>6, SlotFacts
  <2> DEFINE y == SumOver(f, 1 .. k - 1)
  <2> DEFINE d == reference[k] - reference[k - 1]
  <2>2. y % IntSize = (reference[k - 1] - reference[0]) % IntSize
    <3>1. k - 1 \notin Q
      <4> HIDE DEF Q
      <4> QED BY <1>2, <1>3, <2>1
    <3> QED BY <2>1, <3>1
  <2>3. (1 .. k) \ {k} = 1 .. k - 1
    BY <1>3, <1>6
  <2>4. /\ IsFiniteSet(1 .. k) /\ IsFiniteSet(1 .. k - 1)
        /\ \A x \in 1 .. k : x \in Slots \ {0}
    <3>1. \A x \in 1 .. k : x \in Slots \ {0}
      BY <1>3, SlotFacts
    <3>2. 1 \in Int /\ k \in Int /\ k - 1 \in Int
      BY <1>3
    <3> QED BY <3>1, <3>2, FS_Interval
  <2>5. (\A x \in 1 .. k : f[x] \in Nat) /\ (\A x \in 1 .. k - 1 : f[x] \in Nat)
    <3> HIDE DEF f
    <3>1. \A x \in 1 .. k : f[x] \in Nat
      BY <1>4, <2>4
    <3>2. \A x \in 1 .. k - 1 : x \in 1 .. k
      BY <1>3
    <3> QED BY <3>1, <3>2
  <2>6. SumOver(f, 1 .. k) = f[k] + y
    <3>1. SumOver(f, 1 .. k) = f[k] + SumOver(f, (1 .. k) \ {k})
      <4> HIDE DEF f, Q
      <4> QED BY <2>1, <2>4, <2>5, SumRemove
    <3> QED BY <2>3, <3>1
  <2>7. y \in Nat /\ d \in Int /\ f[k] = U64(d)
    <3>1. y \in Nat
      <4> HIDE DEF f
      <4> QED BY <2>4, <2>5, SumNat
    <3>2. d \in Int
      BY <1>3, <2>1
    <3>3. f[k] = U64(d)
      <4> HIDE DEF f
      <4> QED BY <1>3, <1>4, <1>6
    <3> QED BY <3>1, <3>2, <3>3
  <2>8. (y + U64(d)) % IntSize = (y + d) % IntSize /\ U64(d) \in Nat
    <3> HIDE DEF y, d
    <3>1. y \in Int
      BY <2>7
    <3> QED BY <2>7, <3>1, WordThenInt, Zenon
  <2>9. (y + d) % IntSize = ((reference[k - 1] - reference[0]) + d) % IntSize
    <3>1. y \in Int /\ reference[k - 1] - reference[0] \in Int
      BY <1>3, <2>1, <2>7
    <3> HIDE DEF y, d
    <3> QED BY <2>2, <2>7, <3>1, SameRemainder, WidthsAssumption
  <2>10. (reference[k - 1] - reference[0]) + d = reference[k] - reference[0]
    BY <1>3, <2>1
  <2>11. f[k] + y = y + U64(d)
    <3> HIDE DEF y, d, f
    <3> QED BY <2>7, <2>8
  <2> HIDE DEF y, d, f
  <2> QED BY <1>3, <2>6, <2>8, <2>9, <2>10, <2>11
<1> QED BY <1>3, <1>5, <1>6

\* The gaps of edges T apart, of latencies that differ by e from the first to
\* the last, give the period back: what e adds is lost in the division.
LEMMA PeriodIsFound ==
    ASSUME NEW T \in Nat \ {0}, NEW c \in Nat, NEW x \in [Slots -> Nat], BufferSize > 1,
           NEW e, e = x[BufferSize - 1] - x[0], e \in 0 .. BufferSize - 2, e < T,
           2 * (BufferSize * T) <= IntSize,
           NEW reference, reference = [i \in Slots |-> c + (BufferSize + i) * T + x[i]]
    PROVE  PwmPeriod(reference) = T
<1> DEFINE n == BufferSize - 1
<1> DEFINE f == Gaps(reference)
<1>1. n \in Slots /\ n \in Nat \ {0} /\ 0 \in Slots /\ Slots \ {0} = 1 .. n
      /\ BufferSize \in Nat /\ BufferSize = n + 1
  <2>1. BufferSize \in Nat \ {0} /\ Slots = 0 .. BufferSize - 1
    BY SlotFacts
  <2>2. n \in Nat \ {0} /\ BufferSize = n + 1
    BY <2>1
  <2>3. n \in Slots /\ 0 \in Slots
    BY <2>1, <2>2
  <2>4. Slots \ {0} = 1 .. n
    <3> HIDE DEF n
    <3>1. \A i \in Slots \ {0} : i \in 1 .. n
      BY <2>1, <2>2
    <3>2. \A i \in 1 .. n : i \in Slots \ {0}
      BY <2>1, <2>2
    <3> QED BY <3>1, <3>2
  <2> QED BY <2>2, <2>3, <2>4
<1>2. reference \in [Slots -> Int]
  <2>1. ASSUME NEW i \in Slots PROVE c + (BufferSize + i) * T + x[i] \in Int
    <3>1. i \in Nat /\ BufferSize \in Nat
      BY SlotFacts
    <3>2. (BufferSize + i) * T \in Int
      BY <3>1
    <3> QED BY <3>2
  <2> QED BY <2>1
<1>3. reference[n] - reference[0] = n * T + e
  <2>1. reference[n] = c + (BufferSize + n) * T + x[n] /\ reference[0] = c + (BufferSize + 0) * T + x[0]
    BY <1>1
  <2>2. (BufferSize + n) * T = BufferSize * T + n * T /\ (BufferSize + 0) * T = BufferSize * T
    BY <1>1
  <2>3. BufferSize * T \in Int /\ n * T \in Int /\ x[n] \in Int /\ x[0] \in Int /\ e = x[n] - x[0]
    BY <1>1
  <2> HIDE DEF n
  <2> QED BY <2>1, <2>2, <2>3
<1>4. SumOver(f, 1 .. n) % IntSize = (n * T + e) % IntSize
  <2>1. SumOver(f, 1 .. n) % IntSize = (reference[n] - reference[0]) % IntSize
    <3> HIDE DEF n
    <3> QED BY <1>1, <1>2, GapsAddUp
  <2> QED BY <1>3, <2>1
<1>5. Total(f) = SumOver(f, 1 .. n)
  <2>1. DOMAIN f = Slots \ {0}
    BY DEF Gaps
  <2>2. Total(f) = SumOver(f, Slots \ {0})
    <3> HIDE DEF f
    <3> QED BY <2>1, SlotFacts, TotalIsSum
  <2> QED BY <1>1, <2>2
<1>6. SumOver(f, 1 .. n) \in Nat
  <2>1. \A i \in Slots \ {0} : f[i] \in Nat
    <3>1. TAKE i \in Slots \ {0}
    <3>2. i - 1 \in Slots
      BY SlotFacts
    <3>3. reference[i] - reference[i - 1] \in Int
      BY <1>2, <3>2
    <3>4. U64(reference[i] - reference[i - 1]) \in Nat
      BY <3>3, WordThenInt, Zenon
    <3> QED BY <3>4 DEF Gaps
  <2> HIDE DEF f, n
  <2> QED BY <1>1, <2>1, SlotFacts, SumNat
<1>7. ToInt(SumOver(f, 1 .. n)) = n * T + e
  <2> DEFINE v == n * T + e
  <2> DEFINE y == SumOver(f, 1 .. n)
  <2>1. v \in Nat /\ 2 * v < IntSize
    <3>1. n * T \in Nat /\ BufferSize * T = n * T + T
      BY <1>1
    <3>2. e \in Nat
      BY <1>1
    <3> DEFINE p == n * T
    <3> DEFINE b == BufferSize * T
    <3>3. p \in Nat /\ b = p + T /\ 2 * b <= IntSize /\ v = p + e
      BY <3>1
    <3> HIDE DEF n, p, b, v
    <3> QED BY <3>2, <3>3, WidthsAssumption
  <2>2. v \in Int /\ y \in Int /\ -IntSize <= 2 * v
    <3> HIDE DEF v, y
    <3>1. y \in Nat
      BY <1>6 DEF y
    <3> QED BY <2>1, <3>1, WidthsAssumption
  <2>3. y % IntSize = v % IntSize
    BY <1>4
  <2> HIDE DEF v, y
  <2>4. ToInt(y) = v
    BY <2>1, <2>2, <2>3, IntHolds
  <2> QED BY <2>4 DEF v, y
<1>8. Quotient(n * T + e, n) = T
  <2>1. n * T + e \in Nat /\ e \in 0 .. n - 1
    <3>1. n * T \in Nat
      BY <1>1
    <3> HIDE DEF n
    <3> QED BY <1>1, <3>1
  <2>2. (n * T + e) \div n = T
    <3> DEFINE v == n * T + e
    <3> HIDE DEF n
    <3>1. v \in Int /\ v = n * T + e
      BY <2>1
    <3> HIDE DEF v
    <3>2. v \div n = T
      BY <1>1, <2>1, <3>1, DivUnique
    <3> QED BY <3>1, <3>2
  <2> HIDE DEF n
  <2> QED BY <2>1, <2>2 DEF Quotient
<1>9. PwmPeriod(reference) = Quotient(ToInt(Total(f)), n)
  BY DEF PwmPeriod, Gaps
<1> HIDE DEF f, n
<1> QED BY <1>5, <1>7, <1>8, <1>9

\* The average of readings that are all alike.
LEMMA AverageOfEqual ==
    ASSUME NEW g \in Nat, 2 * (BufferSize * g) < IntSize
    PROVE  Average([i \in Slots |-> g]) = g
<1> DEFINE f == [i \in Slots |-> g]
<1>1. DOMAIN f = Slots /\ \A i \in 0 .. BufferSize - 1 : f[i] = g
  BY SlotFacts
<1> HIDE DEF f
<1>2. Total(f) = SumOver(f, Slots)
  BY <1>1, SlotFacts, TotalIsSum
<1>3. SumOver(f, Slots) = BufferSize * g
  <2>1. BufferSize \in Nat
    BY SlotFacts
  <2>2. SumOver(f, 0 .. BufferSize - 1) = BufferSize * g
    BY <1>1, <2>1, SumConstant
  <2> QED BY <2>2, SlotFacts
<1> DEFINE v == BufferSize * g
<1>4. v \in Nat /\ 2 * v < IntSize
  BY SlotFacts
<1> HIDE DEF v
<1>5. v \in Int /\ -IntSize <= 2 * v
  BY <1>4, WidthsAssumption
<1>6. ToInt(v) = v
  BY <1>4, <1>5, IntHolds
<1>7. v \div BufferSize = g
  <2>1. v = BufferSize * g + 0 /\ 0 \in 0 .. BufferSize - 1
    BY SlotFacts DEF v
  <2> QED BY <1>5, <2>1, SlotFacts, DivUnique
<1>8. Average(f) = Quotient(v, BufferSize)
  BY <1>2, <1>3, <1>6 DEF Average, v
<1>9. Average(f) = g
  BY <1>4, <1>7, <1>8 DEF Quotient
<1> QED BY <1>9 DEF f

\* What an int holds a u64_t holds too.
LEMMA WordHolds ==
    ASSUME NEW v \in Nat, 2 * v <= IntSize
    PROVE  U64(v) = v
<1>1. PICK q \in Nat \ {0} : WordSize = IntSize * q
  BY WordOfInts
<1>2. WordSize >= IntSize
  BY <1>1, WidthsAssumption
<1>3. v \in 0 .. WordSize - 1
  BY <1>2, WidthsAssumption
<1> QED BY <1>3, ModSmall, WidthsAssumption DEF U64

\* The edges are T apart, and t is x later than the edge m periods after c and
\* before the end of the period that c is in when moved there.
Reading(T, c, m, x, t) ==
    /\ T \in Nat \ {0} /\ 2 * T <= IntSize
    /\ c \in Nat /\ m \in Nat /\ x \in Nat
    /\ t = c + m * T + x /\ (c % T) + x < T

LEMMA TimeInPeriod ==
    ASSUME NEW T, NEW c, NEW m, NEW x, NEW t, Reading(T, c, m, x, t)
    PROVE  t % U64(T) = (c % T) + x /\ c % T \in Nat /\ U64(T) = T
<1>1. T \in Nat \ {0} /\ c \in Nat /\ m \in Nat /\ x \in Nat /\ (c % T) + x < T /\ 2 * T <= IntSize
  BY DEF Reading
<1>2. c = T * (c \div T) + (c % T) /\ c \div T \in Int /\ c % T \in Nat
  BY <1>1
<1> DEFINE p == c \div T
<1> DEFINE s == c % T
<1>3. c = T * p + s /\ p \in Int /\ s \in Nat /\ s + x < T
  BY <1>1, <1>2
<1> HIDE DEF p, s
<1> DEFINE q == p + m
<1> DEFINE r == s + x
<1> DEFINE v == c + m * T + x
<1>4. v = T * q + r
  <2>1. T * q = T * p + m * T
    BY <1>1, <1>3
  <2>2. T * p \in Int /\ m * T \in Int
    BY <1>1, <1>3
  <2> QED BY <1>1, <1>3, <2>1, <2>2
<1>5. q \in Int /\ r \in 0 .. T - 1 /\ v \in Int
  BY <1>1, <1>3
<1>6. t = v
  BY DEF Reading
<1> HIDE DEF q, r, v
<1>7. v % T = r
  BY <1>1, <1>4, <1>5, DivUnique
<1>8. U64(T) = T
  BY <1>1, WordHolds
<1> QED BY <1>3, <1>6, <1>7, <1>8 DEF r, s

\* The estimated start is that of the first edge plus what the first reading of
\* the reference took longer than the latency g without a background.
LEMMA StartIsFound ==
    ASSUME NEW T, NEW c, NEW m, NEW first, NEW t, Reading(T, c, m, first, t),
           NEW g \in Nat, 2 * g < IntSize
    PROVE  ToInt(U64((t % U64(T)) - g)) = (c % T) + first - g
<1> DEFINE s == c % T
<1>1. t % U64(T) = s + first /\ s \in Nat
  BY TimeInPeriod
<1>2. T \in Nat \ {0} /\ 2 * T <= IntSize /\ first \in Nat /\ s + first < T
  BY DEF Reading
<1> HIDE DEF s
<1> DEFINE v == s + first - g
<1>3. v \in Int /\ 2 * v < IntSize /\ -IntSize <= 2 * v
  BY <1>1, <1>2, WidthsAssumption
<1>4. (t % U64(T)) - g = v
  BY <1>1, <1>2
<1> HIDE DEF v
<1>5. U64(v) \in Nat /\ (0 + U64(v)) % IntSize = (0 + v) % IntSize
  <2>1. v \in Int /\ 0 \in Int
    BY <1>3
  <2> QED BY <2>1, WordThenInt, Zenon
<1> DEFINE u == U64(v)
<1>6. u \in Int /\ u % IntSize = v % IntSize
  <2>1. 0 + U64(v) = U64(v) /\ 0 + v = v
    BY <1>3, <1>5
  <2>2. U64(v) % IntSize = v % IntSize
    BY <1>5, <2>1, Zenon
  <2> QED BY <1>5, <2>2
<1> HIDE DEF u
<1>7. ToInt(u) = v
  BY <1>3, <1>6, IntHolds
<1> QED BY <1>4, <1>7 DEF u, v, s

\* A latency x that the estimated start, of latency first less g, is not after,
\* and the end of a period that begins there not before.
Within(T, x, first, g) == first \in Nat /\ g \in Nat /\ x - first + g \in 0 .. T - 1

\* A reading's delay is its latency, from that of the estimated start.
LEMMA DelayIsFound ==
    ASSUME NEW T, NEW c, NEW m, NEW x, NEW t, Reading(T, c, m, x, t),
           NEW first, NEW g, Within(T, x, first, g)
    PROVE  ToInt(Delay(t, T, (c % T) + first - g)) = x - first + g
<1> DEFINE s == c % T
<1>1. t % U64(T) = s + x /\ s \in Nat /\ U64(T) = T
  BY TimeInPeriod
<1>2. T \in Nat \ {0} /\ 2 * T <= IntSize /\ x \in Nat /\ first \in Nat /\ g \in Nat
      /\ x - first + g \in 0 .. T - 1
  BY DEF Reading, Within
<1> HIDE DEF s
<1> DEFINE v == x - first + g
<1>3. (s + x) - (s + first - g) = v /\ v \in 0 .. T - 1
  BY <1>1, <1>2
<1> HIDE DEF v
<1>4. v \in Nat /\ 2 * v < IntSize
  BY <1>2, <1>3, WidthsAssumption
<1>5. U64(v) = v
  <2>1. 2 * v <= IntSize
    BY <1>4, WidthsAssumption
  <2> QED BY <1>4, <2>1, WordHolds, Zenon
<1>6. v % T = v
  BY <1>2, <1>3, ModSmall
<1>7. Delay(t, T, s + first - g) = v
  BY <1>1, <1>3, <1>5, <1>6 DEF Delay
<1>8. ToInt(v) = v
  BY <1>4, IntHolds, WidthsAssumption
<1> QED BY <1>7, <1>8 DEF v, s

\* The sum of the delays fits an int, so that their average is that sum's quotient.
LEMMA AverageOfDelays ==
    ASSUME NEW T \in Nat \ {0}, 2 * (BufferSize * T) <= IntSize,
           NEW f \in [Slots -> 0 .. T - 1]
    PROVE  Total(f) = SumOver(f, Slots) /\ SumOver(f, Slots) \in Nat
           /\ Average(f) = SumOver(f, Slots) \div BufferSize
<1>1. DOMAIN f = Slots /\ \A i \in Slots : f[i] \in Nat /\ f[i] <= T - 1
  OBVIOUS
<1>2. Total(f) = SumOver(f, Slots)
  BY <1>1, SlotFacts, TotalIsSum
<1> DEFINE v == SumOver(f, Slots)
<1>3. v \in Nat
  BY <1>1, SlotFacts, SumNat
<1>4. v <= BufferSize * (T - 1)
  <2> DEFINE h == [i \in Slots |-> T - 1]
  <2>1. \A i \in Slots : h[i] = T - 1 /\ h[i] \in Nat
    OBVIOUS
  <2> HIDE DEF h
  <2>2. SumOver(f, Slots) <= SumOver(h, Slots)
    <3>1. \A i \in Slots : f[i] > 0 => (i \in Slots /\ f[i] <= h[i])
      BY <1>1, <2>1
    <3> QED BY <1>1, <2>1, <3>1, SlotFacts, SumWithin
  <2>3. SumOver(h, 0 .. BufferSize - 1) = BufferSize * (T - 1)
    <3>1. BufferSize \in Nat /\ T - 1 \in Nat /\ \A i \in 0 .. BufferSize - 1 : h[i] = T - 1
      BY <2>1, SlotFacts
    <3> DEFINE d == T - 1
    <3> HIDE DEF d
    <3>2. BufferSize \in Nat /\ d \in Nat /\ \A i \in 0 .. BufferSize - 1 : h[i] = d
      BY <3>1 DEF d
    <3>3. SumOver(h, 0 .. BufferSize - 1) = BufferSize * d
      BY <3>2, SumConstant
    <3> QED BY <3>3 DEF d
  <2> QED BY <2>2, <2>3, SlotFacts
<1> HIDE DEF v
<1>5. 2 * v < IntSize
  <2> DEFINE b == BufferSize * T
  <2> DEFINE w == BufferSize * (T - 1)
  <2>1. w = b - BufferSize /\ b \in Nat /\ 2 * b <= IntSize /\ v <= w
    BY <1>4, SlotFacts
  <2> HIDE DEF b, w
  <2> QED BY <1>3, <2>1, SlotFacts, WidthsAssumption
<1>6. ToInt(v) = v
  BY <1>3, <1>5, IntHolds, WidthsAssumption
<1>7. Average(f) = v \div BufferSize
  BY <1>2, <1>3, <1>6 DEF Average, Quotient, v
<1> QED BY <1>2, <1>3, <1>7 DEF v

\* Two averages differ by the average difference, up to their rounding.
LEMMA AveragesDiffer ==
    ASSUME NEW n \in Nat \ {0}, NEW a \in Nat, NEW b \in Nat
    PROVE  Magnitude(n * Magnitude((a \div n) - (b \div n)) - Magnitude(a - b)) < n
<1>1. a = n * (a \div n) + (a % n) /\ a \div n \in Int /\ a % n \in 0 .. n - 1
  OBVIOUS
<1>2. b = n * (b \div n) + (b % n) /\ b \div n \in Int /\ b % n \in 0 .. n - 1
  OBVIOUS
<1> DEFINE p == a \div n
<1> DEFINE q == b \div n
<1> DEFINE r == a % n
<1> DEFINE s == b % n
<1>3. a = n * p + r /\ b = n * q + s /\ p \in Int /\ q \in Int
      /\ r \in 0 .. n - 1 /\ s \in 0 .. n - 1
  BY <1>1, <1>2
<1> HIDE DEF p, q, r, s
<1> DEFINE d == n * (p - q)
<1>4. d \in Int /\ a - b = d + (r - s)
  <2>1. n * (p - q) = n * p - n * q
    BY <1>3
  <2>2. n * p \in Int /\ n * q \in Int
    BY <1>3
  <2> QED BY <1>3, <2>1, <2>2
<1>5. n * Magnitude(p - q) = Magnitude(d)
  <2>1. CASE p - q >= 0
    <3>1. n * (p - q) >= 0
      BY <1>3, <2>1
    <3> QED BY <2>1, <3>1 DEF Magnitude
  <2>2. CASE p - q < 0
    <3>1. n * (p - q) < 0
      BY <1>3, <2>2
    <3>2. n * (-(p - q)) = -(n * (p - q))
      BY <1>3
    <3>3. ~(p - q >= 0) /\ ~(d >= 0)
      BY <1>3, <1>4, <2>2, <3>1
    <3> QED BY <3>2, <3>3 DEF Magnitude
  <2> QED BY <1>3, <2>1, <2>2
<1> HIDE DEF d
<1>6. Magnitude(Magnitude(d) - Magnitude(d + (r - s))) < n
  BY <1>3, <1>4 DEF Magnitude
<1> QED BY <1>4, <1>5, <1>6 DEF p, q

-----------------------------------------------------------------------------
(* What the results say of the latencies *)

\* The sums of the results fit an int: a buffer of periods, and one of latencies,
\* are less than half of its values. The loops add 500 of them in an int.
Fits ==
    /\ Latencies \subseteq Nat
    /\ \A x \in Latencies : 2 * (BufferSize * x) < IntSize
    /\ \A clock \in Clocks : /\ clock[1] \in Nat \ {0} /\ clock[2] \in Nat
                             /\ 2 * (BufferSize * clock[1]) <= IntSize

\* The readings of latencies after the edges of a clock.
ReadingsOf(clock, gpio, switch, late, lateReference) ==
    [clock |-> clock, late |-> late, lateReference |-> lateReference,
     gpio |-> [i \in Slots |-> gpio], switch |-> [i \in Slots |-> switch],
     background |-> [i \in Slots |-> clock[2] + i * clock[1] + late[i]],
     reference  |-> [i \in Slots |-> clock[2] + (BufferSize + i) * clock[1] + lateReference[i]]]

\* A report is of the readings that are kept beside it.
Reported ==
    report # NoReport =>
        /\ \E clock \in Clocks, gpio \in Latencies, switch \in Latencies,
              late, lateReference \in [Slots -> Latencies] :
              readings = ReadingsOf(clock, gpio, switch, late, lateReference)
        /\ report[2] = Magnitude(Average(Delays("background", readings))
                                   - Average(Delays("reference", readings)))

LEMMA NextReported == Reported /\ [ProgramNext]_programVars => Reported'
<1> SUFFICES ASSUME Reported, [ProgramNext]_programVars PROVE Reported'
  OBVIOUS
<1>1. CASE UNCHANGED <<readings, report>>
  BY <1>1 DEF Reported, Delays, NoReport
<1>2. CASE Results
  <2>1. PICK clock \in Clocks, gpio \in Latencies, switch \in Latencies,
             late \in [Slots -> Latencies], lateReference \in [Slots -> Latencies] :
             readings' = ReadingsOf(clock, gpio, switch, late, lateReference)
    BY <1>2 DEF Results, ReadingsOf
  <2>2. report'[2] = Magnitude(Average(Delays("background", readings'))
                                 - Average(Delays("reference", readings')))
    BY <1>2 DEF Results
  <2> QED BY <2>1, <2>2 DEF Reported
<1>3. ASSUME NEW p \in Passers, TakeMine(p) \/ GiveOther(p) PROVE Reported'
  BY <1>1, <1>3 DEF TakeMine, GiveOther
<1> QED BY <1>1, <1>2, <1>3 DEF ProgramNext, TestStep, programVars

\* Under a kind clock every delay is the reading's latency, from one start that
\* is the same for both buffers.
LEMMA DelaysAreLatencies ==
    ASSUME Fits, NEW clock \in Clocks, NEW gpio \in Latencies, NEW switch \in Latencies,
           NEW late \in [Slots -> Latencies], NEW lateReference \in [Slots -> Latencies],
           NEW r, r = ReadingsOf(clock, gpio, switch, late, lateReference), KindClock(r)
    PROVE  LET d(l) == [i \in Slots |-> l[i] - lateReference[0] + gpio]
           IN  /\ Delays("background", r) = d(late) /\ Delays("reference", r) = d(lateReference)
               /\ d(late) \in [Slots -> 0 .. clock[1] - 1]
               /\ d(lateReference) \in [Slots -> 0 .. clock[1] - 1]
<1> DEFINE T == clock[1]
<1> DEFINE c == clock[2]
<1> DEFINE first == lateReference[0]
<1> DEFINE n == BufferSize
<1>1. /\ T \in Nat \ {0} /\ c \in Nat /\ gpio \in Nat /\ first \in Nat /\ n \in Nat \ {0}
      /\ late \in [Slots -> Nat] /\ lateReference \in [Slots -> Nat]
      /\ 2 * (n * T) <= IntSize /\ 2 * (n * gpio) < IntSize
  BY SlotFacts DEF Fits
<1>2. /\ r.clock = clock /\ r.late = late /\ r.lateReference = lateReference
      /\ r.gpio = [i \in Slots |-> gpio]
      /\ r["background"] = [i \in Slots |-> c + i * T + late[i]]
      /\ r["reference"] = [i \in Slots |-> c + (n + i) * T + lateReference[i]]
      /\ r.reference = [i \in Slots |-> c + (n + i) * T + lateReference[i]]
  BY DEF ReadingsOf
<1>3. /\ lateReference[n - 1] - first \in 0 .. n - 2
      /\ \A i \in Slots : /\ late[i] >= first - gpio /\ lateReference[i] >= first - gpio
                          /\ late[i] - first + gpio < T /\ lateReference[i] - first + gpio < T
                          /\ (c % T) + late[i] < T /\ (c % T) + lateReference[i] < T
  BY <1>2, SlotFacts DEF KindClock
<1>4. n > 1 /\ 0 \in Slots /\ n - 1 \in Slots /\ c % T \in Nat
  <2>1. n - 2 >= 0
    <3> HIDE DEF T, c, first, n
    <3> QED BY <1>1, <1>3
  <2>2. n > 1 /\ 0 \in Slots /\ n - 1 \in Slots
    BY <2>1, SlotFacts
  <2>3. c % T \in Nat
    <3> HIDE DEF T, c
    <3> QED BY <1>1
  <2> QED BY <2>2, <2>3
<1>5. 2 * T <= IntSize /\ 2 * gpio < IntSize
  <2> DEFINE k == n - 1
  <2> HIDE DEF T, n
  <2>1. n * T = T + k * T /\ k * T >= 0 /\ n * gpio = gpio + k * gpio /\ k * gpio >= 0
    BY <1>1, <1>4
  <2> DEFINE p == k * T
  <2> DEFINE q == k * gpio
  <2>2. p \in Int /\ q \in Int
    BY <1>1
  <2> HIDE DEF p, q
  <2> QED BY <1>1, <2>1, <2>2, WidthsAssumption
<1> HIDE DEF T, c, first, n
<1>6. PwmPeriod(r.reference) = T
  <2> DEFINE e == lateReference[n - 1] - first
  <2>1. e \in 0 .. n - 2 /\ e < T
    BY <1>1, <1>3, <1>4
  <2>2. e = lateReference[BufferSize - 1] - lateReference[0]
        /\ e \in 0 .. BufferSize - 2 /\ BufferSize > 1 /\ 2 * (BufferSize * T) <= IntSize
        /\ r.reference = [i \in Slots |-> c + (BufferSize + i) * T + lateReference[i]]
    BY <1>1, <1>2, <1>4, <2>1 DEF n, first
  <2> HIDE DEF e
  <2> QED BY <1>1, <2>1, <2>2, PeriodIsFound
<1>7. Average(r.gpio) = gpio
  BY <1>1, <1>2, AverageOfEqual DEF n
<1>8. T \in Nat \ {0} /\ c \in Nat /\ n \in Nat /\ gpio \in Nat /\ first \in Nat /\ c % T \in Nat
  BY <1>1, <1>4
<1> DEFINE start == (c % T) + first - gpio
<1>9. PwmStart(r.reference, gpio) = start
  <2> DEFINE t == r.reference[0]
  <2>1. t = c + n * T + first
    BY <1>2, <1>4, <1>8 DEF first
  <2>2. (c % T) + first < T
    BY <1>3, <1>4 DEF first
  <2> HIDE DEF t
  <2>3. Reading(T, c, n, first, t)
    BY <1>5, <1>8, <2>1, <2>2 DEF Reading
  <2>4. ToInt(U64((t % U64(T)) - gpio)) = (c % T) + first - gpio
    BY <1>5, <1>8, <2>3, StartIsFound
  <2> QED BY <1>6, <2>4 DEF PwmStart, t
<1>10. ASSUME NEW x \in Nat, NEW m \in Nat, NEW t, t = c + m * T + x,
             x >= first - gpio, x - first + gpio < T, (c % T) + x < T
      PROVE  ToInt(Delay(t, T, start)) = x - first + gpio /\ x - first + gpio \in 0 .. T - 1
  <2>1. x - first + gpio \in 0 .. T - 1
    BY <1>8, <1>10
  <2>2. Within(T, x, first, gpio)
    BY <1>8, <2>1 DEF Within
  <2>3. Reading(T, c, m, x, t)
    BY <1>5, <1>8, <1>10 DEF Reading
  <2>4. ToInt(Delay(t, T, (c % T) + first - gpio)) = x - first + gpio
    BY <2>2, <2>3, DelayIsFound
  <2> QED BY <2>1, <2>4
<1> HIDE DEF start
<1>11. \A i \in Slots :
          /\ ToInt(Delay(r["background"][i], T, start)) = late[i] - first + gpio
          /\ ToInt(Delay(r["reference"][i], T, start)) = lateReference[i] - first + gpio
          /\ late[i] - first + gpio \in 0 .. T - 1
          /\ lateReference[i] - first + gpio \in 0 .. T - 1
  <2>1. TAKE i \in Slots
  <2> DEFINE m == n + i
  <2>2. r["background"][i] = c + i * T + late[i] /\ r["reference"][i] = c + m * T + lateReference[i]
    BY <1>2
  <2>3. i \in Nat /\ m \in Nat /\ late[i] \in Nat /\ lateReference[i] \in Nat
    BY <1>1, SlotFacts
  <2> HIDE DEF m
  <2>4. ToInt(Delay(r["background"][i], T, start)) = late[i] - first + gpio
        /\ late[i] - first + gpio \in 0 .. T - 1
    BY <1>3, <1>10, <2>2, <2>3, Zenon
  <2>5. ToInt(Delay(r["reference"][i], T, start)) = lateReference[i] - first + gpio
        /\ lateReference[i] - first + gpio \in 0 .. T - 1
    BY <1>3, <1>10, <2>2, <2>3, Zenon
  <2> QED BY <2>4, <2>5
<1>12. /\ Delays("background", r) = [i \in Slots |-> ToInt(Delay(r["background"][i], T, start))]
       /\ Delays("reference", r) = [i \in Slots |-> ToInt(Delay(r["reference"][i], T, start))]
  BY <1>6, <1>7, <1>9 DEF Delays
<1> QED BY <1>11, <1>12 DEF first, T

LEMMA EffectOfReport == Fits /\ Reported => EffectIsSeen
<1> SUFFICES ASSUME Fits, Reported, report # NoReport, KindClock(readings)
             PROVE  LET effect == Total(readings.late) - Total(readings.lateReference)
                    IN  /\ \A i \in Slots :
                              PromptTwo(i) = Magnitude(readings.late[i] - readings.lateReference[i])
                        /\ Magnitude(BufferSize * report[2] - Magnitude(effect)) < BufferSize
  BY DEF EffectIsSeen
<1>1. PICK clock \in Clocks, gpio \in Latencies, switch \in Latencies,
           late \in [Slots -> Latencies], lateReference \in [Slots -> Latencies] :
           readings = ReadingsOf(clock, gpio, switch, late, lateReference)
  BY DEF Reported
<1> DEFINE first == lateReference[0]
<1> DEFINE d(x) == [i \in Slots |-> x[i] - first + gpio]
<1> DEFINE T == clock[1]
<1>2. /\ Delays("background", readings) = d(late) /\ Delays("reference", readings) = d(lateReference)
      /\ d(late) \in [Slots -> 0 .. T - 1] /\ d(lateReference) \in [Slots -> 0 .. T - 1]
  BY <1>1, DelaysAreLatencies
<1>3. readings.late = late /\ readings.lateReference = lateReference
  BY <1>1 DEF ReadingsOf
<1>4. /\ T \in Nat \ {0} /\ 2 * (BufferSize * T) <= IntSize /\ gpio \in Nat /\ first \in Nat
      /\ late \in [Slots -> Nat] /\ lateReference \in [Slots -> Nat]
  BY SlotFacts DEF Fits
<1> DEFINE b == d(late)
<1> DEFINE r == d(lateReference)
<1>5. \A i \in Slots : b[i] = late[i] - first + gpio /\ r[i] = lateReference[i] - first + gpio
  OBVIOUS
<1>6. b \in [Slots -> 0 .. T - 1] /\ r \in [Slots -> 0 .. T - 1]
  BY <1>2
<1> HIDE DEF first, T, d, b, r
<1>7. ASSUME NEW i \in Slots
      PROVE  PromptTwo(i) = Magnitude(readings.late[i] - readings.lateReference[i])
  <2>1. PromptTwo(i) = Magnitude(b[i] - r[i])
    BY <1>2 DEF PromptTwo, b, r
  <2>2. b[i] - r[i] = late[i] - lateReference[i]
    BY <1>4, <1>5
  <2> QED BY <1>3, <2>1, <2>2
<1>8. /\ SumOver(b, Slots) \in Nat /\ SumOver(r, Slots) \in Nat
      /\ Average(b) = SumOver(b, Slots) \div BufferSize
      /\ Average(r) = SumOver(r, Slots) \div BufferSize
  BY <1>4, <1>6, AverageOfDelays
<1>9. Total(late) = SumOver(late, Slots) /\ Total(lateReference) = SumOver(lateReference, Slots)
      /\ SumOver(late, Slots) \in Nat /\ SumOver(lateReference, Slots) \in Nat
  <2>1. DOMAIN late = Slots /\ DOMAIN lateReference = Slots
        /\ (\A i \in Slots : late[i] \in Nat) /\ (\A i \in Slots : lateReference[i] \in Nat)
    BY <1>4
  <2> QED BY <2>1, SlotFacts, TotalIsSum, SumNat
\* The start and the latency without a background are in both sums.
<1>10. SumOver(b, Slots) + SumOver(lateReference, Slots) = SumOver(r, Slots) + SumOver(late, Slots)
  <2> DEFINE e == [i \in Slots |-> b[i] + lateReference[i]]
  <2>1. \A i \in Slots : b[i] \in Nat /\ lateReference[i] \in Nat /\ e[i] = b[i] + lateReference[i]
    BY <1>4, <1>6
  <2>2. \A i \in Slots : r[i] \in Nat /\ late[i] \in Nat /\ e[i] = r[i] + late[i]
    <3>1. TAKE i \in Slots
    <3>2. r[i] \in Nat /\ late[i] \in Nat /\ b[i] + lateReference[i] = r[i] + late[i]
      BY <1>4, <1>5, <1>6
    <3> QED BY <3>2
  <2> HIDE DEF e
  <2>3. SumOver(e, Slots) = SumOver(b, Slots) + SumOver(lateReference, Slots)
    BY <2>1, SlotFacts, SumPlus
  <2>4. SumOver(e, Slots) = SumOver(r, Slots) + SumOver(late, Slots)
    BY <2>2, SlotFacts, SumPlus
  <2> QED BY <2>3, <2>4
<1> DEFINE sb == SumOver(b, Slots)
<1> DEFINE sr == SumOver(r, Slots)
<1>11. Magnitude(BufferSize * report[2] - Magnitude(Total(late) - Total(lateReference))) < BufferSize
  <2>1. report[2] = Magnitude((sb \div BufferSize) - (sr \div BufferSize))
    BY <1>2, <1>8 DEF Reported, b, r
  <2>2. Total(late) - Total(lateReference) = sb - sr
    BY <1>8, <1>9, <1>10
  <2>3. sb \in Nat /\ sr \in Nat /\ BufferSize \in Nat \ {0}
    BY <1>8, SlotFacts
  <2> HIDE DEF sb, sr
  <2>4. Magnitude(BufferSize * Magnitude((sb \div BufferSize) - (sr \div BufferSize))
                    - Magnitude(sb - sr)) < BufferSize
    BY <2>3, AveragesDiffer
  <2> QED BY <2>1, <2>2, <2>4
<1> QED BY <1>3, <1>7, <1>11

\* Test 2 shows the effect of the background, for a buffer of any size, any
\* clock and any latencies that fit the widths: what the prompt prints of a
\* reading is the difference of two latencies and nothing of the period, of the
\* phase or of the estimated start, and the averages keep it but for rounding.
THEOREM EffectIsSeenHolds ==
    ASSUME Fits
    PROVE  Program => []EffectIsSeen
<1>1. ProgramInit => Reported
  BY DEF ProgramInit, Reported
<1>2. Program => []Reported
  BY <1>1, NextReported, PTL DEF Program
<1> QED BY <1>2, EffectOfReport, PTL

=============================================================================
