------------------------- MODULE Eeprom24FC256Proofs -------------------------
(***************************************************************************)
(* What the flash driver does for every size of the chip and any number of  *)
(* calls: which addresses it can send, and what its semaphore achieves.     *)
(***************************************************************************)
EXTENDS Eeprom24FC256, TLAPS

-----------------------------------------------------------------------------
(* The address arithmetic *)

\* The cast of (u8_t) (x & 0xFF00) >> 8 is applied first, so no byte of the
\* address above the first 256 is ever sent, whatever page is asked for.
THEOREM AddressStaysLow ==
    ASSUME NEW page \in Nat
    PROVE  AddressOf(page) \in 0 .. 255 /\ HighByte(page) = 0
<1>1. U8(MaskFF00(PageBytes * page)) = 0
  BY DEF U8, MaskFF00, PageBytes
<1>2. U8(MaskFF(PageBytes * page)) \in 0 .. 255
  BY DEF U8, MaskFF, PageBytes
<1> QED
  BY <1>1, <1>2 DEF AddressOf, HighByte, LowByte

\* Pages whose numbers differ by 4 have one address: the driver can reach four
\* frames of the chip's 512.
THEOREM PagesAlias ==
    ASSUME NEW page \in Nat
    PROVE  AddressOf(page + 4) = AddressOf(page)
<1>1. (PageBytes * (page + 4)) % 256 = (PageBytes * page) % 256
  BY DEF PageBytes
<1>2. LowByte(page + 4) = LowByte(page)
  BY <1>1 DEF LowByte, U8, MaskFF
<1> QED
  BY <1>2, AddressStaysLow DEF AddressOf

\* The frame that a page is written to is its number modulo 4, whatever the size
\* of the chip: a page below the chip's size never reaches past its frames.
THEOREM FrameOfPage ==
    ASSUME NEW page \in Nat
    PROVE  FrameAt(AddressOf(page)) = page % 4
<1>1. (PageBytes * page) % 256 = PageBytes * (page % 4)
  BY DEF PageBytes
<1>2. LowByte(page) = PageBytes * (page % 4)
  BY <1>1 DEF LowByte, U8, MaskFF, PageBytes
<1>3. AddressOf(page) = PageBytes * (page % 4)
  <2>1. HighByte(page) = 0 /\ page % 4 \in Nat
    BY AddressStaysLow
  <2> QED
    BY <1>2, <2>1 DEF AddressOf, PageBytes
<1>4. \A n \in Nat : (64 * n) \div 64 = n
  OBVIOUS
<1> QED
  BY <1>3, <1>4 DEF FrameAt, PageBytes

-----------------------------------------------------------------------------
(* Type correctness. The page of an erase stays inside the chip while there   *)
(* is a page left to write; the other calls go through their own labels.      *)

PcCalls ==
    \A c \in Clients :
        /\ pc[c] \in {"wait", "erase"} /\ call[c].op = "erase" => call[c].page < PageCount
        /\ pc[c] = "erase" => call[c].op = "erase"
        /\ pc[c] = "transfer" => call[c].op \in {"read", "write"}
        /\ pc[c] = "receive" => call[c].op = "read"

TypeInv == TypeOK /\ PcCalls

LEMMA AddressTyped ==
    ASSUME NEW page \in 0 .. PageCount
    PROVE  AddressOf(page) \in Nat /\ FrameAt(AddressOf(page)) \in Nat
  BY AddressStaysLow, PageCountAssumption DEF FrameAt, PageBytes

LEMMA SendTyped ==
    ASSUME pointer \in Nat, busy \in BOOLEAN, chip \in [Frames -> [tag : Int, bytes : Int]],
           NEW page \in 0 .. PageCount, NEW len \in Nat, NEW tag \in Nat,
           Send(page, len, tag)
    PROVE  /\ pointer' \in Nat
           /\ busy' \in BOOLEAN
           /\ chip' \in [Frames -> [tag : Int, bytes : Int]]
<1>1. CASE len < 2
  BY <1>1 DEF Send, chipVars
<1>2. CASE len >= 2
  <2>1. pointer' = AddressOf(page) + (len - 2) /\ busy' = (len > 2)
    BY <1>2 DEF Send, DataSent
  <2>2. pointer' \in Nat /\ busy' \in BOOLEAN
    BY <1>2, <2>1, AddressTyped
  <2>3. [tag |-> tag, bytes |-> len - 2] \in [tag : Int, bytes : Int]
    OBVIOUS
  <2>4. \/ chip' = chip
        \/ chip' = [chip EXCEPT ![FrameAt(AddressOf(page))] = [tag |-> tag, bytes |-> len - 2]]
    BY <1>2 DEF Send, DataSent
  <2> QED
    BY <2>2, <2>3, <2>4
<1> QED
  BY <1>1, <1>2

LEMMA BeginTyped ==
    ASSUME TypeInv, NEW c \in Clients, NEW what \in Calls, Begin(c, what),
           what.op = "erase" => what.page < PageCount
    PROVE  /\ pc' \in [Clients -> Labels] /\ call' \in [Clients -> Calls]
           /\ ret' \in [Clients -> {"0", "-1", "nak"}] /\ from' \in [Clients -> Int]
           /\ sem' \in Nat /\ UNCHANGED chipVars
           /\ PcCalls'
<1> USE DEF Begin, TypeInv, TypeOK, Goto
<1>0. FirstStep(what) \in Labels
  BY DEF FirstStep, Labels
<1>1. /\ call' \in [Clients -> Calls]
      /\ ret' \in [Clients -> {"0", "-1", "nak"}] /\ from' \in [Clients -> Int]
      /\ UNCHANGED chipVars
  OBVIOUS
<1>2. sem' \in Nat /\ pc' \in [Clients -> Labels]
  BY <1>0 DEF Labels
<1>3. PcCalls'
  BY <1>1 DEF PcCalls, Calls, FirstStep
<1> QED
  BY <1>1, <1>2, <1>3

LEMMA NextTyped == TypeInv /\ [Next]_vars => TypeInv'
<1> SUFFICES ASSUME TypeInv, [Next]_vars PROVE TypeInv'
  OBVIOUS
<1> USE PageCountAssumption, CallsAssumption
<1>1. ASSUME NEW c \in Clients, NEW page \in Pages, NEW len \in ReadLens,
             BeginRead(c, page, len)
      PROVE  TypeInv'
  <2> DEFINE what == [op |-> "read", page |-> page, len |-> len, tag |-> 0]
  <2>1. what \in Calls /\ what.op = "read"
    BY DEF Calls, ReadLens, PageBytes
  <2>2. Begin(c, what) /\ UNCHANGED <<writes, erases>>
    BY <1>1 DEF BeginRead
  <2> HIDE DEF what
  <2> QED
    BY <2>1, <2>2, BeginTyped DEF TypeInv, TypeOK, chipVars
<1>2. ASSUME NEW c \in Clients, NEW page \in Pages, BeginWrite(c, page)
      PROVE  TypeInv'
  <2> DEFINE what == [op |-> "write", page |-> page, len |-> WriteLen[c], tag |-> writes']
  <2>1. writes' \in Nat /\ UNCHANGED erases
    BY <1>2 DEF BeginWrite, TypeInv, TypeOK
  <2>2. WriteLen[c] \in Nat
    BY DEF WriteLen, Clients
  <2>3. what \in Calls /\ what.op = "write"
    BY <2>1, <2>2 DEF Calls
  <2>4. Begin(c, what)
    BY <1>2 DEF BeginWrite
  <2> HIDE DEF what
  <2> QED
    BY <2>1, <2>3, <2>4, BeginTyped DEF TypeInv, TypeOK, chipVars
<1>3. ASSUME NEW c \in Clients, BeginErase(c)
      PROVE  TypeInv'
  <2> DEFINE what == [op |-> "erase", page |-> 0, len |-> PageBytes, tag |-> 0]
  <2>1. what \in Calls /\ what.op = "erase" /\ what.page < PageCount
    BY DEF Calls, PageBytes
  <2>2. Begin(c, what) /\ erases' \in Nat /\ UNCHANGED writes
    BY <1>3 DEF BeginErase, TypeInv, TypeOK
  <2> HIDE DEF what
  <2> QED
    BY <2>1, <2>2, BeginTyped DEF TypeInv, TypeOK, chipVars
<1>4. ASSUME NEW c \in Clients, BeginProtect(c)
      PROVE  TypeInv'
  <2> DEFINE what == [op |-> "protect", page |-> 0, len |-> 0, tag |-> 0]
  <2>1. what \in Calls /\ what.op = "protect"
    BY DEF Calls
  <2>2. Begin(c, what) /\ UNCHANGED <<writes, erases>>
    BY <1>4 DEF BeginProtect
  <2> HIDE DEF what
  <2> QED
    BY <2>1, <2>2, BeginTyped DEF TypeInv, TypeOK, chipVars
<1>5. ASSUME NEW c \in Clients, Transfer(c)
      PROVE  TypeInv'
  <2> DEFINE len == IF call[c].op = "read" THEN 2 ELSE call[c].len
  <2>1. /\ call[c] \in Calls
        /\ call[c].page \in 0 .. PageCount /\ len \in Nat /\ call[c].tag \in Nat
    BY DEF TypeInv, TypeOK, Calls
  <2>2. UNCHANGED chipVars \/ Send(call[c].page, len, call[c].tag)
    BY <1>5 DEF Transfer
  <2>3. /\ ret' \in [Clients -> {"0", "-1", "nak"}]
        /\ UNCHANGED <<call, from, sem, writes, erases>>
    BY <1>5 DEF Transfer, TypeInv, TypeOK
  <2> HIDE DEF len
  <2>4. /\ pointer' \in Nat /\ busy' \in BOOLEAN
        /\ chip' \in [Frames -> [tag : Int, bytes : Int]]
    BY <2>1, <2>2, SendTyped DEF TypeInv, TypeOK, chipVars
  <2>5. pc' \in [Clients -> Labels] /\ PcCalls'
    BY <1>5, <2>3 DEF Transfer, Goto, TypeInv, TypeOK, PcCalls, Labels
  <2> QED
    BY <2>3, <2>4, <2>5 DEF TypeInv, TypeOK
<1>6. ASSUME NEW c \in Clients, Receive(c)
      PROVE  TypeInv'
  <2>1. call[c].len \in Nat
    BY DEF TypeInv, TypeOK, Calls
  <2>2. pointer' \in Nat
    BY <1>6, <2>1 DEF Receive, TypeInv, TypeOK, PageBytes
  <2>3. /\ ret' \in [Clients -> {"0", "-1", "nak"}] /\ from' \in [Clients -> Int]
        /\ UNCHANGED <<call, sem, busy, chip, writes, erases>>
    BY <1>6 DEF Receive, TypeInv, TypeOK
  <2>4. pc' \in [Clients -> Labels] /\ PcCalls'
    BY <1>6, <2>3 DEF Receive, Goto, TypeInv, TypeOK, PcCalls, Labels
  <2> QED
    BY <2>2, <2>3, <2>4 DEF TypeInv, TypeOK
<1>7. ASSUME NEW c \in Clients, ErasePage(c)
      PROVE  TypeInv'
  <2>1. /\ call[c] \in Calls /\ call[c].page \in 0 .. PageCount
        /\ call[c].op = "erase" /\ call[c].page < PageCount
    BY <1>7 DEF ErasePage, TypeInv, TypeOK, PcCalls, Calls
  <2>2. UNCHANGED chipVars \/ Send(call[c].page, PageBytes, 0)
    BY <1>7 DEF ErasePage
  <2>3. /\ pointer' \in Nat /\ busy' \in BOOLEAN
        /\ chip' \in [Frames -> [tag : Int, bytes : Int]]
    BY <2>1, <2>2, SendTyped DEF TypeInv, TypeOK, chipVars, PageBytes
  <2>4. UNCHANGED <<ret, from, sem, writes, erases>>
    BY <1>7 DEF ErasePage
  <2>5. CASE UNCHANGED <<call, pc>>
    BY <2>3, <2>4, <2>5 DEF TypeInv, TypeOK, PcCalls
  <2>6. CASE EraseNext(c)
    <3>1. pc' \in [Clients -> Labels]
      BY <2>6 DEF EraseNext, Goto, TypeInv, TypeOK, Labels
    <3>2. call[c].page + 1 \in 0 .. PageCount
      BY <2>1
    <3>3. call' \in [Clients -> Calls]
      BY <2>1, <2>6, <3>2 DEF EraseNext, TypeInv, TypeOK, Calls
    <3>4. PcCalls'
      BY <2>1, <2>6 DEF EraseNext, Goto, TypeInv, TypeOK, PcCalls, Calls
    <3> QED
      BY <2>3, <2>4, <3>1, <3>3, <3>4 DEF TypeInv, TypeOK
  <2> QED
    BY <1>7, <2>5, <2>6 DEF ErasePage
<1>8. ASSUME NEW c \in Clients, Give(c)
      PROVE  TypeInv'
  <2>1. /\ sem' \in Nat
        /\ UNCHANGED <<call, ret, from, pointer, busy, chip, writes, erases>>
    BY <1>8 DEF Give, TypeInv, TypeOK, chipVars
  <2>2. \A d \in Clients : pc'[d] = IF d = c THEN "idle"
                                   ELSE IF pc[d] = "wait" THEN FirstStep(call[d]) ELSE pc[d]
    BY <1>8 DEF Give
  <2>3. pc' \in [Clients -> Labels]
    BY <1>8 DEF Give, FirstStep, TypeInv, TypeOK, Labels
  <2>4. \A d \in Clients : call[d].op \in {"read", "write", "erase", "protect"}
    BY DEF TypeInv, TypeOK, Calls
  <2>5. PcCalls'
    BY <2>1, <2>2, <2>4 DEF FirstStep, TypeInv, PcCalls
  <2> QED
    BY <2>1, <2>3, <2>5 DEF TypeInv, TypeOK
<1>9. CASE Burnt \/ UNCHANGED vars
  BY <1>9 DEF Burnt, vars, clientVars, chipVars, TypeInv, TypeOK, PcCalls
<1> QED
  BY <1>1, <1>2, <1>3, <1>5, <1>6, <1>7, <1>8, <1>9, <1>4 DEF Next, Call, Proceed

LEMMA InitTyped == Init => TypeInv
<1> SUFFICES ASSUME Init PROVE TypeInv
  OBVIOUS
<1>1. NoCall \in Calls
  BY PageCountAssumption DEF NoCall, Calls
<1>2. Unwritten \in [tag : Int, bytes : Int]
  BY DEF Unwritten, PageBytes
<1>3. TypeOK
  <2>1. pc \in [Clients -> Labels] /\ ret \in [Clients -> {"0", "-1", "nak"}]
    BY DEF Init, Labels
  <2>2. call \in [Clients -> Calls] /\ from \in [Clients -> Int]
    BY <1>1 DEF Init
  <2>3. chip \in [Frames -> [tag : Int, bytes : Int]]
    BY <1>2 DEF Init
  <2>4. busy \in BOOLEAN
    BY DEF Init
  <2>5. {sem, pointer, writes, erases} \subseteq Nat
    BY DEF Init
  <2> QED
    BY <2>1, <2>2, <2>3, <2>4, <2>5 DEF TypeOK
<1>4. PcCalls
  BY DEF Init, PcCalls
<1> QED
  BY <1>3, <1>4 DEF TypeInv

\* The calls, the semaphore and the chip's pointer stay in their types: the loop
\* of flash_erase never asks for a page outside the chip.
THEOREM Typing == Spec => []TypeOK
<1>1. TypeInv => TypeOK
  BY DEF TypeInv
<1> QED
  BY <1>1, InitTyped, NextTyped, PTL DEF Spec

-----------------------------------------------------------------------------
(* The semaphore. OneClient is inductive with the converse of its second part: *)
(* a count of 0 means that a client is inside, so a client that waits is given *)
(* the semaphore by somebody. *)

NobodyInside == \A c \in Clients : pc[c] \notin Inside

Exclusion == OneClient /\ (sem = 0 => ~NobodyInside)

LEMMA StaysInside ==
    ASSUME TypeInv, Exclusion, NEW c \in Clients, NEW l \in Inside,
           pc[c] \in Inside, pc' = [pc EXCEPT ![c] = l], UNCHANGED sem
    PROVE  Exclusion'
<1>1. \A d \in Clients : d # c => pc'[d] = pc[d]
  BY DEF TypeInv, TypeOK
<1>2. pc'[c] = l
  BY DEF TypeInv, TypeOK
<1> QED
  BY <1>1, <1>2 DEF Exclusion, OneClient, NobodyInside, Inside

LEMMA BeginExclusion ==
    ASSUME TypeInv, Exclusion, NEW c \in Clients, NEW what, Begin(c, what)
    PROVE  Exclusion'
<1>0. FirstStep(what) \in {"transfer", "erase", "give"}
  BY DEF FirstStep
<1>1. pc[c] = "idle"
  BY DEF Begin
<1>2. CASE sem > 0
  <2>1. sem = 1 /\ sem' = 0 /\ \A d \in Clients : pc[d] = "idle"
    BY <1>2 DEF Begin, Exclusion, OneClient, TypeInv, TypeOK
  <2>2. pc'[c] = FirstStep(what) /\ \A d \in Clients : d # c => pc'[d] = "idle"
    BY <1>2, <2>1 DEF Begin, Goto, TypeInv, TypeOK
  <2> QED
    BY <1>0, <2>1, <2>2 DEF Exclusion, OneClient, NobodyInside, Inside
<1>3. CASE sem = 0
  <2>1. sem' = 0
    BY <1>3 DEF Begin
  <2>2. pc'[c] = "wait" /\ \A d \in Clients : d # c => pc'[d] = pc[d]
    BY <1>3 DEF Begin, Goto, TypeInv, TypeOK
  <2> QED
    BY <1>1, <1>3, <2>1, <2>2 DEF Exclusion, OneClient, NobodyInside, Inside
<1> QED
  BY <1>2, <1>3 DEF TypeInv, TypeOK

LEMMA NextExclusion == TypeInv /\ Exclusion /\ [Next]_vars => Exclusion'
<1> SUFFICES ASSUME TypeInv, Exclusion, [Next]_vars PROVE Exclusion'
  OBVIOUS
<1>1. ASSUME NEW c \in Clients, Call(c)
      PROVE  Exclusion'
  BY <1>1, BeginExclusion DEF Call, BeginRead, BeginWrite, BeginErase, BeginProtect
<1>2. ASSUME NEW c \in Clients, Transfer(c)
      PROVE  Exclusion'
  <2>1. pc[c] \in Inside /\ UNCHANGED sem
    BY <1>2 DEF Transfer, Inside
  <2>2. \E l \in Inside : pc' = [pc EXCEPT ![c] = l]
    BY <1>2 DEF Transfer, Goto, Inside
  <2> QED
    BY <2>1, <2>2, StaysInside
<1>3. ASSUME NEW c \in Clients, Receive(c)
      PROVE  Exclusion'
  <2>1. pc[c] \in Inside /\ UNCHANGED sem
    BY <1>3 DEF Receive, Inside
  <2>2. \E l \in Inside : pc' = [pc EXCEPT ![c] = l]
    BY <1>3 DEF Receive, Goto, Inside
  <2> QED
    BY <2>1, <2>2, StaysInside
<1>4. ASSUME NEW c \in Clients, ErasePage(c)
      PROVE  Exclusion'
  <2>1. pc[c] \in Inside /\ UNCHANGED sem
    BY <1>4 DEF ErasePage, Inside
  <2>2. CASE EraseNext(c)
    <3>1. \E l \in Inside : pc' = [pc EXCEPT ![c] = l]
      BY <2>2 DEF EraseNext, Goto, Inside
    <3> QED
      BY <2>1, <3>1, StaysInside
  <2>3. CASE UNCHANGED <<call, pc>>
    BY <2>1, <2>3 DEF Exclusion, OneClient, NobodyInside
  <2> QED
    BY <1>4, <2>2, <2>3 DEF ErasePage
<1>5. ASSUME NEW c \in Clients, Give(c)
      PROVE  Exclusion'
  <2>1. pc[c] = "give" /\ pc'[c] = "idle"
    BY <1>5 DEF Give
  <2>2. sem = 0 /\ \A d \in Clients : d # c => pc[d] \notin Inside
    BY <2>1 DEF Exclusion, OneClient, Inside, TypeInv, TypeOK
  <2>3. CASE \E d \in Clients : pc[d] = "wait"
    <3>1. PICK d \in Clients : pc[d] = "wait"
      BY <2>3
    <3>2. d # c /\ \A e \in Clients : e = c \/ e = d
      BY <2>1, <3>1 DEF Clients
    <3>3. sem' = 0
      BY <1>5, <2>2, <2>3 DEF Give
    <3>4. pc'[d] \in {"erase", "transfer", "give"}
      BY <1>5, <3>1, <3>2 DEF Give, FirstStep
    <3> QED
      BY <2>1, <3>2, <3>3, <3>4 DEF Exclusion, OneClient, NobodyInside, Inside
  <2>4. CASE ~ \E d \in Clients : pc[d] = "wait"
    <3>1. sem' = 1
      BY <1>5, <2>2, <2>4 DEF Give
    <3>2. \A d \in Clients : pc'[d] = IF d = c THEN "idle" ELSE pc[d]
      BY <1>5, <2>4 DEF Give
    <3>3. \A d \in Clients : pc'[d] = "idle"
      BY <2>2, <2>4, <3>2 DEF Inside, TypeInv, TypeOK, Labels
    <3> QED
      BY <3>1, <3>3 DEF Exclusion, OneClient, NobodyInside, Inside
  <2> QED
    BY <2>3, <2>4
<1>6. CASE Burnt \/ UNCHANGED vars
  BY <1>6 DEF Burnt, vars, clientVars, Exclusion, OneClient, NobodyInside
<1> QED
  BY <1>1, <1>2, <1>3, <1>4, <1>5, <1>6 DEF Next, Proceed

LEMMA InitExclusion == Init => Exclusion
  BY DEF Init, Exclusion, OneClient, NobodyInside, Inside, Clients

\* k_sem_take and k_sem_give, on a semaphore that nothing limits, let one client
\* at a time into the driver; the count never exceeds the 1 it began with.
THEOREM DriverIsExclusive == Spec => []OneClient
<1>1. Exclusion => OneClient
  BY DEF Exclusion
<1> QED
  BY <1>1, InitTyped, NextTyped, InitExclusion, NextExclusion, PTL DEF Spec

-----------------------------------------------------------------------------
(* A read. Between its two transfers, the chip's pointer is the address it    *)
(* sent, unless that transfer failed.                                         *)

PointerSet ==
    \A c \in Clients : pc[c] = "receive" /\ ret[c] = "0" =>
        pointer = AddressOf(call[c].page)

Reading == PointerSet /\ ReadsItsPage

LEMMA NextReading == TypeInv /\ Exclusion /\ Reading /\ [Next]_vars => Reading'
<1> SUFFICES ASSUME TypeInv, Exclusion, Reading, [Next]_vars PROVE Reading'
  OBVIOUS
<1>0. \A c, d \in Clients : pc[c] \in Inside /\ pc[d] \in Inside => c = d
  BY DEF Exclusion, OneClient
<1>1. ASSUME NEW c \in Clients, NEW what, Begin(c, what)
      PROVE  Reading'
  <2>1. /\ call'[c].op = "protect" \/ pc'[c] \in {"transfer", "erase", "wait"}
        /\ pc'[c] # "receive"
    BY <1>1 DEF Begin, FirstStep, Goto, TypeInv, TypeOK, Calls
  <2>2. \A d \in Clients : d # c => /\ pc'[d] = pc[d] /\ ret'[d] = ret[d]
                                    /\ from'[d] = from[d] /\ call'[d] = call[d]
    BY <1>1 DEF Begin, Goto, TypeInv, TypeOK
  <2> QED
    BY <1>1, <2>1, <2>2 DEF Begin, chipVars, Reading, PointerSet, ReadsItsPage
<1>2. ASSUME NEW c \in Clients, Call(c)
      PROVE  Reading'
  BY <1>1, <1>2 DEF Call, BeginRead, BeginWrite, BeginErase, BeginProtect
<1>3. ASSUME NEW c \in Clients, Transfer(c)
      PROVE  Reading'
  <2>1. /\ pc[c] = "transfer" /\ UNCHANGED <<call, from>>
        /\ pc'[c] = IF call[c].op = "read" THEN "receive" ELSE "give"
        /\ \A d \in Clients : d # c => pc'[d] = pc[d]
    BY <1>3 DEF Transfer, Goto, TypeInv, TypeOK
  <2>2. \A d \in Clients : d # c => pc'[d] \notin Inside
    BY <1>0, <2>1 DEF Inside
  <2>3. ASSUME call[c].op = "read", ret'[c] = "0"
        PROVE  pointer' = AddressOf(call[c].page)
    <3>1. Send(call[c].page, 2, call[c].tag)
      BY <1>3, <2>3 DEF Transfer, PageBytes, TypeInv, TypeOK
    <3>2. AddressOf(call[c].page) \in Nat
      BY AddressTyped DEF TypeInv, TypeOK, Calls
    <3> QED
      BY <3>1, <3>2 DEF Send, DataSent
  <2> QED
    BY <2>1, <2>2, <2>3 DEF Inside, Reading, PointerSet, ReadsItsPage
<1>4. ASSUME NEW c \in Clients, Receive(c)
      PROVE  Reading'
  <2>1. /\ pc[c] = "receive" /\ pc'[c] = "give" /\ UNCHANGED call
        /\ \A d \in Clients : d # c => pc'[d] = pc[d]
    BY <1>4 DEF Receive, Goto, TypeInv, TypeOK
  <2>2. \A d \in Clients : d # c => pc'[d] \notin Inside
    BY <1>0, <2>1 DEF Inside
  <2>3. ret'[c] = "0" => ret[c] = "0" /\ from'[c] = pointer
    BY <1>4 DEF Receive, TypeInv, TypeOK
  <2> QED
    BY <2>1, <2>2, <2>3 DEF Inside, Reading, PointerSet, ReadsItsPage
<1>5. ASSUME NEW c \in Clients, ErasePage(c)
      PROVE  Reading'
  <2>1. pc[c] = "erase" /\ UNCHANGED <<ret, from>> /\ call[c].op = "erase"
    BY <1>5 DEF ErasePage, TypeInv, PcCalls
  <2>2. /\ \A d \in Clients : d # c => pc'[d] = pc[d] /\ call'[d] = call[d]
        /\ pc'[c] \in {"erase", "give"} /\ call'[c].op = "erase"
    BY <1>5, <2>1 DEF ErasePage, EraseNext, Goto, TypeInv, TypeOK, Calls
  <2>3. \A d \in Clients : d # c => pc'[d] \notin Inside
    BY <1>0, <2>1, <2>2 DEF Inside
  <2> QED
    BY <2>2, <2>3 DEF Inside, Reading, PointerSet, ReadsItsPage
<1>6. ASSUME NEW c \in Clients, Give(c)
      PROVE  Reading'
  <2>1. UNCHANGED <<call, ret, from, pointer>>
    BY <1>6 DEF Give, chipVars
  <2>2. \A d \in Clients : pc'[d] = IF d = c THEN "idle"
                                    ELSE IF pc[d] = "wait" THEN FirstStep(call[d]) ELSE pc[d]
    BY <1>6, Zenon DEF Give
  <2>3. \A d \in Clients : \/ FirstStep(call[d]) \in {"transfer", "erase"}
                           \/ FirstStep(call[d]) = "give" /\ call[d].op = "protect"
    BY DEF FirstStep
  <2>4. \A d \in Clients : \/ pc'[d] \in {"idle", "transfer", "erase"} \/ pc'[d] = pc[d]
                           \/ pc'[d] = "give" /\ call[d].op = "protect"
    BY <2>2, <2>3
  <2> QED
    BY <2>1, <2>4 DEF Reading, PointerSet, ReadsItsPage
<1>7. CASE Burnt \/ UNCHANGED vars
  BY <1>7 DEF Burnt, vars, clientVars, chipVars, Reading, PointerSet, ReadsItsPage
<1> QED
  BY <1>2, <1>3, <1>4, <1>5, <1>6, <1>7 DEF Next, Proceed

\* A read that returns 0 brings the bytes of the address it computed: i2c_write
\* and i2c_read are two transfers, and nothing moves the chip's pointer, and no
\* error is lost, from one to the other.
THEOREM ReadsAreOfTheirPage == Spec => []ReadsItsPage
<1>1. Init => Reading
  BY DEF Init, Reading, PointerSet, ReadsItsPage
<1>2. Reading => ReadsItsPage
  BY DEF Reading
<1> QED
  BY <1>1, <1>2, InitTyped, NextTyped, InitExclusion, NextExclusion, NextReading, PTL
     DEF Spec

-----------------------------------------------------------------------------
(* A write. The frame it is for is one of the chip's, and only the client that *)
(* is inside writes, so that what it has written is there until it gives.      *)

WritesInside == \A c \in Clients : call[c].op = "write" => call[c].page < PageCount

Writing == WritesInside /\ SentBytesAreThere

LEMMA SendWrites ==
    ASSUME TypeInv, NEW page \in 0 .. PageCount - 1, NEW len \in Nat, NEW tag \in Nat,
           len > 2, Send(page, len, tag)
    PROVE  chip'[FrameAt(AddressOf(page))] = [tag |-> tag, bytes |-> DataSent(len)]
<1>1. FrameAt(AddressOf(page)) \in Frames
  BY FrameOfPage, PageCountAssumption DEF Frames
<1> QED
  BY <1>1 DEF Send, TypeInv, TypeOK

LEMMA NextWriting == TypeInv /\ Exclusion /\ Writing /\ [Next]_vars => Writing'
<1> SUFFICES ASSUME TypeInv, Exclusion, Writing, [Next]_vars PROVE Writing'
  OBVIOUS
<1>0. \A c, d \in Clients : pc[c] \in Inside /\ pc[d] \in Inside => c = d
  BY DEF Exclusion, OneClient
<1>1. ASSUME NEW c \in Clients, NEW what, Begin(c, what),
             what.op = "write" => what.page < PageCount
      PROVE  Writing'
  <2>1. /\ call'[c] = what
        /\ call'[c].op = "protect" \/ pc'[c] \in {"transfer", "erase", "wait"}
    BY <1>1 DEF Begin, FirstStep, Goto, TypeInv, TypeOK, Calls
  <2>2. \A d \in Clients : d # c => /\ pc'[d] = pc[d] /\ ret'[d] = ret[d]
                                    /\ call'[d] = call[d]
    BY <1>1 DEF Begin, Goto, TypeInv, TypeOK
  <2>3. WritesInside'
    BY <1>1, <2>1, <2>2 DEF Writing, WritesInside
  <2>4. SentBytesAreThere'
    BY <1>1, <2>1, <2>2 DEF Begin, chipVars, Writing, SentBytesAreThere
  <2> QED
    BY <2>3, <2>4 DEF Writing
<1>2. ASSUME NEW c \in Clients, Call(c)
      PROVE  Writing'
  <2>1. \A page \in Pages : page < PageCount
    BY CallsAssumption, PageCountAssumption
  <2> QED
    BY <1>1, <1>2, <2>1 DEF Call, BeginRead, BeginWrite, BeginErase, BeginProtect
<1>3. ASSUME NEW c \in Clients, Transfer(c)
      PROVE  Writing'
  <2>1. /\ pc[c] = "transfer" /\ UNCHANGED call
        /\ \A d \in Clients : d # c => pc'[d] = pc[d]
    BY <1>3 DEF Transfer, Goto, TypeInv, TypeOK
  <2>2. \A d \in Clients : d # c => pc'[d] \notin Inside
    BY <1>0, <2>1 DEF Inside
  <2>3. ASSUME call[c].op = "write", ret'[c] = "0", call[c].len > 2
        PROVE  chip'[FrameAt(AddressOf(call[c].page))] =
                   [tag |-> call[c].tag, bytes |-> DataSent(call[c].len)]
    <3>1. /\ call[c].page \in 0 .. PageCount - 1
          /\ call[c].len \in Nat /\ call[c].tag \in Nat
      BY <2>3, PageCountAssumption DEF Writing, WritesInside, TypeInv, TypeOK, Calls
    <3>2. Send(call[c].page, call[c].len, call[c].tag)
      BY <1>3, <2>3 DEF Transfer, TypeInv, TypeOK
    <3> QED
      BY <2>3, <3>1, <3>2, SendWrites
  <2>4. call[c].op = "write" => call[c].len \in Nat
    BY DEF TypeInv, TypeOK, Calls
  <2>5. SentBytesAreThere'
    BY <2>1, <2>2, <2>3, <2>4 DEF DataSent, Inside, SentBytesAreThere
  <2> QED
    BY <2>1, <2>5 DEF Writing, WritesInside
<1>4. ASSUME NEW c \in Clients, Receive(c)
      PROVE  Writing'
  <2>1. /\ pc[c] = "receive" /\ call[c].op = "read" /\ UNCHANGED <<call, chip>>
        /\ \A d \in Clients : d # c => pc'[d] = pc[d]
    BY <1>4 DEF Receive, Goto, TypeInv, TypeOK, PcCalls
  <2>2. \A d \in Clients : d # c => pc'[d] \notin Inside
    BY <1>0, <2>1 DEF Inside
  <2> QED
    BY <2>1, <2>2 DEF Inside, Writing, WritesInside, SentBytesAreThere
<1>5. ASSUME NEW c \in Clients, ErasePage(c)
      PROVE  Writing'
  <2>1. pc[c] = "erase" /\ call[c].op = "erase"
    BY <1>5 DEF ErasePage, TypeInv, PcCalls
  <2>2. /\ \A d \in Clients : d # c => pc'[d] = pc[d] /\ call'[d] = call[d]
        /\ call'[c].op = "erase"
    BY <1>5, <2>1 DEF ErasePage, EraseNext, Goto, TypeInv, TypeOK, Calls
  <2>3. \A d \in Clients : d # c => pc'[d] \notin Inside
    BY <1>0, <2>1, <2>2 DEF Inside
  <2> QED
    BY <2>2, <2>3 DEF Inside, Writing, WritesInside, SentBytesAreThere
<1>6. ASSUME NEW c \in Clients, Give(c)
      PROVE  Writing'
  <2>1. UNCHANGED <<call, ret, chip>>
    BY <1>6 DEF Give, chipVars
  <2>2. \A d \in Clients : pc'[d] = IF d = c THEN "idle"
                                    ELSE IF pc[d] = "wait" THEN FirstStep(call[d]) ELSE pc[d]
    BY <1>6, Zenon DEF Give
  <2>3. \A d \in Clients : \/ FirstStep(call[d]) \in {"transfer", "erase"}
                           \/ FirstStep(call[d]) = "give" /\ call[d].op = "protect"
    BY DEF FirstStep
  <2>4. \A d \in Clients : \/ pc'[d] \in {"idle", "transfer", "erase"} \/ pc'[d] = pc[d]
                           \/ pc'[d] = "give" /\ call[d].op = "protect"
    BY <2>2, <2>3
  <2> QED
    BY <2>1, <2>4 DEF Writing, WritesInside, SentBytesAreThere
<1>7. CASE Burnt \/ UNCHANGED vars
  BY <1>7 DEF Burnt, vars, clientVars, chipVars, Writing, WritesInside, SentBytesAreThere
<1> QED
  BY <1>2, <1>3, <1>4, <1>5, <1>6, <1>7 DEF Next, Proceed

\* The bytes that a write told 0 has sent, all but the last two of those it was
\* given, are what its frame holds when it gives the semaphore, on a chip of any
\* size: its frame exists, although pages share their addresses, the busy chip's
\* refusal is not taken for success, and nobody wrote after it.
THEOREM SentBytesHold == Spec => []SentBytesAreThere
<1>1. Init => Writing
  BY DEF Init, NoCall, Writing, WritesInside, SentBytesAreThere
<1>2. Writing => SentBytesAreThere
  BY DEF Writing
<1> QED
  BY <1>1, <1>2, InitTyped, NextTyped, InitExclusion, NextExclusion, NextWriting, PTL
     DEF Spec
=============================================================================
