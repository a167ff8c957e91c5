---------------------------- MODULE Eeprom24FC256 ----------------------------
(***************************************************************************)
(* The flash driver of assignment 4 (drivers/flash/i2c_flash_24fc256.c) and *)
(* the 24FC256 chip behind it, called by the shell (Dump, Test, Start) and  *)
(* by the thread that writes a page.                                        *)
(*                                                                          *)
(* The chip keeps an address pointer that the first two bytes of a transfer *)
(* set and that a read starts from, and does not acknowledge while it burns *)
(* the bytes it was sent. Of each frame of PageBytes bytes the chip is      *)
(* modelled by the last write to it and how many bytes that write covered.  *)
(* The driver's own arithmetic is done on its real widths.                  *)
(***************************************************************************)
EXTENDS Integers

CONSTANTS
    PageCount,       \* pages of the chip: 512
    Pages,           \* the page numbers the callers use
    MaxWrites,       \* bound: calls of flash_write
    MaxErases        \* bound: calls of flash_erase

PageBytes == 64

ASSUME PageCountAssumption == PageCount \in Nat \ {0}
ASSUME CallsAssumption ==
    /\ Pages \subseteq 0 .. PageCount - 1
    /\ {MaxWrites, MaxErases} \subseteq Nat

Clients == {"shell", "writer"}
Frames == 0 .. PageCount - 1

\* The lengths given to flash_write: cmd_test gives 1, write_distance_eeprom 8.
WriteLen == [shell |-> 1, writer |-> 8]
ReadLens == {1, PageBytes}      \* cmd_test reads 1 byte, cmd_dump_distances 64

Labels == {"idle", "wait", "transfer", "receive", "erase", "give"}

VARIABLES
    pc,         \* where each client is in the driver
    call,       \* the call it makes
    ret,        \* the value of ret: 0, -1, or "nak" for an i2c error
    from,       \* the address the bytes of its read came from, or -1
    sem,        \* count of driver_data->sem, without a limit
    pointer,    \* the chip's address pointer
    busy,       \* the chip is burning a page
    chip,       \* per frame, the last write and the bytes it covered
    writes,     \* number of flash_write calls so far
    erases      \* number of flash_erase calls so far

clientVars == <<pc, call, ret, from>>
chipVars == <<pointer, busy, chip>>
vars == <<clientVars, sem, chipVars, writes, erases>>

\* Write 0 is the array of zeros of an erase; -1 stands for the factory contents.
NoCall == [op |-> "read", page |-> 0, len |-> 0, tag |-> 0]
Unwritten == [tag |-> -1, bytes |-> PageBytes]

Init ==
    /\ pc = [c \in Clients |-> "idle"]
    /\ call = [c \in Clients |-> NoCall]
    /\ ret = [c \in Clients |-> "0"]
    /\ from = [c \in Clients |-> -1]
    /\ sem = 1
    /\ pointer = 0
    /\ busy = FALSE
    /\ chip = [f \in Frames |-> Unwritten]
    /\ writes = 0
    /\ erases = 0

-----------------------------------------------------------------------------
(* The two bytes of address: (u8_t) ((64 * offset) & 0xFF00) >> 8, where the   *)
(* cast is applied before the shift, and (u8_t) ((64 * offset) & 0x00FF) >> 0. *)
U8(n) == n % 256
MaskFF00(n) == (n % 65536) - (n % 256)
MaskFF(n) == n % 256
HighByte(page) == U8(MaskFF00(PageBytes * page)) \div 256
LowByte(page) == U8(MaskFF(PageBytes * page))
AddressOf(page) == 256 * HighByte(page) + LowByte(page)

FrameAt(address) == address \div PageBytes

-----------------------------------------------------------------------------
Goto(c, l) == pc' = [pc EXCEPT ![c] = l]

\* What a call does first once it has the semaphore.
FirstStep(what) == CASE what.op = "erase" -> "erase"
                     [] what.op = "protect" -> "give"
                     [] OTHER -> "transfer"

\* Mutation: a client that finds the count at 0 goes on.
BeginUnchecked(c, what) ==
    /\ pc[c] = "idle"
    /\ call' = [call EXCEPT ![c] = what]
    /\ ret' = [ret EXCEPT ![c] = "0"]
    /\ from' = [from EXCEPT ![c] = -1]
    /\ sem' = IF sem > 0 THEN sem - 1 ELSE 0
    /\ Goto(c, FirstStep(what))
    /\ UNCHANGED chipVars

\* A call begins with k_sem_take(&driver_data->sem, K_FOREVER).
Begin(c, what) ==
    /\ pc[c] = "idle"
    /\ call' = [call EXCEPT ![c] = what]
    /\ ret' = [ret EXCEPT ![c] = "0"]
    /\ from' = [from EXCEPT ![c] = -1]
    /\ IF sem > 0
         THEN sem' = sem - 1 /\ Goto(c, FirstStep(what))
         ELSE Goto(c, "wait") /\ UNCHANGED sem
    /\ UNCHANGED chipVars

BeginRead(c, page, len) ==
    /\ Begin(c, [op |-> "read", page |-> page, len |-> len, tag |-> 0])
    /\ UNCHANGED <<writes, erases>>

BeginWrite(c, page) ==
    /\ writes < MaxWrites
    /\ writes' = writes + 1
    /\ Begin(c, [op |-> "write", page |-> page, len |-> WriteLen[c], tag |-> writes'])
    /\ UNCHANGED erases

BeginErase(c) ==
    /\ erases < MaxErases
    /\ erases' = erases + 1
    /\ Begin(c, [op |-> "erase", page |-> 0, len |-> PageBytes, tag |-> 0])
    /\ UNCHANGED writes

\* flash_write_protection_set takes the semaphore and gives it again. Nothing in
\* the repository calls it; the chip's write-protect pin is not wired.
BeginProtect(c) ==
    /\ Begin(c, [op |-> "protect", page |-> 0, len |-> 0, tag |-> 0])
    /\ UNCHANGED <<writes, erases>>

\* The data bytes of an i2c_write of len bytes: the first two are the address.
DataSent(len) == IF len > 2 THEN len - 2 ELSE 0

\* The data goes to the frame at the address. One byte is not an address.
Send(page, len, tag) ==
    IF len < 2
      THEN UNCHANGED chipVars
      ELSE /\ pointer' = AddressOf(page) + DataSent(len)
           /\ busy' = (len > 2)
           /\ chip' = IF len = 2 THEN chip
                      ELSE [chip EXCEPT ![FrameAt(AddressOf(page))] =
                                [tag |-> tag, bytes |-> DataSent(len)]]

\* Mutation: the result of i2c_write is ignored.
TransferIgnored(c) ==
    /\ pc[c] = "transfer"
    /\ LET len == IF call[c].op = "read" THEN 2 ELSE call[c].len
       IN  IF busy THEN UNCHANGED chipVars ELSE Send(call[c].page, len, call[c].tag)
    /\ Goto(c, IF call[c].op = "read" THEN "receive" ELSE "give")
    /\ UNCHANGED <<call, ret, from, sem, writes, erases>>

\* Mutation: an error returns before k_sem_give.
TransferReturns(c) ==
    /\ pc[c] = "transfer"
    /\ LET len == IF call[c].op = "read" THEN 2 ELSE call[c].len
       IN  IF busy
             THEN ret' = [ret EXCEPT ![c] = "nak"] /\ UNCHANGED chipVars
             ELSE Send(call[c].page, len, call[c].tag) /\ UNCHANGED ret
    /\ Goto(c, IF busy THEN "idle"
               ELSE IF call[c].op = "read" THEN "receive" ELSE "give")
    /\ UNCHANGED <<call, from, sem, writes, erases>>

\* The i2c_write of flash_write, and the one of flash_read that sends the
\* address. A len above 64 is refused before the transfer; no caller has one.
Transfer(c) ==
    /\ pc[c] = "transfer"
    /\ LET len == IF call[c].op = "read" THEN 2 ELSE call[c].len
       IN  IF len > PageBytes
             THEN ret' = [ret EXCEPT ![c] = "-1"] /\ UNCHANGED chipVars
           ELSE IF busy
             THEN ret' = [ret EXCEPT ![c] = "nak"] /\ UNCHANGED chipVars
           ELSE Send(call[c].page, len, call[c].tag) /\ UNCHANGED ret
    /\ Goto(c, IF call[c].op = "read" THEN "receive" ELSE "give")
    /\ UNCHANGED <<call, from, sem, writes, erases>>

\* Mutation: the result of i2c_read replaces that of i2c_write.
ReceiveForgets(c) ==
    /\ pc[c] = "receive"
    /\ IF busy
         THEN ret' = [ret EXCEPT ![c] = "nak"] /\ UNCHANGED <<from, pointer>>
         ELSE /\ ret' = [ret EXCEPT ![c] = "0"]
              /\ from' = [from EXCEPT ![c] = pointer]
              /\ pointer' = (pointer + call[c].len) % (PageCount * PageBytes)
    /\ Goto(c, "give")
    /\ UNCHANGED <<call, sem, busy, chip, writes, erases>>

\* The i2c_read that follows, whether or not the address was accepted.
Receive(c) ==
    /\ pc[c] = "receive"
    /\ IF busy
         THEN ret' = [ret EXCEPT ![c] = "nak"] /\ UNCHANGED <<from, pointer>>
         ELSE /\ from' = [from EXCEPT ![c] = pointer]
              /\ pointer' = (pointer + call[c].len) % (PageCount * PageBytes)
              /\ UNCHANGED ret
    /\ Goto(c, "give")
    /\ UNCHANGED <<call, sem, busy, chip, writes, erases>>

\* Mutation: the loop runs for i <= size.
EraseOneMore(c) ==
    /\ call' = [call EXCEPT ![c].page = @ + 1]
    /\ Goto(c, IF call[c].page < PageCount THEN "erase" ELSE "give")

EraseNext(c) ==
    /\ call' = [call EXCEPT ![c].page = @ + 1]
    /\ Goto(c, IF call[c].page + 1 < PageCount THEN "erase" ELSE "give")

\* flash_erase gives flash_write the i2c controller where the flash device
\* belongs, so what is read as the semaphore and the controller to use is not
\* one: the bytes may reach the chip or not, the call may return 0 or not, and
\* it is repeated until it does.
ErasePage(c) ==
    /\ pc[c] = "erase"
    /\ \/ ~busy /\ Send(call[c].page, PageBytes, 0)
       \/ UNCHANGED chipVars
    /\ EraseNext(c) \/ UNCHANGED <<call, pc>>
    /\ UNCHANGED <<ret, from, sem, writes, erases>>

\* k_sem_give: to the client that waits, or the count grows.
Give(c) ==
    /\ pc[c] = "give"
    /\ pc' = [d \in Clients |-> CASE d = c -> "idle"
                                  [] d # c /\ pc[d] = "wait" -> FirstStep(call[d])
                                  [] OTHER -> pc[d]]
    /\ sem' = IF \E d \in Clients : pc[d] = "wait" THEN sem ELSE sem + 1
    /\ UNCHANGED <<call, ret, from, chipVars, writes, erases>>

\* The chip's write cycle ends.
Burnt ==
    /\ busy
    /\ busy' = FALSE
    /\ UNCHANGED <<clientVars, sem, pointer, chip, writes, erases>>

-----------------------------------------------------------------------------
Call(c) ==
    \/ c = "shell" /\ \E page \in Pages, len \in ReadLens : BeginRead(c, page, len)
    \/ \E page \in Pages : BeginWrite(c, page)
    \/ c = "shell" /\ (BeginErase(c) \/ BeginProtect(c))

Proceed(c) == Transfer(c) \/ Receive(c) \/ ErasePage(c) \/ Give(c)

Next == (\E c \in Clients : Call(c) \/ Proceed(c)) \/ Burnt

Spec == Init /\ [][Next]_vars

\* Transfers end, and so does the chip's write cycle; nobody has to call.
FairSpec == Spec /\ (\A c \in Clients : WF_vars(Proceed(c))) /\ WF_vars(Burnt)

-----------------------------------------------------------------------------
(* Properties *)

Calls == [op : {"read", "write", "erase", "protect"}, page : 0 .. PageCount,
          len : Nat, tag : Nat]

\* Every variable stays in its type.
TypeOK ==
    /\ pc \in [Clients -> Labels]
    /\ call \in [Clients -> Calls]
    /\ ret \in [Clients -> {"0", "-1", "nak"}]
    /\ from \in [Clients -> Int]
    /\ sem \in Nat
    /\ pointer \in Nat
    /\ busy \in BOOLEAN
    /\ chip \in [Frames -> [tag : Int, bytes : Int]]
    /\ writes \in Nat
    /\ erases \in Nat

Inside == {"transfer", "receive", "erase", "give"}

\* The semaphore, which could count without limit, keeps one client at a time
\* between take and give, and lets nobody wait while it is free.
OneClient ==
    /\ \A c, d \in Clients : pc[c] \in Inside /\ pc[d] \in Inside => c = d
    /\ sem > 0 => \A c \in Clients : pc[c] = "idle"
    /\ sem <= 1

\* A read that returns 0 brings the bytes at the address it asked for: nobody
\* moves the chip's pointer between its two transfers, and a first transfer that
\* the burning chip refused is not forgotten when the second succeeds.
ReadsItsPage ==
    \A c \in Clients : pc[c] = "give" /\ call[c].op = "read" /\ ret[c] = "0" =>
        from[c] = AddressOf(call[c].page)

\* What a write that is told 0 sent is in the frame it was sent to when the
\* semaphore is given: the chip did not refuse it, and nobody wrote in between. That
\* is not all that the caller gave: of len bytes flash_write sends len - 2, and of
\* one byte, as cmd_test writes, none (StoresItsPage below).
SentBytesAreThere ==
    \A c \in Clients :
        (/\ pc[c] = "give" /\ call[c].op = "write" /\ ret[c] = "0"
         /\ DataSent(call[c].len) > 0)
        => chip[FrameAt(AddressOf(call[c].page))] =
               [tag |-> call[c].tag, bytes |-> DataSent(call[c].len)]

\* Every call of the driver returns, unless an erase keeps it waiting: it waits
\* for its turn, not for the chip.
CallsEnd ==
    \A c \in Clients :
        (pc[c] # "idle") ~> (pc[c] = "idle" \/ \E d \in Clients : pc[d] = "erase")

-----------------------------------------------------------------------------
(* What the driver's comments say, and the code does not do *)

\* i2c_flash_24fc256.c:51-52: "only allow page writes (64 bytes)", "offset is
\* relative to pages rather than bytes": a write that returns 0 has stored all the
\* bytes it was given in the page it was given, and no other page changed.
StoresItsPage ==
    [][\A c \in Clients :
           (/\ pc[c] = "transfer" /\ pc'[c] = "give"
            /\ call[c].op = "write" /\ ret'[c] = "0")
           => chip' = [chip EXCEPT ![call[c].page] =
                           [tag |-> call[c].tag, bytes |-> call[c].len]]]_vars
=============================================================================
