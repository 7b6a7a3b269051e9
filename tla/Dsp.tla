-------------------------------- MODULE Dsp --------------------------------
(***************************************************************************)
(* The audio DSP (mmio/dsp.c) between its two clients.  The guest programs *)
(* it with loads and stores that fault, so its register writes run in the  *)
(* SIGSEGV handler; the timer's signal runs E_MMIO_DSP_TimerHook every     *)
(* 16 ms.  The timer's signal is not blocked in the handler, so the hook   *)
(* runs between any two accesses the handler makes to the DSP's state; the *)
(* handler never runs between two accesses of the hook.                    *)
(*                                                                         *)
(* A register of 32 bits is a number below W * W, its halves (the guest    *)
(* writes those too) are numbers below W.  What the mailboxes and AR_SIZE  *)
(* hold is left out: nothing but the guest's loads depends on it.          *)
(***************************************************************************)
EXTENDS Naturals

CONSTANTS
    W,          \* 2^16
    Block,      \* 32: the bytes the hook moves at a time
    MMAddrs,    \* the values the guest writes to AR_DMA_MMADDR,
    ARAddrs,    \* to AR_DMA_ARADDR
    Highs,      \* and to the halves of AR_DMA_SIZE
    Lows,
    CsrVals     \* and to CSR

ASSUME SizesAssumption ==
    /\ W \in Nat \ {0}
    /\ Block \in Nat \ {0}
    /\ W % 2 = 0
    /\ W % Block = 0

Word == 0 .. W * W - 1
Half == 0 .. W - 1
Csr  == [boot : BOOLEAN, halt : BOOLEAN, reset : BOOLEAN]

ASSUME WritesAssumption ==
    /\ MMAddrs \subseteq Word /\ ARAddrs \subseteq Word
    /\ Highs \subseteq Half /\ Lows \subseteq Half
    /\ CsrVals \subseteq Csr

VARIABLES
    csr,            \* the bits BOOTMODE, HALT and RESET
    halt,           \* priv_halt
    resetTimer,     \* priv_resetTimer
    mm, ar, size,   \* dmaMMAddr, dmaARAddr, dmaSize
    dir,            \* priv_dmaDir: TRUE reads from ARAM
    src, dest,      \* priv_dmaSrcPtr, priv_dmaDestPtr
    fatal,          \* E_State.fatalError
    wpc,            \* where the handler is; "guest" while the guest runs
    wval,           \* E_MMIO_DSP_Write: what is written, and to which half of AR_DMA_SIZE
    wtmp,           \* the register a read-modify-write of dmaSize has loaded it to
    job,            \* history: the transfer that was programmed while the DSP was halted
    csrWritten      \* history: the guest has written CSR

regs    == <<csr, halt, resetTimer, mm, ar, size>>
dma     == <<dir, src, dest>>
writer  == <<wpc, wval, wtmp>>
history == <<job, csrWritten>>
vars    == <<regs, dma, fatal, writer, history>>

None      == [from |-> 0, to |-> 0, left |-> 0, dir |-> FALSE, set |-> FALSE]
NoVal     == [half |-> "L", val |-> 0]
Stopped   == {"bail", "exit"}
SizeSteps == {"and", "andStore", "or", "orStore", "dir", "src", "dest"}
PC        == {"guest", "reset", "halt", "done"} \cup SizeSteps \cup Stopped

(* Every register and local has its width, the reset timer its range. *)
TypeOK ==
    /\ csr \in Csr /\ halt \in BOOLEAN /\ resetTimer \in 0 .. 2
    /\ {mm, ar, size, src, dest, wtmp} \subseteq Word
    /\ dir \in BOOLEAN /\ fatal \in BOOLEAN
    /\ wpc \in PC
    /\ wval \in [half : {"H", "L"}, val : Half]
    /\ job \in [from : Word, to : Word, left : Word, dir : BOOLEAN, set : BOOLEAN]
    /\ csrWritten \in BOOLEAN

-----------------------------------------------------------------------------
(* The halves of a register, and the two parts of dmaSize. *)
High(x)       == x \div W
Low(x)        == x % W
SetHigh(x, v) == v * W + Low(x)
SetLow(x, v)  == High(x) * W + v
TopBit        == (W * W) \div 2
DirBit(x)     == x >= TopBit
Left(x)       == x % TopBit
Advance(x, n) == (x + n) % (W * W)

Init ==
    /\ csr = [boot |-> TRUE, halt |-> TRUE, reset |-> FALSE]
    /\ halt = FALSE
    /\ resetTimer = 0
    /\ mm = 0 /\ ar = 0 /\ size = 0
    /\ dir = FALSE /\ src = 0 /\ dest = 0
    /\ fatal = FALSE
    /\ wpc = "guest" /\ wval = NoVal /\ wtmp = 0
    /\ job = None /\ csrWritten = FALSE

-----------------------------------------------------------------------------
(* The guest's stores.  The handler exits if a fatal error is already set. *)
Enter == wpc = "guest" /\ ~fatal

FatalSeen ==
    /\ wpc = "guest" /\ fatal
    /\ wpc' = "exit"
    /\ UNCHANGED <<regs, dma, fatal, wval, wtmp, history>>

(* A register the DSP does not have, or one of 8 bits. *)
WriteUnknown ==
    /\ Enter
    /\ fatal' = TRUE
    /\ wpc' = "bail"
    /\ UNCHANGED <<regs, dma, wval, wtmp, history>>

(* AR_DMA_MMADDR and AR_DMA_ARADDR, whole or by halves; the hook does not  *)
(* use them.                                                               *)
WriteAddr ==
    /\ Enter
    /\ \/ \E v \in MMAddrs : mm' \in {v, SetHigh(mm, High(v)), SetLow(mm, Low(v))} /\ UNCHANGED ar
       \/ \E v \in ARAddrs : ar' \in {v, SetHigh(ar, High(v)), SetLow(ar, Low(v))} /\ UNCHANGED mm
    /\ wpc' = "done"
    /\ UNCHANGED <<csr, halt, resetTimer, size, dma, fatal, wval, wtmp, history>>

(* The mailboxes and AR_SIZE; the pushes to the DSP are empty.             *)
WriteStored ==
    /\ Enter
    /\ wpc' = "done"
    /\ UNCHANGED <<regs, dma, fatal, wval, wtmp, history>>

WriteSize32 ==
    /\ Enter
    /\ \E h \in Highs, l \in Lows : size' = h * W + l
    /\ wpc' = "dir"
    /\ job' = None
    /\ UNCHANGED <<csr, halt, resetTimer, mm, ar, dma, fatal, wval, wtmp, csrWritten>>

(* One half of AR_DMA_SIZE: dmaSize &= mask; dmaSize |= val. *)
WriteSize16 ==
    /\ Enter
    /\ \/ \E v \in Highs : wval' = [half |-> "H", val |-> v]
       \/ \E v \in Lows : wval' = [half |-> "L", val |-> v]
    /\ wpc' = "and"
    /\ job' = None
    /\ UNCHANGED <<regs, dma, fatal, wtmp, csrWritten>>

LoadSize ==
    /\ \/ wpc = "and" /\ wpc' = "andStore"
       \/ wpc = "or" /\ wpc' = "orStore"
    /\ wtmp' = size
    /\ UNCHANGED <<regs, dma, fatal, wval, history>>

AndStore ==
    /\ wpc = "andStore"
    /\ size' = IF wval.half = "H" THEN SetHigh(wtmp, 0) ELSE SetLow(wtmp, 0)
    /\ wpc' = "or"
    /\ wtmp' = 0
    /\ UNCHANGED <<csr, halt, resetTimer, mm, ar, dma, fatal, wval, history>>

(* Only the low half starts the transfer. *)
OrStore ==
    /\ wpc = "orStore"
    /\ size' = IF wval.half = "H" THEN SetHigh(wtmp, wval.val) ELSE SetLow(wtmp, wval.val)
    /\ wpc' = IF wval.half = "H" THEN "done" ELSE "dir"
    /\ wtmp' = 0
    /\ wval' = NoVal
    /\ UNCHANGED <<csr, halt, resetTimer, mm, ar, dma, fatal, history>>

(* E_MMIO_DSP_DMAStart, one assignment at a time. *)
DMAStartDir ==
    /\ wpc = "dir"
    /\ dir' = DirBit(size)
    /\ wpc' = "src"
    /\ UNCHANGED <<regs, src, dest, fatal, wval, wtmp, history>>

DMAStartSrc ==
    /\ wpc = "src"
    /\ src' = IF dir THEN ar ELSE mm
    /\ wpc' = "dest"
    /\ UNCHANGED <<regs, dir, dest, fatal, wval, wtmp, history>>

(* The history keeps what the guest asked for, if the DSP was halted. *)
DMAStartDest ==
    /\ wpc = "dest"
    /\ dest' = IF dir THEN mm ELSE ar
    /\ wpc' = "done"
    /\ job' = IF ~halt THEN None
              ELSE [from |-> IF DirBit(size) THEN ar ELSE mm,
                    to   |-> IF DirBit(size) THEN mm ELSE ar,
                    left |-> Left(size), dir |-> DirBit(size), set |-> TRUE]
    /\ UNCHANGED <<regs, dir, src, fatal, wval, wtmp, csrWritten>>

(* Mutant: a halted DSP never resumes. *)
CsrHaltSticks ==
    /\ wpc = "halt"
    /\ halt' = (halt \/ wval.val = 1)
    /\ wpc' = "done"
    /\ wval' = NoVal
    /\ UNCHANGED <<csr, resetTimer, mm, ar, size, dma, fatal, wtmp, history>>

(* CSR: the register, then the reset, then the halt. *)
WriteCsr ==
    /\ Enter
    /\ csr' \in CsrVals
    /\ wpc' = "reset"
    /\ wval' = [half |-> IF csr'.reset THEN "H" ELSE "L", val |-> IF csr'.halt THEN 1 ELSE 0]
    /\ csrWritten' = TRUE
    /\ UNCHANGED <<halt, resetTimer, mm, ar, size, dma, fatal, wtmp, job>>

CsrReset ==
    /\ wpc = "reset"
    /\ resetTimer' = IF wval.half = "H" THEN 2 ELSE resetTimer
    /\ wpc' = "halt"
    /\ UNCHANGED <<csr, halt, mm, ar, size, dma, fatal, wval, wtmp, history>>

CsrHalt ==
    /\ wpc = "halt"
    /\ halt' = (wval.val = 1)
    /\ wpc' = "done"
    /\ wval' = NoVal
    /\ UNCHANGED <<csr, resetTimer, mm, ar, size, dma, fatal, wtmp, history>>

(* Past the switch stands __builtin_unreachable; then the handler returns, *)
(* to the bail-out if the hook has reported a fatal error meanwhile.       *)
Done ==
    /\ wpc = "done"
    /\ wpc' = IF fatal THEN "bail" ELSE "guest"
    /\ UNCHANGED <<regs, dma, fatal, wval, wtmp, history>>

-----------------------------------------------------------------------------
(* Mutants: the halt is not looked at; the length is not; it stays as it   *)
(* is.                                                                     *)
MoveBlockHalted(stopped) ==
    IF Left(size) = 0
    THEN UNCHANGED <<size, src, dest, fatal>>
    ELSE IF Left(size) % Block # 0
    THEN fatal' = TRUE /\ UNCHANGED <<size, src, dest>>
    ELSE /\ size' = size - Block
         /\ src' = Advance(src, Block)
         /\ dest' = Advance(dest, Block)
         /\ UNCHANGED fatal

MoveBlockAlways(stopped) ==
    IF stopped
    THEN UNCHANGED <<size, src, dest, fatal>>
    ELSE /\ size' = size - Block
         /\ src' = Advance(src, Block)
         /\ dest' = Advance(dest, Block)
         /\ UNCHANGED fatal

MoveBlockNoCount(stopped) ==
    IF stopped \/ Left(size) = 0
    THEN UNCHANGED <<size, src, dest, fatal>>
    ELSE /\ src' = Advance(src, Block)
         /\ dest' = Advance(dest, Block)
         /\ UNCHANGED <<size, fatal>>

(* The part of the hook that comes after the reset. *)
MoveBlock(stopped) ==
    IF stopped \/ Left(size) = 0
    THEN UNCHANGED <<size, src, dest, fatal>>
    ELSE IF Left(size) % Block # 0
    THEN /\ fatal' = TRUE
         /\ UNCHANGED <<size, src, dest>>
    ELSE /\ size' = size - Block
         /\ src' = Advance(src, Block)
         /\ dest' = Advance(dest, Block)
         /\ UNCHANGED fatal

(* Mutants: the guest is not told; a reset without a program never leaves  *)
(* the first stage.                                                        *)
TickResetSilent ==
    /\ resetTimer = 1
    /\ resetTimer' = 0
    /\ MoveBlock(halt)
    /\ UNCHANGED <<csr, wpc>>

TickSeedReturns ==
    /\ resetTimer = 2
    /\ UNCHANGED csr
    /\ \/ csr.boot /\ resetTimer' = 1 /\ MoveBlock(halt) /\ UNCHANGED wpc
       \/ ~csr.boot /\ fatal' = TRUE /\ UNCHANGED <<resetTimer, size, src, dest, wpc>>

(* The last stage of a reset. *)
TickReset ==
    /\ resetTimer = 1
    /\ csr' = [csr EXCEPT !.reset = FALSE]
    /\ resetTimer' = 0
    /\ MoveBlock(halt)
    /\ UNCHANGED wpc

(* The first: with BOOTMODE clear the DSP's program is copied from memory. *)
(* There may be no address for it, or one that faults: the handler reports *)
(* that as fatal, or the process dies if the handler was what the signal   *)
(* interrupted.                                                            *)
TickSeed ==
    /\ resetTimer = 2
    /\ resetTimer' = 1
    /\ UNCHANGED csr
    /\ \/ csr.boot /\ MoveBlock(halt) /\ UNCHANGED wpc
       \/ /\ ~csr.boot
          /\ UNCHANGED <<size, src, dest>>
          /\ \/ UNCHANGED <<fatal, wpc>>
             \/ fatal' = TRUE /\ UNCHANGED wpc
             \/ /\ fatal' = TRUE
                /\ wpc' = IF wpc = "guest" /\ ~fatal THEN "bail" ELSE "exit"

TickRun ==
    /\ resetTimer = 0
    /\ MoveBlock(halt)
    /\ UNCHANGED <<csr, resetTimer, wpc>>

(* E_MMIO_DSP_TimerHook. *)
Tick ==
    /\ wpc \notin Stopped
    /\ TickReset \/ TickSeed \/ TickRun
    /\ UNCHANGED <<halt, mm, ar, dir, wval, wtmp, history>>

Guest == WriteAddr \/ WriteStored \/ WriteSize32 \/ WriteSize16 \/ WriteCsr \/ WriteUnknown
         \/ FatalSeen

Handler == LoadSize \/ AndStore \/ OrStore \/ DMAStartDir \/ DMAStartSrc \/ DMAStartDest
           \/ CsrReset \/ CsrHalt \/ Done

Next == Guest \/ Handler \/ Tick

(* The handler is straight code; the interval timer goes off as long as    *)
(* the process lives.  The guest owes nobody a store.                      *)
Spec     == Init /\ [][Next]_vars
FairSpec == Spec /\ WF_vars(Handler) /\ WF_vars(Tick)

-----------------------------------------------------------------------------
(* A reset the guest can see has a timer that will end it, or the write    *)
(* that asked for it is still under way: no hook in between loses it.      *)
ResetArmed == csr.reset => resetTimer > 0 \/ wpc = "reset" \/ wpc \in Stopped

(* The guest that polls CSR sees the halt the hook obeys, once it has      *)
(* written CSR (at first CSR says halted and the hook runs).               *)
HaltShown == (csrWritten /\ wpc \in {"guest", "done"}) => (halt <=> csr.halt)

(* A transfer that was programmed while the DSP was halted moves what the  *)
(* guest asked for from where to where it asked, whatever the guest does   *)
(* to the other registers meanwhile: source, destination and length stay   *)
(* in step and the direction stays.                                        *)
ExactTransfer ==
    job.set =>
        /\ Left(size) <= job.left
        /\ src = Advance(job.from, job.left - Left(size))
        /\ dest = Advance(job.to, job.left - Left(size))
        /\ dir = job.dir /\ DirBit(size) = job.dir

(* What keeps these so: what the handler has in hand at each of its steps. *)
(* No transfer is remembered while the next is written, and between the    *)
(* assignments of E_MMIO_DSP_DMAStart the hook of a halted DSP does        *)
(* nothing.                                                                *)
DspInv ==
    /\ TypeOK
    /\ ResetArmed /\ (wpc = "reset" /\ csr.reset => wval.half = "H")
    /\ csrWritten /\ wpc \notin {"reset", "halt"} \cup Stopped => (halt <=> csr.halt)
    /\ wpc \in {"reset", "halt"} => (csr.halt <=> wval.val = 1)
    /\ wpc \in SizeSteps => ~job.set
    /\ wpc \in {"src", "dest"} /\ halt => dir = DirBit(size)
    /\ wpc = "dest" /\ halt => src = IF dir THEN ar ELSE mm
    /\ ExactTransfer

(* A guest that polls for the end of a reset sees it, unless it writes CSR *)
(* again.                                                                  *)
ResetCompletes == csr.reset ~> (~csr.reset \/ wpc = "reset" \/ wpc \in Stopped)

(* A transfer of a running DSP ends, unless the guest programs another or  *)
(* writes CSR; an unaligned one is reported.                               *)
TransferCompletes ==
    (wpc = "guest" /\ ~halt /\ Left(size) # 0)
        ~> \/ Left(size) = 0
           \/ fatal /\ Left(size) % Block # 0
           \/ wpc \in SizeSteps \cup {"halt"} \cup Stopped

(* The guest's side of a transfer that was programmed while the DSP was    *)
(* halted: what the hook still has before it.                              *)
Transfer == IF job.set THEN [from |-> src, to |-> dest, left |-> Left(size), dir |-> dir]
            ELSE [from |-> 0, to |-> 0, left |-> 0, dir |-> FALSE]

A == INSTANCE AramDma WITH halted <- halt, known <- job.set, t <- Transfer

(* dsp.c keeps the promise of AramDma: such a transfer moves one block     *)
(* after the other while the DSP runs, in the direction and between the    *)
(* addresses the registers had, and nothing else touches it until the      *)
(* guest writes its length again, wherever the hook comes in the handler   *)
(* (dsp.c:22, dsp.c:280).                                                  *)
ImplementsAramDma == A!Spec
=============================================================================
