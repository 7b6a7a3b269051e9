------------------------------ MODULE DspProofs -----------------------------
(***************************************************************************)
(* Proofs about Dsp, for registers of any even width and blocks of any     *)
(* length that divides it: the types, and that the timer's hook between    *)
(* any two accesses of the guest's writes loses no reset, no halt and no   *)
(* byte of a transfer that was programmed while the DSP was halted.        *)
(***************************************************************************)
EXTENDS Dsp, TLAPS

-----------------------------------------------------------------------------
(* Words, their halves and the two parts of dmaSize. *)
LEMMA Sizes ==
    /\ W \in Nat /\ W >= 2 /\ Block \in Nat /\ Block >= 1
    /\ W * W \in Nat /\ TopBit \in Nat /\ W * W = 2 * TopBit /\ TopBit >= 1
    /\ 0 \in Word /\ 0 \in Half /\ 1 \in Half
<1>1. W \in Nat /\ W >= 2 /\ Block \in Nat /\ Block >= 1
  BY SizesAssumption
<1>2. PICK k \in Nat : W = 2 * k
  BY <1>1, SizesAssumption, W = 2 * (W \div 2) /\ W \div 2 \in Nat
<1>3. W * W = 2 * (k * W) /\ k * W \in Nat
  BY <1>1, <1>2
<1>4. W * W \in Nat /\ W * W >= 2 /\ TopBit = k * W
  <2>1. k * W >= 1
    BY <1>1, <1>2, k >= 1
  <2>2. \A n \in Nat : (2 * n) \div 2 = n
    OBVIOUS
  <2> QED
    BY <1>3, <2>1, <2>2 DEF TopBit
<1> QED
  BY <1>1, <1>3, <1>4 DEF Word, Half

LEMMA PairFits ==
    ASSUME NEW h \in Half, NEW l \in Half
    PROVE  h * W + l \in Word
<1>1. h \in Nat /\ l \in Nat /\ h <= W - 1 /\ l <= W - 1
  BY Sizes DEF Half
<1>2. h * W <= (W - 1) * W
  BY <1>1, Sizes
<1>3. (W - 1) * W = W * W - W
  BY Sizes
<1>4. h * W \in Nat
  BY <1>1, Sizes
<1> QED
  BY <1>1, <1>2, <1>3, <1>4, Sizes DEF Word

LEMMA Halves ==
    ASSUME NEW x \in Word
    PROVE  High(x) \in Half /\ Low(x) \in Half
<1>1. x \in Nat /\ x < W * W
  BY Sizes DEF Word
<1>2. x % W \in Half
  BY <1>1, Sizes DEF Half
<1>3. x \div W \in Nat /\ (x \div W) * W <= x
  BY <1>1, Sizes
<1>4. x \div W < W
  <2> SUFFICES ASSUME x \div W >= W PROVE FALSE
    BY <1>3, Sizes
  <2>1. (x \div W) * W >= W * W
    BY <1>3, Sizes
  <2> QED
    BY <1>1, <1>3, <2>1, Sizes
<1> QED
  BY <1>2, <1>3, <1>4, Sizes DEF High, Low, Half

LEMMA SetFits ==
    ASSUME NEW x \in Word, NEW v \in Half
    PROVE  SetHigh(x, v) \in Word /\ SetLow(x, v) \in Word
BY Halves, PairFits DEF SetHigh, SetLow

LEMMA LeftIs ==
    ASSUME NEW x \in Word
    PROVE  /\ Left(x) = IF x >= TopBit THEN x - TopBit ELSE x
           /\ Left(x) \in Nat /\ Left(x) \in Word
<1>1. x \in Nat /\ x < 2 * TopBit /\ TopBit \in Nat /\ TopBit >= 1
  BY Sizes DEF Word
<1>2. CASE x < TopBit
  BY <1>1, <1>2, x % TopBit = x DEF Left, Word
<1>3. CASE x >= TopBit
  <2>1. x - TopBit \in 0 .. TopBit - 1 /\ x = 1 * TopBit + (x - TopBit)
    BY <1>1, <1>3
  <2>2. x % TopBit = x - TopBit
    BY <1>1, <2>1
  <2> QED
    BY <1>1, <1>3, <2>2, Sizes DEF Left, Word
<1> QED
  BY <1>1, <1>2, <1>3

(* A block off a length that has one: the direction is left alone. *)
LEMMA BlockOff ==
    ASSUME NEW x \in Word, Left(x) # 0, Left(x) % Block = 0
    PROVE  /\ x - Block \in Word /\ Left(x - Block) = Left(x) - Block
           /\ DirBit(x - Block) = DirBit(x) /\ Left(x) >= Block
<1>1. Left(x) \in Nat /\ Left(x) = IF x >= TopBit THEN x - TopBit ELSE x
  BY LeftIs
<1>2. Left(x) >= Block
  <2> SUFFICES ASSUME Left(x) < Block PROVE FALSE
    BY <1>1, Sizes
  <2>1. Left(x) % Block = Left(x)
    BY <1>1, Sizes
  <2> QED
    BY <2>1
<1>3. x \in Nat /\ x < W * W /\ TopBit \in Nat /\ Block \in Nat /\ Block >= 1 /\ W * W \in Nat
  BY Sizes DEF Word
<1>4. x - Block \in Word
  BY <1>1, <1>2, <1>3 DEF Word
<1>5. (x - Block >= TopBit) = (x >= TopBit)
  BY <1>1, <1>2, <1>3
<1>6. Left(x - Block) = Left(x) - Block
  BY <1>1, <1>3, <1>4, <1>5, LeftIs
<1> QED
  BY <1>2, <1>4, <1>5, <1>6 DEF DirBit

(* Pointers advance in steps as they would at once, modulo 2^32. *)
LEMMA AdvanceFits ==
    ASSUME NEW x \in Nat, NEW n \in Nat
    PROVE  Advance(x, n) \in Word
BY Sizes DEF Advance, Word

LEMMA ModOf ==
    ASSUME NEW M \in Nat, M >= 1, NEW q \in Nat, NEW e \in 0 .. M - 1, NEW y \in Nat, y = M * q + e
    PROVE  y % M = e
<1>1. y = M * (y \div M) + (y % M) /\ y \div M \in Nat /\ y % M \in 0 .. M - 1
  OBVIOUS
<1> DEFINE d == y \div M
           f == y % M
<1>2. d \in Nat /\ f \in 0 .. M - 1 /\ M * d + f = M * q + e
  BY <1>1
<1> HIDE DEF d, f
<1>3. ~(d >= q + 1)
  <2> SUFFICES ASSUME d >= q + 1 PROVE FALSE
    OBVIOUS
  <2>1. M * d >= M * (q + 1)
    BY <1>2
  <2>2. M * (q + 1) = M * q + M
    OBVIOUS
  <2> QED
    BY <1>2, <2>1, <2>2
<1>4. ~(q >= d + 1)
  <2> SUFFICES ASSUME q >= d + 1 PROVE FALSE
    OBVIOUS
  <2>1. M * q >= M * (d + 1)
    BY <1>2
  <2>2. M * (d + 1) = M * d + M
    BY <1>2
  <2> QED
    BY <1>2, <2>1, <2>2
<1>5. d = q
  BY <1>2, <1>3, <1>4
<1>6. M * d = M * q
  BY <1>5
<1>7. f = e
  BY <1>2, <1>6
<1> QED
  BY <1>7 DEF f

LEMMA ModAdd ==
    ASSUME NEW M \in Nat, M >= 1, NEW y \in Nat, NEW n \in Nat
    PROVE  ((y % M) + n) % M = (y + n) % M
<1>1. y = M * (y \div M) + (y % M) /\ y \div M \in Nat /\ y % M \in Nat
  OBVIOUS
<1> DEFINE r == (y % M) + n
<1>2. r \in Nat /\ r = M * (r \div M) + (r % M) /\ r \div M \in Nat /\ r % M \in 0 .. M - 1
  BY <1>1
<1> HIDE DEF r
<1>3. y + n = M * (y \div M) + r
  BY <1>1 DEF r
<1>4. y + n = M * ((y \div M) + (r \div M)) + (r % M)
  BY <1>1, <1>2, <1>3
<1> DEFINE q == (y \div M) + (r \div M)
<1>5. q \in Nat /\ y + n = M * q + (r % M)
  BY <1>1, <1>2, <1>4
<1> HIDE DEF q
<1>6. (y + n) % M = r % M
  <2> DEFINE z == y + n
             e == r % M
  <2>1. z \in Nat /\ e \in 0 .. M - 1 /\ q \in Nat /\ z = M * q + e
    BY <1>2, <1>5
  <2> HIDE DEF z, e
  <2>2. z % M = e
    BY <2>1, ModOf
  <2> QED
    BY <2>2 DEF z, e
<1> QED
  BY <1>6 DEF r

LEMMA Advances ==
    ASSUME NEW x \in Word, NEW m \in Nat, NEW n \in Nat
    PROVE  /\ Advance(Advance(x, m), n) = Advance(x, m + n)
           /\ Advance(x, 0) = x
<1>1. x \in Nat /\ x < W * W /\ W * W \in Nat /\ W * W >= 1
  BY Sizes DEF Word
<1>2. (((x + m) % (W * W)) + n) % (W * W) = ((x + m) + n) % (W * W)
  BY <1>1, ModAdd
<1>3. (x + 0) % (W * W) = x
  BY <1>1
<1> QED
  BY <1>1, <1>2, <1>3 DEF Advance

-----------------------------------------------------------------------------
(* The steps. *)
LEMMA Types ==
    ASSUME TypeOK
    PROVE  /\ mm \in Word /\ ar \in Word /\ size \in Word /\ src \in Word /\ dest \in Word /\ wtmp \in Word
           /\ wval.half \in {"H", "L"} /\ wval.val \in Half
           /\ job.from \in Word /\ job.to \in Word /\ job.left \in Word /\ job.left \in Nat
           /\ csr.halt \in BOOLEAN /\ csr.reset \in BOOLEAN /\ csr.boot \in BOOLEAN
BY DEF TypeOK, Csr, Word

LEMMA Given ==
    /\ \A v \in MMAddrs \cup ARAddrs : v \in Word
    /\ \A v \in Highs \cup Lows : v \in Half
    /\ None \in [from : Word, to : Word, left : Word, dir : BOOLEAN, set : BOOLEAN] /\ ~None.set
    /\ NoVal \in [half : {"H", "L"}, val : Half] /\ NoVal.val = 0
BY WritesAssumption, Sizes DEF None, NoVal

LEMMA InitInv == Init => DspInv
<1> SUFFICES ASSUME Init PROVE DspInv
  OBVIOUS
<1>1. TypeOK
  <2>1. csr \in Csr /\ wpc \in PC
    BY DEF Init, Csr, PC
  <2>2. job \in [from : Word, to : Word, left : Word, dir : BOOLEAN, set : BOOLEAN]
        /\ wval \in [half : {"H", "L"}, val : Half]
    BY Given DEF Init
  <2>3. /\ {mm, ar, size, src, dest, wtmp} \subseteq Word /\ resetTimer \in 0 .. 2
        /\ halt \in BOOLEAN /\ dir \in BOOLEAN /\ fatal \in BOOLEAN /\ csrWritten \in BOOLEAN
    <3>1. /\ mm = 0 /\ ar = 0 /\ size = 0 /\ src = 0 /\ dest = 0 /\ wtmp = 0 /\ resetTimer = 0
          /\ halt = FALSE /\ dir = FALSE /\ fatal = FALSE /\ csrWritten = FALSE
      BY DEF Init
    <3>2. 0 \in Word
      BY Sizes
    <3>3. {mm, ar, size, src, dest, wtmp} \subseteq Word /\ resetTimer \in 0 .. 2
      BY ONLY <3>1, <3>2
    <3>4. halt \in BOOLEAN /\ dir \in BOOLEAN /\ fatal \in BOOLEAN /\ csrWritten \in BOOLEAN
      BY ONLY <3>1
    <3> QED
      BY <3>3, <3>4
  <2> QED
    BY <2>1, <2>2, <2>3 DEF TypeOK
<1> QED
  BY <1>1, Given DEF Init, DspInv, ResetArmed, ExactTransfer, SizeSteps, Stopped

(* A block of a transfer, or none. *)
LEMMA BlockMoved ==
    ASSUME DspInv, MoveBlock(halt)
    PROVE  /\ size' \in Word /\ src' \in Word /\ dest' \in Word /\ fatal' \in BOOLEAN
           /\ halt => UNCHANGED <<size, src, dest>>
           /\ DirBit(size') = DirBit(size)
           /\ job.set => /\ Left(size') <= job.left
                         /\ src' = Advance(job.from, job.left - Left(size'))
                         /\ dest' = Advance(job.to, job.left - Left(size'))
<1>1. /\ size \in Word /\ src \in Word /\ dest \in Word
      /\ job.from \in Word /\ job.to \in Word /\ job.left \in Nat
  BY Types DEF DspInv
<1>2. fatal \in BOOLEAN /\ halt \in BOOLEAN
  BY DEF DspInv, TypeOK
<1>3. CASE halt \/ Left(size) = 0 \/ Left(size) % Block # 0
  <2>1. UNCHANGED <<size, src, dest>> /\ fatal' \in BOOLEAN
    BY <1>2, <1>3 DEF MoveBlock
  <2> QED
    BY <1>1, <2>1 DEF DspInv, ExactTransfer
<1>4. CASE ~halt /\ Left(size) # 0 /\ Left(size) % Block = 0
  <2>1. /\ size' = size - Block /\ src' = Advance(src, Block)
        /\ dest' = Advance(dest, Block) /\ UNCHANGED fatal
    BY <1>4 DEF MoveBlock
  <2>2. /\ size' \in Word /\ Left(size') = Left(size) - Block
        /\ DirBit(size') = DirBit(size) /\ Left(size) >= Block
    BY <1>1, <1>4, <2>1, BlockOff
  <2>3. src' \in Word /\ dest' \in Word
    BY <1>1, <2>1, AdvanceFits, Sizes DEF Word
  <2>4. ASSUME job.set
        PROVE  /\ Left(size') <= job.left
               /\ src' = Advance(job.from, job.left - Left(size'))
               /\ dest' = Advance(job.to, job.left - Left(size'))
    <3> DEFINE m == job.left - Left(size)
    <3>1. Left(size) <= job.left /\ src = Advance(job.from, m) /\ dest = Advance(job.to, m)
      BY <2>4 DEF DspInv, ExactTransfer
    <3>2. Left(size) \in Nat
      BY <1>1, LeftIs
    <3>3. m \in Nat /\ Left(size') <= job.left /\ m + Block = job.left - Left(size')
      BY <1>1, <2>2, <3>1, <3>2, Sizes
    <3> HIDE DEF m
    <3>4. /\ Advance(Advance(job.from, m), Block) = Advance(job.from, m + Block)
          /\ Advance(Advance(job.to, m), Block) = Advance(job.to, m + Block)
      <4>1. Block \in Nat /\ m \in Nat /\ job.from \in Word /\ job.to \in Word
        BY <1>1, <3>3, Sizes
      <4> QED
        BY ONLY <4>1, Advances
    <3> QED
      BY <2>1, <3>1, <3>3, <3>4
  <2> QED
    BY <1>2, <1>4, <2>1, <2>2, <2>3, <2>4
<1> QED
  BY <1>2, <1>3, <1>4

(* The hook keeps the invariant, whatever step the handler is at. *)
LEMMA TickKeeps ==
    ASSUME DspInv, Tick
    PROVE  DspInv'
<1>1. /\ TypeOK /\ wpc \notin Stopped
      /\ UNCHANGED <<halt, mm, ar, dir, wval, wtmp, job, csrWritten>>
  BY DEF DspInv, Tick, history
<1>2. PICK cleared \in BOOLEAN :
          csr' = IF cleared THEN [csr EXCEPT !.reset = FALSE] ELSE csr
  BY DEF Tick, TickReset, TickSeed, TickRun
<1>3. /\ csr' \in Csr /\ csr'.halt = csr.halt /\ (csr'.reset => csr.reset)
  BY <1>1, <1>2 DEF TypeOK, Csr
<1>4. wpc' = wpc \/ wpc' \in Stopped
  BY DEF Tick, TickReset, TickSeed, TickRun, Stopped
<1>5. resetTimer' \in 0 .. 2 /\ (csr'.reset => resetTimer' > 0 \/ wpc = "reset" \/ wpc' \in Stopped)
  <2>1. CASE TickReset
    BY <1>1, <2>1 DEF TickReset, TypeOK, Csr
  <2>2. CASE TickSeed
    BY <2>2 DEF TickSeed
  <2>3. CASE TickRun
    BY <1>1, <2>3 DEF TickRun, DspInv, ResetArmed
  <2> QED
    BY <2>1, <2>2, <2>3 DEF Tick
<1>6. /\ size' \in Word /\ src' \in Word /\ dest' \in Word /\ fatal' \in BOOLEAN
      /\ halt => UNCHANGED <<size, src, dest>>
      /\ DirBit(size') = DirBit(size)
      /\ job.set => /\ Left(size') <= job.left
                    /\ src' = Advance(job.from, job.left - Left(size'))
                    /\ dest' = Advance(job.to, job.left - Left(size'))
  <2>1. CASE MoveBlock(halt)
    BY <2>1, BlockMoved
  <2>2. CASE UNCHANGED <<size, src, dest>> /\ (UNCHANGED fatal \/ fatal' = TRUE)
    <3>1. size \in Word /\ src \in Word /\ dest \in Word /\ fatal \in BOOLEAN
      BY <1>1, Types DEF TypeOK
    <3> QED
      BY <2>2, <3>1 DEF DspInv, ExactTransfer
  <2> QED
    BY <2>1, <2>2 DEF Tick, TickReset, TickSeed, TickRun
<1>7. TypeOK'
  <2>1. wpc' \in PC
    BY <1>1, <1>4 DEF TypeOK, PC
  <2> QED
    BY <1>1, <1>3, <1>5, <1>6, <2>1 DEF TypeOK
<1>8. ResetArmed' /\ (wpc' = "reset" /\ csr'.reset => wval'.half = "H")
  BY <1>1, <1>3, <1>4, <1>5 DEF DspInv, ResetArmed, Stopped
<1>9. /\ csrWritten' /\ wpc' \notin {"reset", "halt"} \cup Stopped => (halt' <=> csr'.halt)
      /\ wpc' \in {"reset", "halt"} => (csr'.halt <=> wval'.val = 1)
      /\ wpc' \in SizeSteps => ~job'.set
  BY <1>1, <1>3, <1>4 DEF DspInv, Stopped, SizeSteps
<1>10. /\ wpc' \in {"src", "dest"} /\ halt' => dir' = DirBit(size')
       /\ wpc' = "dest" /\ halt' => src' = IF dir' THEN ar' ELSE mm'
  BY <1>1, <1>4, <1>6 DEF DspInv, Stopped
<1>11. ExactTransfer'
  BY <1>1, <1>6 DEF DspInv, ExactTransfer
<1> QED
  BY <1>7, <1>8, <1>9, <1>10, <1>11 DEF DspInv

(* The guest's stores. *)
LEMMA GuestKeeps ==
    ASSUME DspInv, Guest
    PROVE  DspInv'
<1> USE DEF vars, regs, dma, writer, history
<1>1. TypeOK /\ wpc = "guest"
  BY DEF DspInv, Guest, WriteAddr, WriteStored, WriteSize32, WriteSize16, WriteCsr, WriteUnknown,
         FatalSeen, Enter
<1>2. wpc \notin {"reset", "halt"} \cup Stopped \cup SizeSteps
  BY <1>1 DEF Stopped, SizeSteps
<1>3. CASE FatalSeen \/ WriteUnknown
  <2>1. wpc' \in Stopped /\ fatal' \in BOOLEAN
        /\ UNCHANGED <<regs, dma, wval, wtmp, history>>
    BY <1>1, <1>3 DEF FatalSeen, WriteUnknown, Stopped, TypeOK
  <2>2. wpc' \in PC /\ wpc' \notin SizeSteps \cup {"reset", "halt"}
    BY <2>1 DEF PC, Stopped, SizeSteps
  <2>3. TypeOK'
    BY <1>1, <2>1, <2>2 DEF TypeOK
  <2> QED
    BY <2>1, <2>2, <2>3 DEF DspInv, ResetArmed, ExactTransfer, SizeSteps
<1>4. CASE WriteStored
  <2>1. TypeOK'
    BY <1>1, <1>4 DEF WriteStored, TypeOK, PC
  <2> QED
    BY <1>2, <1>4, <2>1 DEF WriteStored, DspInv, ResetArmed, ExactTransfer, SizeSteps, Stopped
<1>5. CASE WriteAddr
  <2>1. /\ wpc' = "done"
        /\ UNCHANGED <<csr, halt, resetTimer, size, dma, fatal, wval, wtmp, history>>
    BY <1>5 DEF WriteAddr
  <2>2. mm \in Word /\ ar \in Word
    BY <1>1, Types
  <2>3. mm' \in Word /\ ar' \in Word
    BY <1>5, <2>2, Given, Halves, SetFits DEF WriteAddr
  <2>4. TypeOK'
    BY <1>1, <2>1, <2>3 DEF TypeOK, PC
  <2> QED
    BY <1>2, <2>1, <2>4 DEF DspInv, ResetArmed, ExactTransfer, SizeSteps, Stopped
<1>6. CASE WriteSize32
  <2>1. /\ wpc' = "dir" /\ job' = None
        /\ UNCHANGED <<csr, halt, resetTimer, mm, ar, dma, fatal, wval, wtmp, csrWritten>>
    BY <1>6 DEF WriteSize32
  <2>2. size' \in Word
    BY <1>6, Given, PairFits DEF WriteSize32
  <2>3. wpc' \in PC /\ ~job'.set
        /\ job' \in [from : Word, to : Word, left : Word, dir : BOOLEAN, set : BOOLEAN]
    BY <2>1, Given DEF PC, SizeSteps
  <2> HIDE DEF vars, regs, writer, history
  <2>4. TypeOK'
    BY <1>1, <2>1, <2>2, <2>3 DEF TypeOK
  <2> QED
    BY <1>2, <2>1, <2>3, <2>4 DEF DspInv, ResetArmed, ExactTransfer, SizeSteps, Stopped
<1>7. CASE WriteSize16
  <2>1. /\ wpc' = "and" /\ job' = None
        /\ UNCHANGED <<regs, dma, fatal, wtmp, csrWritten>>
    BY <1>7 DEF WriteSize16
  <2>2. wval' \in [half : {"H", "L"}, val : Half]
    BY <1>7, Given DEF WriteSize16
  <2>3. wpc' \in PC /\ ~job'.set
        /\ job' \in [from : Word, to : Word, left : Word, dir : BOOLEAN, set : BOOLEAN]
    BY <2>1, Given DEF PC, SizeSteps
  <2>4. TypeOK'
    BY <1>1, <2>1, <2>2, <2>3 DEF TypeOK
  <2> QED
    BY <1>2, <2>1, <2>3, <2>4 DEF DspInv, ResetArmed, ExactTransfer, SizeSteps, Stopped
<1>8. CASE WriteCsr
  <2>1. /\ wpc' = "reset" /\ csrWritten' = TRUE /\ csr' \in Csr
        /\ wval' = [half |-> IF csr'.reset THEN "H" ELSE "L", val |-> IF csr'.halt THEN 1 ELSE 0]
        /\ UNCHANGED <<halt, resetTimer, mm, ar, size, dma, fatal, wtmp, job>>
    BY <1>8, WritesAssumption DEF WriteCsr
  <2>2. /\ wval' \in [half : {"H", "L"}, val : Half]
        /\ (csr'.reset => wval'.half = "H") /\ (csr'.halt <=> wval'.val = 1)
    BY <2>1, Sizes
  <2>3. TypeOK'
    BY <1>1, <2>1, <2>2 DEF TypeOK, PC
  <2> QED
    BY <1>2, <2>1, <2>2, <2>3 DEF DspInv, ResetArmed, ExactTransfer, SizeSteps, Stopped
<1> QED
  BY <1>3, <1>4, <1>5, <1>6, <1>7, <1>8 DEF Guest

(* The handler's accesses. *)
LEMMA HandlerKeeps ==
    ASSUME DspInv, Handler
    PROVE  DspInv'
<1> USE DEF vars, regs, dma, writer, history
<1>1. TypeOK /\ size \in Word /\ mm \in Word /\ ar \in Word /\ wtmp \in Word
      /\ wval.half \in {"H", "L"} /\ wval.val \in Half
  BY Types DEF DspInv
<1>2. CASE LoadSize
  <2>1. TypeOK'
    BY <1>1, <1>2 DEF LoadSize, TypeOK, PC, SizeSteps
  <2> QED
    BY <1>2, <2>1 DEF LoadSize, DspInv, ResetArmed, ExactTransfer, SizeSteps, Stopped
<1>3. CASE AndStore
  <2>1. size' \in Word
    BY <1>1, <1>3, SetFits, Sizes DEF AndStore
  <2>2. TypeOK'
    BY <1>1, <1>3, <2>1, Sizes DEF AndStore, TypeOK, PC, SizeSteps
  <2> QED
    BY <1>3, <2>2 DEF AndStore, DspInv, ResetArmed, ExactTransfer, SizeSteps, Stopped
<1>4. CASE OrStore
  <2>1. size' \in Word /\ wval' \in [half : {"H", "L"}, val : Half] /\ wpc' \in {"done", "dir"}
    BY <1>1, <1>4, SetFits, Given DEF OrStore
  <2>2. TypeOK'
    BY <1>1, <1>4, <2>1, Sizes DEF OrStore, TypeOK, PC, SizeSteps
  <2>3. ~job'.set
    BY <1>4 DEF OrStore, DspInv, SizeSteps
  <2> QED
    BY <1>4, <2>1, <2>2, <2>3 DEF OrStore, DspInv, ResetArmed, ExactTransfer, SizeSteps, Stopped
<1>5. CASE DMAStartDir
  <2>1. DirBit(size) \in BOOLEAN
    BY DEF DirBit
  <2>2. TypeOK'
    BY <1>1, <1>5, <2>1 DEF DMAStartDir, TypeOK, PC, SizeSteps
  <2> QED
    BY <1>5, <2>2 DEF DMAStartDir, DspInv, ResetArmed, ExactTransfer, SizeSteps, Stopped
<1>6. CASE DMAStartSrc
  <2>1. TypeOK'
    BY <1>1, <1>6 DEF DMAStartSrc, TypeOK, PC, SizeSteps
  <2> QED
    BY <1>6, <2>1 DEF DMAStartSrc, DspInv, ResetArmed, ExactTransfer, SizeSteps, Stopped
<1>7. CASE DMAStartDest
  <2> DEFINE whole == [from |-> IF DirBit(size) THEN ar ELSE mm,
                       to   |-> IF DirBit(size) THEN mm ELSE ar,
                       left |-> Left(size), dir |-> DirBit(size), set |-> TRUE]
  <2>1. /\ wpc = "dest" /\ wpc' = "done" /\ dest' = IF dir THEN mm ELSE ar
        /\ job' = IF ~halt THEN None ELSE whole
        /\ UNCHANGED <<regs, dir, src, fatal, wval, wtmp, csrWritten>>
    BY <1>7 DEF DMAStartDest
  <2>2. DirBit(size) \in BOOLEAN /\ Left(size) \in Word /\ Left(size) \in Nat
    BY <1>1, LeftIs DEF DirBit
  <2>3. job' \in [from : Word, to : Word, left : Word, dir : BOOLEAN, set : BOOLEAN]
    BY <1>1, <2>1, <2>2, Given
  <2>4. dest' \in Word
    BY <1>1, <2>1
  <2>5. TypeOK'
    BY <1>1, <2>1, <2>3, <2>4 DEF TypeOK, PC
  <2>6. ExactTransfer'
    <3>1. CASE ~halt
      BY <2>1, <3>1, Given DEF ExactTransfer
    <3>2. CASE halt
      <4>1. dir = DirBit(size) /\ src = IF dir THEN ar ELSE mm
        BY <2>1, <3>2 DEF DspInv
      <4>2. /\ job'.from = src /\ job'.to = dest' /\ job'.left = Left(size) /\ job'.dir = dir
            /\ src \in Word
        BY <1>1, <2>1, <3>2, <4>1
      <4>3. job'.left - Left(size) = 0
        BY <2>2, <4>2
      <4>4. Advance(src, 0) = src /\ Advance(dest', 0) = dest'
        BY <2>4, <4>2, Advances
      <4> QED
        BY <2>1, <2>2, <4>1, <4>2, <4>3, <4>4 DEF ExactTransfer
    <3> QED
      BY <3>1, <3>2
  <2> QED
    BY <2>1, <2>5, <2>6 DEF DspInv, ResetArmed, SizeSteps, Stopped
<1>8. CASE CsrReset
  <2>1. TypeOK' /\ (csr'.reset => resetTimer' > 0)
    BY <1>1, <1>8 DEF CsrReset, TypeOK, PC, DspInv
  <2> QED
    BY <1>8, <2>1 DEF CsrReset, DspInv, ResetArmed, ExactTransfer, SizeSteps, Stopped
<1>9. CASE CsrHalt
  <2>1. TypeOK'
    BY <1>1, <1>9, Given DEF CsrHalt, TypeOK, PC
  <2> QED
    BY <1>9, <2>1 DEF CsrHalt, DspInv, ResetArmed, ExactTransfer, SizeSteps, Stopped
<1>10. CASE Done
  <2>1. TypeOK' /\ wpc' \in {"guest", "bail"}
    BY <1>1, <1>10 DEF Done, TypeOK, PC, Stopped
  <2> QED
    BY <1>10, <2>1 DEF Done, DspInv, ResetArmed, ExactTransfer, SizeSteps, Stopped
<1> QED
  BY <1>2, <1>3, <1>4, <1>5, <1>6, <1>7, <1>8, <1>9, <1>10 DEF Handler

LEMMA NextKeeps == DspInv /\ [Next]_vars => DspInv'
<1> SUFFICES ASSUME DspInv, [Next]_vars PROVE DspInv'
  OBVIOUS
<1>1. CASE Next
  BY <1>1, GuestKeeps, HandlerKeeps, TickKeeps DEF Next
<1>2. CASE UNCHANGED vars
  BY <1>2 DEF vars, regs, dma, writer, history, DspInv, TypeOK, ResetArmed, ExactTransfer
<1> QED
  BY <1>1, <1>2

LEMMA Invariant == Spec => []DspInv
BY InitInv, NextKeeps, PTL DEF Spec

-----------------------------------------------------------------------------
(* Registers keep to 32 bits and the reset timer to its stages, with the   *)
(* hook between the two halves of a read-modify-write (dsp.c:273, :94).    *)
THEOREM TypeCorrect == Spec => []TypeOK
<1>1. DspInv => TypeOK
  BY DEF DspInv
<1> QED
  BY <1>1, Invariant, PTL

(* No hook loses a reset the guest has asked for: the bit it polls is only *)
(* set while a timer will clear it (dsp.c:231).                            *)
THEOREM ResetArmedHolds == Spec => []ResetArmed
<1>1. DspInv => ResetArmed
  BY DEF DspInv
<1> QED
  BY <1>1, Invariant, PTL

(* Once the guest has written CSR, the halt it reads there is the halt the *)
(* hook obeys (dsp.c:107, dsp.c:237).                                      *)
THEOREM HaltShownHolds == Spec => []HaltShown
<1>1. DspInv => HaltShown
  BY DEF DspInv, HaltShown, Stopped
<1> QED
  BY <1>1, Invariant, PTL

(* A transfer programmed while the DSP was halted moves what was asked     *)
(* for, for every length, address and register width (dsp.c:280, :22).     *)
THEOREM ExactTransferHolds == Spec => []ExactTransfer
<1>1. DspInv => ExactTransfer
  BY DEF DspInv
<1> QED
  BY <1>1, Invariant, PTL

-----------------------------------------------------------------------------
(* Dsp implements AramDma.                                                 *)
LEMMA LeftFits ==
    ASSUME NEW x \in Word
    PROVE  Left(x) \in 0 .. (W * W) \div 2 - 1
<1>1. x \in Nat /\ TopBit \in Nat /\ TopBit >= 1
  BY Sizes DEF Word
<1>2. x % TopBit \in 0 .. TopBit - 1
  BY <1>1
<1> QED
  BY <1>2 DEF Left, TopBit

LEMMA InitRefines == Init => A!Init
BY DEF Init, None, Transfer, A!Init, A!Nothing

(* The abstract steps, from what they say of the detailed state. *)
LEMMA SameTransfer ==
    ASSUME UNCHANGED <<job, src, dest, size, dir>>
    PROVE  Transfer' = Transfer /\ job'.set = job.set
BY DEF Transfer

LEMMA ForgetStep ==
    ASSUME job' = None, UNCHANGED <<halt, mm, ar>>
    PROVE  A!Forget
BY Given DEF A!Forget, A!Nothing, Transfer

(* A block of the transfer, or nothing, or not of a transfer that is known. *)
LEMMA MoveRefines ==
    ASSUME DspInv, MoveBlock(halt), UNCHANGED <<halt, mm, ar, dir, job>>
    PROVE  A!Move \/ UNCHANGED A!vars
<1>1. size \in Word /\ halt \in BOOLEAN
  BY Types DEF DspInv, TypeOK
<1>2. CASE UNCHANGED <<size, src, dest>>
  BY <1>2, SameTransfer DEF A!vars
<1>3. CASE ~job.set
  <2>1. Transfer' = Transfer
    BY <1>3 DEF Transfer
  <2> QED
    BY <2>1 DEF A!vars
<1>4. CASE job.set /\ ~halt /\ Left(size) # 0 /\ Left(size) % Block = 0
  <2>1. size' = size - Block /\ src' = Advance(src, Block) /\ dest' = Advance(dest, Block)
    BY <1>4 DEF MoveBlock
  <2>2. Left(size') = Left(size) - Block /\ Left(size) >= Block
    BY <1>1, <1>4, <2>1, BlockOff
  <2>3. Transfer = [from |-> src, to |-> dest, left |-> Left(size), dir |-> dir]
    BY <1>4 DEF Transfer
  <2>4. Transfer' = [from |-> Advance(src, Block), to |-> Advance(dest, Block),
                     left |-> Left(size) - Block, dir |-> dir]
    BY <1>4, <2>1, <2>2 DEF Transfer
  <2> QED
    BY <1>4, <2>2, <2>3, <2>4 DEF A!Move, A!Past, Advance
<1> QED
  BY <1>2, <1>3, <1>4 DEF MoveBlock

LEMMA TickRefines ==
    ASSUME DspInv, Tick
    PROVE  A!Move \/ UNCHANGED A!vars
<1>1. UNCHANGED <<halt, mm, ar, dir, job>>
  BY DEF Tick, history
<1>2. MoveBlock(halt) \/ UNCHANGED <<size, src, dest>>
  BY DEF Tick, TickReset, TickSeed, TickRun
<1>3. CASE UNCHANGED <<size, src, dest>>
  BY <1>1, <1>3, SameTransfer DEF A!vars
<1> QED
  BY <1>1, <1>2, <1>3, MoveRefines

LEMMA GuestRefines ==
    ASSUME DspInv, DspInv', Guest
    PROVE  A!Address \/ A!Forget \/ UNCHANGED A!vars
<1> USE DEF regs, dma, history
<1>1. CASE FatalSeen \/ WriteUnknown \/ WriteStored \/ WriteCsr
  <2>1. UNCHANGED <<halt, mm, ar, job, src, dest, size, dir>>
    BY <1>1 DEF FatalSeen, WriteUnknown, WriteStored, WriteCsr
  <2> QED
    BY <2>1, SameTransfer DEF A!vars
<1>2. CASE WriteAddr
  <2>1. UNCHANGED <<halt, job, src, dest, size, dir>>
    BY <1>2 DEF WriteAddr
  <2>2. mm' \in A!Word /\ ar' \in A!Word
    BY DEF DspInv, TypeOK, Word, A!Word
  <2> QED
    BY <2>1, <2>2, SameTransfer DEF A!Address
<1>3. CASE WriteSize32 \/ WriteSize16
  BY <1>3, ForgetStep DEF WriteSize32, WriteSize16
<1> QED
  BY <1>1, <1>2, <1>3 DEF Guest

(* While the length is written there is no transfer to speak of; with the  *)
(* last assignment of E_MMIO_DSP_DMAStart there is one.                    *)
LEMMA HandlerRefines ==
    ASSUME DspInv, DspInv', Handler
    PROVE  A!Control \/ A!Program \/ UNCHANGED A!vars
<1> USE DEF regs, dma, history
<1>1. CASE LoadSize \/ CsrReset \/ Done
  <2>1. UNCHANGED <<halt, mm, ar, job, src, dest, size, dir>>
    BY <1>1 DEF LoadSize, CsrReset, Done
  <2> QED
    BY <2>1, SameTransfer DEF A!vars
<1>2. CASE CsrHalt
  <2>1. UNCHANGED <<mm, ar, job, src, dest, size, dir>> /\ halt' \in BOOLEAN
    BY <1>2 DEF CsrHalt
  <2> QED
    BY <2>1, SameTransfer DEF A!Control
<1>3. CASE AndStore \/ OrStore \/ DMAStartDir \/ DMAStartSrc
  <2>1. ~job.set /\ UNCHANGED <<halt, mm, ar, job>>
    BY <1>3 DEF AndStore, OrStore, DMAStartDir, DMAStartSrc, DspInv, SizeSteps
  <2>2. Transfer' = Transfer
    BY <2>1 DEF Transfer
  <2> QED
    BY <2>1, <2>2 DEF A!vars
<1>4. CASE DMAStartDest
  <2>1. ~job.set /\ wpc = "dest" /\ size \in Word
    BY <1>4, Types DEF DMAStartDest, DspInv, SizeSteps
  <2>2. UNCHANGED <<halt, mm, ar, size, dir, src>> /\ dest' = IF dir THEN mm ELSE ar
    BY <1>4 DEF DMAStartDest
  <2>3. CASE ~halt
    <3>1. job' = None
      BY <1>4, <2>3 DEF DMAStartDest
    <3>2. job'.set = FALSE /\ job.set = FALSE
      BY <2>1, <3>1 DEF None, DspInv, TypeOK
    <3>3. Transfer' = Transfer
      BY <3>2 DEF Transfer
    <3> QED
      BY <2>2, <3>2, <3>3 DEF A!vars
  <2>4. CASE halt
    <3>1. job'.set = TRUE /\ dir = DirBit(size) /\ src = IF dir THEN ar ELSE mm
      BY <1>4, <2>1, <2>4 DEF DMAStartDest, DspInv
    <3>2. Transfer' = [from |-> IF dir THEN ar ELSE mm, to |-> IF dir THEN mm ELSE ar,
                       left |-> Left(size), dir |-> dir]
      BY <2>2, <3>1 DEF Transfer
    <3>3. Left(size) \in 0 .. A!Longest /\ dir \in BOOLEAN
      BY <2>1, <3>1, LeftFits DEF A!Longest, DirBit
    <3> QED
      BY <2>1, <2>2, <2>4, <3>1, <3>2, <3>3 DEF A!Program
  <2> QED
    BY <2>3, <2>4
<1> QED
  BY <1>1, <1>2, <1>3, <1>4 DEF Handler

LEMMA NextRefines == DspInv /\ DspInv' /\ [Next]_vars => [A!Next]_(A!vars)
<1> SUFFICES ASSUME DspInv, DspInv', [Next]_vars PROVE [A!Next]_(A!vars)
  OBVIOUS
<1>1. CASE UNCHANGED vars
  BY <1>1, SameTransfer DEF vars, regs, dma, history, A!vars
<1>2. CASE Next
  BY <1>2, GuestRefines, HandlerRefines, TickRefines DEF Next, A!Next
<1> QED
  BY <1>1, <1>2

(* A transfer programmed while the DSP is halted is as it was programmed   *)
(* at one stroke, and the hook moves it block by block while the DSP runs, *)
(* for every size of register and block (dsp.c:17, dsp.c:280).             *)
THEOREM ImplementsAramDmaHolds == Spec => ImplementsAramDma
<1>1. Init => A!Init
  BY InitRefines
<1>2. DspInv /\ DspInv' /\ [Next]_vars => [A!Next]_(A!vars)
  BY NextRefines
<1> QED
  BY <1>1, <1>2, Invariant, PTL DEF Spec, ImplementsAramDma, A!Spec
=============================================================================
