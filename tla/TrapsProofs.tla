----------------------------- MODULE TrapsProofs ----------------------------
(***************************************************************************)
(* Proofs about Traps: the types, and that no guest goes on after a fatal  *)
(* error.  First arithmetic and the outcomes of an access, then what each  *)
(* kind of step does to the stack of signals, then the steps.              *)
(***************************************************************************)
EXTENDS Traps, SequenceTheorems, TLAPS

Outcome == [val : Word, dev : [Storage -> Word], fatal : BOOLEAN, fault : BOOLEAN]

-----------------------------------------------------------------------------
(* Words, halves and bytes fit where they are put. *)
LEMMA Sizes == W \in Nat /\ W > 0 /\ B \in Nat /\ B > 0 /\ W * W \in Nat /\ W <= W * W /\ 0 \in Word
<1>1. B \in Nat /\ B > 0 /\ W = B * B
  BY MmioAssumption
<1>2. W \in Nat /\ W > 0
  BY <1>1
<1>3. W * W \in Nat /\ W <= W * W
  BY <1>2
<1> QED
  BY <1>1, <1>2, <1>3 DEF Word

LEMMA LowFits ==
    ASSUME NEW v \in Nat
    PROVE  v % W \in Half /\ v % W \in Word
BY Sizes DEF Half, Word

LEMMA ByteFits ==
    ASSUME NEW v \in Word
    PROVE  v % B \in Word
BY Sizes, v % B <= v DEF Word

LEMMA PairFits ==
    ASSUME NEW h \in Half, NEW l \in Half
    PROVE  h * W + l \in Word
<1>1. h \in Nat /\ l \in Nat /\ h <= W - 1 /\ l <= W - 1
  BY Sizes DEF Half
<1>2. h * W <= (W - 1) * W
  BY <1>1, Sizes
<1>3. (W - 1) * W = W * W - W
  BY Sizes
<1>4. h * W \in Nat
  BY <1>1, Sizes
<1> QED
  BY <1>1, <1>2, <1>3, <1>4, Sizes DEF Word

LEMMA HighFits ==
    ASSUME NEW v \in Word
    PROVE  v \div W \in Half
<1>1. v \in Nat /\ v < W * W
  BY Sizes DEF Word
<1>2. v \div W \in Nat /\ (v \div W) * W <= v
  BY <1>1, Sizes
<1>3. v \div W < W
  <2> SUFFICES ASSUME v \div W >= W PROVE FALSE
    BY <1>2, Sizes
  <2>1. (v \div W) * W >= W * W
    BY <1>2, Sizes
  <2> QED
    BY <1>1, <1>2, <2>1, Sizes
<1> QED
  BY <1>2, <1>3, Sizes DEF Half

-----------------------------------------------------------------------------
(* An access gives a word and leaves words in the registers. *)
LEMMA OutcomeKinds ==
    ASSUME NEW d \in [Storage -> Word]
    PROVE  /\ \A v \in Word : Does(v, d) \in Outcome
           /\ Reports(d) \subseteq Outcome
           /\ Answers(d) \subseteq Outcome
           /\ \A r \in Storage, v \in Word : Store(d, r, v) \subseteq Outcome
<1>1. \A e \in [Storage -> Word], v \in Word : Does(v, e) \in Outcome
  BY DEF Does, Outcome
<1>2. Reports(d) \subseteq Outcome
  BY Sizes DEF Reports, Outcome
<1>3. Answers(d) \subseteq Outcome
  BY <1>1, MmioAssumption DEF Answers
<1>4. \A r \in Storage, v \in Word : Store(d, r, v) \subseteq Outcome
  BY <1>1 DEF Store
<1> QED
  BY <1>1, <1>2, <1>3, <1>4

LEMMA BlockReads ==
    ASSUME NEW d \in [Storage -> Word], NEW reg, NEW w \in Widths
    PROVE  /\ E_MMIO_PI_Read(d, reg, w) \subseteq Outcome
           /\ E_MMIO_MI_Read(d, reg, w) \subseteq Outcome
           /\ E_MMIO_AI_Read(d, reg, w) \subseteq Outcome
           /\ E_MMIO_VI_Read(d, reg, w) \subseteq Outcome
<1>1. \A r \in Storage : d[r] \in Word /\ Does(d[r], d) \in Outcome
  BY OutcomeKinds
<1>2. PIRegs \subseteq Storage /\ MIRegs \subseteq Storage
      /\ "aicr" \in Storage /\ "viclk" \in Storage /\ "protType" \in Storage
  BY DEF Storage, PIRegs, MIRegs
<1>3. E_MMIO_PI_Read(d, reg, w) \subseteq Outcome
  BY <1>1, <1>2, OutcomeKinds DEF E_MMIO_PI_Read
<1>4. E_MMIO_MI_Read(d, reg, w) \subseteq Outcome
  BY <1>1, <1>2, OutcomeKinds DEF E_MMIO_MI_Read
<1>5. d["aicr"] % W \in Word
  BY <1>1, <1>2, LowFits, Sizes DEF Word
<1>6. E_MMIO_AI_Read(d, reg, w) \subseteq Outcome
  BY <1>1, <1>2, <1>5, OutcomeKinds DEF E_MMIO_AI_Read
<1>7. E_MMIO_VI_Read(d, reg, w) \subseteq Outcome
  BY <1>1, <1>2, OutcomeKinds DEF E_MMIO_VI_Read
<1> QED
  BY <1>3, <1>4, <1>6, <1>7

LEMMA BlockWrites ==
    ASSUME NEW d \in [Storage -> Word], NEW reg, NEW v \in Word, NEW w \in Widths
    PROVE  /\ E_MMIO_PI_Write(d, reg, v, w) \subseteq Outcome
           /\ E_MMIO_MI_Write(d, reg, v, w) \subseteq Outcome
           /\ E_MMIO_AI_Write(d, reg, v, w) \subseteq Outcome
           /\ E_MMIO_VI_Write(d, reg, v, w) \subseteq Outcome
<1>1. PIRegs \subseteq Storage /\ MIRegs \subseteq Storage /\ "aicr" \in Storage
  BY DEF Storage, PIRegs, MIRegs
<1>2. v \in Nat /\ v % W \in Word
  BY LowFits, Sizes DEF Word
<1>3. (d["aicr"] \div W) * W + (v % AiBits) \in Word
  <2>1. d["aicr"] \div W \in Half
    BY <1>1, HighFits
  <2>2. v % AiBits \in Half
    BY <1>2, MmioAssumption, Sizes DEF Half
  <2> QED
    BY <2>1, <2>2, PairFits
<1>4. E_MMIO_PI_Write(d, reg, v, w) \subseteq Outcome
  BY <1>1, OutcomeKinds DEF E_MMIO_PI_Write
<1>5. E_MMIO_MI_Write(d, reg, v, w) \subseteq Outcome
  BY <1>1, <1>2, OutcomeKinds DEF E_MMIO_MI_Write
<1>6. E_MMIO_AI_Write(d, reg, v, w) \subseteq Outcome
  BY <1>1, <1>3, OutcomeKinds DEF E_MMIO_AI_Write
<1>7. E_MMIO_VI_Write(d, reg, v, w) \subseteq Outcome
  BY OutcomeKinds DEF E_MMIO_VI_Write
<1> QED
  BY <1>4, <1>5, <1>6, <1>7

LEMMA Elsewhere ==
    ASSUME NEW d \in [Storage -> Word], NEW bus, NEW w \in Widths, NEW host
    PROVE  E_MMIO_DSP_Access(d) \subseteq Outcome /\ E_MMIO_Forwarded(d, bus, w, host) \subseteq Outcome
<1>1. [val |-> 0, dev |-> d, fatal |-> FALSE, fault |-> TRUE] \in Outcome
  BY Sizes DEF Outcome
<1> QED
  BY <1>1, OutcomeKinds DEF E_MMIO_DSP_Access, E_MMIO_Forwarded

LEMMA AccessOutcome ==
    ASSUME NEW d \in [Storage -> Word], NEW place, NEW v \in Word, NEW w \in Widths, NEW host
    PROVE  Read(d, place, w, host) \subseteq Outcome /\ Write(d, place, v, w, host) \subseteq Outcome
<1>1. \A u \in Word : {Does(u, d)} \subseteq Outcome
  BY OutcomeKinds
<1>2. E_MMIO_Flipper_Read(d, place, w, host) \subseteq Outcome
  BY <1>1, Sizes, OutcomeKinds, BlockReads, Elsewhere DEF E_MMIO_Flipper_Read
<1>3. E_MMIO_Hollywood_Read(d, place, w, host) \subseteq Outcome
  BY <1>1, Sizes, OutcomeKinds, BlockReads, Elsewhere DEF E_MMIO_Hollywood_Read
<1>4. E_MMIO_Flipper_Write(d, place, v, w, host) \subseteq Outcome
  BY <1>1, OutcomeKinds, BlockWrites, Elsewhere DEF E_MMIO_Flipper_Write
<1>5. E_MMIO_Hollywood_Write(d, place, v, w, host) \subseteq Outcome
  BY <1>1, OutcomeKinds, BlockWrites, Elsewhere DEF E_MMIO_Hollywood_Write
<1> QED
  BY <1>2, <1>3, <1>4, <1>5 DEF Read, Write

(* What a load leaves in a register is a word, by the code and by the      *)
(* manual.                                                                 *)
LEMMA ExtendedFits ==
    ASSUME NEW v \in Word
    PROVE  v % W \in Word /\ (W - 1) * W + (v % W) \in Word /\ \A op : Extended(op, v) \in Word
<1>1. v \in Nat /\ v % W \in Half /\ v % W \in Word
  BY LowFits, Sizes DEF Word
<1>2. (W - 1) * W + (v % W) \in Word
  BY <1>1, PairFits, Sizes, W - 1 \in Half DEF Half
<1> QED
  BY <1>1, <1>2 DEF Extended

LEMMA WriteBackFits ==
    ASSUME NEW r \in Regs, NEW f \in Frames
    PROVE  WriteBack(r, f) \in Regs
<1>1. f.val \in Word
  BY DEF Frames
<1>2. f.val % W \in Word /\ (W - 1) * W + (f.val % W) \in Word /\ f.val % B \in Word
  BY <1>1, ExtendedFits, ByteFits
<1>3. \A u \in Word : [r EXCEPT !.rt = u] \in Regs
  BY DEF Regs
<1> QED
  BY <1>1, <1>2, <1>3 DEF WriteBack

-----------------------------------------------------------------------------
(* The stack of signals under the four things that are done to it: a       *)
(* signal arrives, the innermost code takes a step, it returns to what it  *)
(* interrupted, or it returns to the bail-out in its place.                *)
Good(s) == StackOK(s) /\ StackInv(s)
Handlers == {"segv", "ill", "alrm"}

LEMMA Grounded ==
    ASSUME NEW s, Good(s)
    PROVE  /\ s \in Seq(Frames) /\ Len(s) \in Nat /\ Len(s) >= 1
           /\ DOMAIN s = 1 .. Len(s)
           /\ \A i \in 1 .. Len(s) : s[i] \in Frames
           /\ Last(s) = s[Len(s)] /\ Last(s) \in Frames
BY DEF Good, StackOK, Last

LEMMA FrameTypes ==
    ASSUME NEW sig \in Handlers, NEW at, NEW acc \in Accesses \cup OwnAccesses \cup {Nothing},
           at \in Steps(sig)
    PROVE  Frame(sig, at, acc) \in Frames
BY Sizes DEF Frame, Frames, Handlers, Steps, Widths, Odd

LEMMA Pushed ==
    ASSUME NEW s, Good(s), NEW sig \in Handlers, NEW at \in Steps(sig),
           NEW acc \in Accesses \cup OwnAccesses \cup {Nothing},
           \A i \in DOMAIN s : s[i].sig # sig,
           NEW t, t = Append(s, Frame(sig, at, acc))
    PROVE  /\ Good(t)
           /\ OnStack({"bail"}, s) => OnStack({"bail"}, t)
           /\ OnStack({"segv", "ill"}, s) => OnStack({"segv", "ill"}, t)
           /\ sig \in {"segv", "ill"} => OnStack({"segv", "ill"}, t)
<1> DEFINE f == Frame(sig, at, acc)
<1>1. f \in Frames /\ f.sig = sig /\ f.code = sig /\ f.at = at
  BY FrameTypes DEF Frame
<1>2. /\ t \in Seq(Frames) /\ t # <<>> /\ Len(t) = Len(s) + 1
      /\ \A i \in 1 .. Len(s) : t[i] = s[i]
      /\ t[Len(s) + 1] = f
  BY <1>1, Grounded, AppendProperties
<1>3. Len(s) \in Nat /\ Len(s) >= 1 /\ DOMAIN s = 1 .. Len(s) /\ DOMAIN t = 1 .. Len(s) + 1
  BY <1>2, Grounded
<1>4. ASSUME NEW i \in DOMAIN t
      PROVE  /\ t[i].at \in Steps(t[i].code)
             /\ t[i].sig = "none" <=> i = 1
             /\ \A j \in DOMAIN t : t[i].sig = t[j].sig => i = j
  <2>1. CASE i \in 1 .. Len(s)
    BY <1>1, <1>2, <1>3, <2>1 DEF Good, StackOK
  <2>2. CASE i = Len(s) + 1
    BY <1>1, <1>2, <1>3, <2>2 DEF Good, StackOK, Handlers
  <2> QED
    BY <1>3, <2>1, <2>2
<1>5. StackInv(t)
  BY <1>1, <1>2, <1>3 DEF Good, StackInv, Handlers
<1>6. \A codes : OnStack(codes, s) => OnStack(codes, t)
  BY <1>2, <1>3 DEF OnStack
<1>7. sig \in {"segv", "ill"} => OnStack({"segv", "ill"}, t)
  BY <1>1, <1>2, <1>3, Len(s) + 1 \in DOMAIN t DEF OnStack
<1> QED
  BY <1>2, <1>4, <1>5, <1>6, <1>7 DEF Good, StackOK

LEMMA Updated ==
    ASSUME NEW S, NEW u \in Seq(S), NEW n \in 1 .. Len(u), NEW e \in S
    PROVE  /\ [u EXCEPT ![n] = e] \in Seq(S) /\ Len([u EXCEPT ![n] = e]) = Len(u)
           /\ DOMAIN [u EXCEPT ![n] = e] = 1 .. Len(u) /\ [u EXCEPT ![n] = e][n] = e
           /\ \A i \in 1 .. Len(u) : i # n => [u EXCEPT ![n] = e][i] = u[i]
OBVIOUS

LEMMA Moved ==
    ASSUME NEW s, Good(s), NEW f \in Frames, f.sig = Last(s).sig, f.code = Last(s).code,
           f.at \in Steps(f.code), NEW t, t = [s EXCEPT ![Len(s)] = f]
    PROVE  Good(t) /\ Last(t) = f /\ \A codes : OnStack(codes, t) <=> OnStack(codes, s)
<1>1. /\ Len(s) \in Nat /\ Len(s) >= 1 /\ DOMAIN s = 1 .. Len(s)
      /\ Last(s) = s[Len(s)] /\ \A i \in 1 .. Len(s) : s[i] \in Frames
  BY Grounded
<1>2. /\ t \in Seq(Frames) /\ Len(t) = Len(s) /\ DOMAIN t = 1 .. Len(s)
      /\ t[Len(s)] = f /\ \A i \in 1 .. Len(s) : i # Len(s) => t[i] = s[i]
  BY <1>1, Grounded
<1>3. \A i \in 1 .. Len(s) : t[i].sig = s[i].sig /\ t[i].code = s[i].code
  BY <1>1, <1>2
<1>4. StackOK(t)
  <2>1. \A i \in 1 .. Len(s) : t[i].at \in Steps(t[i].code)
    BY <1>1, <1>2 DEF Good, StackOK
  <2>2. \A i \in 1 .. Len(s) : /\ t[i].sig = "none" <=> i = 1
                               /\ \A j \in 1 .. Len(s) : t[i].sig = t[j].sig => i = j
    <3>1. \A i \in 1 .. Len(s) : /\ s[i].sig = "none" <=> i = 1
                                 /\ \A j \in 1 .. Len(s) : s[i].sig = s[j].sig => i = j
      BY <1>1 DEF Good, StackOK
    <3> QED
      BY ONLY <1>3, <3>1
  <2> QED
    BY <1>1, <1>2, <2>1, <2>2 DEF StackOK
<1>5. StackInv(t)
  BY <1>1, <1>2, <1>3 DEF Good, StackInv
<1>6. \A codes : OnStack(codes, t) <=> OnStack(codes, s)
  BY <1>1, <1>2, <1>3 DEF OnStack
<1> QED
  BY <1>2, <1>4, <1>5, <1>6 DEF Good, Last

LEMMA Interrupts ==
    ASSUME NEW s, Good(s), Last(s).code \in Handlers
    PROVE  Len(s) >= 2 /\ Front(s) \in Seq(Frames) /\ Len(Front(s)) = Len(s) - 1
           /\ \A i \in 1 .. Len(s) - 1 : Front(s)[i] = s[i]
<1>1. /\ s \in Seq(Frames) /\ Len(s) \in Nat /\ Len(s) >= 1
      /\ DOMAIN s = 1 .. Len(s) /\ Last(s) = s[Len(s)]
  BY Grounded
<1>2. Last(s).sig # "none"
  BY <1>1 DEF Good, StackInv, Handlers
<1>3. Len(s) # 1
  BY <1>1, <1>2 DEF Good, StackOK
<1> QED
  BY <1>1, <1>3 DEF Front

LEMMA Popped ==
    ASSUME NEW s, Good(s), Last(s).code \in Handlers, NEW t, t = Front(s)
    PROVE  Good(t) /\ (OnStack({"bail"}, s) => OnStack({"bail"}, t))
           /\ (Last(s).code = "alrm" => (OnStack({"segv", "ill"}, s) => OnStack({"segv", "ill"}, t)))
<1>1. /\ Len(s) \in Nat /\ DOMAIN s = 1 .. Len(s) /\ Last(s) = s[Len(s)]
      /\ Len(s) >= 2 /\ t \in Seq(Frames) /\ Len(t) = Len(s) - 1
      /\ \A i \in 1 .. Len(s) - 1 : t[i] = s[i]
  BY Grounded, Interrupts
<1>2. t # <<>> /\ DOMAIN t = 1 .. Len(s) - 1
  BY <1>1
<1>3. StackOK(t)
  BY <1>1, <1>2 DEF Good, StackOK
<1>4. StackInv(t)
  BY <1>1, <1>2 DEF Good, StackInv
<1>5. ASSUME NEW codes, OnStack(codes, s), Last(s).code \notin codes
      PROVE  OnStack(codes, t)
  <2>1. PICK i \in DOMAIN s : s[i].code \in codes
    BY <1>5 DEF OnStack
  <2>2. i # Len(s)
    BY <1>1, <1>5, <2>1
  <2> QED
    BY <1>1, <1>2, <2>1, <2>2 DEF OnStack
<1> QED
  BY <1>3, <1>4, <1>5 DEF Good, Handlers

LEMMA BailedOut ==
    ASSUME NEW s, Good(s), Last(s).code \in {"segv", "ill"}, NEW t,
           t = [Front(s) EXCEPT ![Len(s) - 1] =
                   [Frame("bail", "start", Nothing) EXCEPT !.sig = s[Len(s) - 1].sig]]
    PROVE  Good(t) /\ OnStack({"bail"}, t)
<1> DEFINE f == [Frame("bail", "start", Nothing) EXCEPT !.sig = s[Len(s) - 1].sig]
<1>1. /\ Len(s) \in Nat /\ DOMAIN s = 1 .. Len(s) /\ Last(s) = s[Len(s)]
      /\ Len(s) >= 2 /\ Front(s) \in Seq(Frames) /\ Len(Front(s)) = Len(s) - 1
      /\ \A i \in 1 .. Len(s) - 1 : Front(s)[i] = s[i]
      /\ \A i \in 1 .. Len(s) : s[i] \in Frames
  BY Grounded, Interrupts DEF Handlers
<1>2. s[Len(s) - 1] \in Frames
  BY <1>1
<1>3. f.sig = s[Len(s) - 1].sig /\ f.code = "bail" /\ f.at = "start"
  BY DEF Frame
<1>4. f \in Frames
  BY <1>2, Sizes DEF Frame, Frames, Widths, Odd
<1>5. /\ t \in Seq(Frames) /\ Len(t) = Len(s) - 1 /\ DOMAIN t = 1 .. Len(s) - 1
      /\ t[Len(s) - 1] = f /\ \A i \in 1 .. Len(s) - 1 : i # Len(s) - 1 => t[i] = s[i]
  <2> DEFINE u == Front(s)
             n == Len(s) - 1
  <2>1. u \in Seq(Frames) /\ Len(u) = n /\ n \in Nat /\ n >= 1 /\ \A i \in 1 .. n : u[i] = s[i]
    BY <1>1
  <2>2. t = [u EXCEPT ![n] = f]
    OBVIOUS
  <2> HIDE DEF u, n, f
  <2>3. t \in Seq(Frames) /\ Len(t) = n /\ DOMAIN t = 1 .. n
        /\ t[n] = f /\ \A i \in 1 .. n : i # n => t[i] = u[i]
    BY ONLY <1>4, <2>1, <2>2, Updated
  <2> QED
    BY <2>1, <2>3 DEF n
<1>6. \A i \in 1 .. Len(s) - 1 : t[i].sig = s[i].sig
  BY <1>3, <1>5
<1>7. StackOK(t)
  <2>1. ASSUME NEW i \in 1 .. Len(s) - 1 PROVE t[i].at \in Steps(t[i].code)
    <3>1. CASE i = Len(s) - 1
      BY <1>3, <1>5, <3>1 DEF Steps
    <3>2. CASE i # Len(s) - 1
      BY <1>1, <1>5, <3>2 DEF Good, StackOK
    <3> QED
      BY <3>1, <3>2
  <2>2. \A i \in 1 .. Len(s) - 1 :
            /\ t[i].sig = "none" <=> i = 1
            /\ \A j \in 1 .. Len(s) - 1 : t[i].sig = t[j].sig => i = j
    BY <1>1, <1>6 DEF Good, StackOK
  <2> QED
    BY <1>1, <1>5, <2>1, <2>2 DEF StackOK
<1>8. StackInv(t)
  BY <1>1, <1>3, <1>5, <1>6 DEF Good, StackInv
<1>9. OnStack({"bail"}, t)
  BY <1>1, <1>3, <1>5, Len(s) - 1 \in DOMAIN t DEF OnStack
<1> QED
  BY <1>7, <1>8, <1>9 DEF Good

LEMMA GuestAlone ==
    ASSUME NEW s, Good(s), Last(s).code = "guest"
    PROVE  /\ ~OnStack({"bail"}, s) /\ ~OnStack({"segv", "ill"}, s)
           /\ \A i \in DOMAIN s : s[i].sig = "none"
<1>1. Len(s) = 1 /\ DOMAIN s = {1} /\ s[1].code = "guest"
  <2>1. /\ Len(s) \in Nat /\ Len(s) >= 1 /\ DOMAIN s = 1 .. Len(s)
        /\ s[Len(s)].code = "guest"
    BY Grounded
  <2>2. Len(s) = 1
    BY <2>1, Len(s) \in DOMAIN s DEF Good, StackInv
  <2> QED
    BY <2>1, <2>2
<1> QED
  BY <1>1 DEF OnStack, Good, StackOK

-----------------------------------------------------------------------------
(* The same for the actions' own words: Goto, Fault, Return, BailOut. *)
LEMMA TopFacts ==
    ASSUME TrapsInv
    PROVE  Good(stk) /\ Top = Last(stk) /\ Top = stk[Len(stk)] /\ Top \in Frames
BY Grounded DEF TrapsInv, TypeOK, Good, Top

LEMMA StepNames ==
    ASSUME NEW code \in {"guest", "segv", "ill", "alrm", "bail"}, NEW at \in Steps(code), NEW f \in Frames
    PROVE  [f EXCEPT !.at = at] \in Frames
BY DEF Steps, Frames

LEMMA Went ==
    ASSUME TrapsInv, NEW at \in Steps(Top.code), Goto(at)
    PROVE  Good(stk') /\ \A codes : OnStack(codes, stk') <=> OnStack(codes, stk)
<1> DEFINE f == [Top EXCEPT !.at = at]
<1>1. Good(stk) /\ Top = Last(stk) /\ Top = stk[Len(stk)] /\ Top \in Frames
  BY TopFacts
<1>2. Top.code \in {"guest", "segv", "ill", "alrm", "bail"}
  BY <1>1 DEF Frames
<1>3. f \in Frames
  BY <1>1, <1>2, StepNames
<1>4. f.sig = Last(stk).sig /\ f.code = Last(stk).code /\ f.at = at
  BY <1>1 DEF Frames
<1>5. stk' = [stk EXCEPT ![Len(stk)] = f]
  BY <1>1 DEF Goto
<1> HIDE DEF f
<1> QED
  BY <1>1, <1>3, <1>4, <1>5, Moved

LEMMA Signalled ==
    ASSUME TrapsInv, NEW sig \in Handlers, NEW at \in Steps(sig),
           NEW acc \in Accesses \cup OwnAccesses \cup {Nothing},
           ~Handling(sig), stk' = Append(stk, Frame(sig, at, acc))
    PROVE  /\ Good(stk')
           /\ OnStack({"bail"}, stk) => OnStack({"bail"}, stk')
           /\ OnStack({"segv", "ill"}, stk) => OnStack({"segv", "ill"}, stk')
           /\ sig \in {"segv", "ill"} => OnStack({"segv", "ill"}, stk')
<1>1. \A i \in DOMAIN stk : stk[i].sig # sig
  BY DEF Handling
<1> QED
  <2>1. Good(stk)
    BY TopFacts
  <2> QED
    BY <1>1, <2>1, Pushed, ZenonT(40)

LEMMA GuestUnsignalled ==
    ASSUME TrapsInv, GuestRuns, NEW sig \in Handlers
    PROVE  ~Handling(sig)
<1>1. Good(stk) /\ Last(stk).code = "guest"
  BY TopFacts DEF GuestRuns, At
<1>2. \A i \in DOMAIN stk : stk[i].sig = "none"
  BY <1>1, GuestAlone
<1> QED
  BY <1>2 DEF Handling, Handlers

(* A doomed process stays doomed when a handler of the guest's traps       *)
(* returns: without a fatal error it leaves the bail-out where it is.      *)
LEMMA Returned ==
    ASSUME TrapsInv, Top.code \in {"segv", "ill"}, ReturnOrBailOut, UNCHANGED <<proc, fatal, doomed>>
    PROVE  Good(stk') /\ DoomedInv'
<1>1. Good(stk) /\ Top = Last(stk)
  BY TopFacts
<1>2. CASE fatal
  <2>1. stk' = [Front(stk) EXCEPT ![Len(stk) - 1] =
                   [Frame("bail", "start", Nothing) EXCEPT !.sig = stk[Len(stk) - 1].sig]]
    BY <1>2 DEF ReturnOrBailOut, BailOut, ReturnTo
  <2>2. Good(stk') /\ OnStack({"bail"}, stk')
    BY <1>1, <2>1, BailedOut
  <2> QED
    BY <2>2 DEF DoomedInv
<1>3. CASE ~fatal
  <2>1. stk' = Front(stk)
    BY <1>3 DEF ReturnOrBailOut, Return
  <2>2. Good(stk') /\ (OnStack({"bail"}, stk) => OnStack({"bail"}, stk'))
    BY <1>1, <2>1, Popped DEF Handlers
  <2> QED
    BY <1>3, <2>2 DEF TrapsInv, DoomedInv
<1> QED
  BY <1>2, <1>3

LEMMA OwnFaulted ==
    ASSUME TrapsInv, NEW a \in OwnAccesses, Fault(a)
    PROVE  TrapsInv'
<1>1. CASE Handling("segv")
  BY <1>1 DEF Fault, TrapsInv, TypeOK, DoomedInv, errors, machine
<1>2. CASE ~Handling("segv")
  <2>1. stk' = Append(stk, Frame("segv", "entry", a)) /\ doomed' = (doomed \/ fatal)
        /\ UNCHANGED <<machine, proc, errors, dev, gpr, dec, iram, want>>
    BY <1>2 DEF Fault
  <2>2. /\ Good(stk') /\ OnStack({"segv", "ill"}, stk')
        /\ OnStack({"bail"}, stk) => OnStack({"bail"}, stk')
    BY <1>2, <2>1, Signalled DEF Handlers, Steps
  <2> QED
    BY <2>1, <2>2 DEF TrapsInv, TypeOK, DoomedInv, Good, errors, machine
<1> QED
  BY <1>1, <1>2

(* The step that is being taken is somewhere on the stack. *)
LEMMA OnTop ==
    ASSUME TrapsInv, NEW codes, Top.code \in codes
    PROVE  OnStack(codes, stk)
<1>1. Top = stk[Len(stk)] /\ Len(stk) \in DOMAIN stk
  BY TopFacts, Grounded
<1> QED
  BY <1>1 DEF OnStack

LEMMA Registers ==
    ASSUME NEW r \in Regs
    PROVE  /\ Advance(r) \in Regs /\ \A op : Stepped(r, op) \in Regs
           /\ [r EXCEPT !.pc = 1 - @] \in Regs
           /\ \A v \in Word : [r EXCEPT !.rt = v] \in Regs
           /\ \A v \in Word : [rt |-> v, ra |-> r.ra, pc |-> 1 - r.pc] \in Regs
           /\ \A v \in Word : [rt |-> v, ra |-> 1 - r.ra, pc |-> 1 - r.pc] \in Regs
<1>1. r.rt \in Word /\ r.ra \in {0, 1} /\ r.pc \in {0, 1}
  BY DEF Regs
<1>2. (r.pc + 1) % 2 \in 0 .. 1 /\ 1 - r.pc \in 0 .. 1 /\ 1 - r.ra \in 0 .. 1 /\ (r.ra + 1) % 2 \in 0 .. 1
  BY <1>1
<1>3. \A q \in Regs, n \in 0 .. 1 : [q EXCEPT !.pc = n] \in Regs /\ [q EXCEPT !.ra = n] \in Regs
  BY DEF Regs
<1>4. Advance(r) \in Regs
  BY <1>2, <1>3 DEF Advance
<1>5. Rebase(r) \in Regs /\ Rebase(r).pc = r.pc
  BY <1>2, <1>3 DEF Rebase, Regs
<1>6. Advance(Rebase(r)) \in Regs
  BY <1>2, <1>3, <1>5 DEF Advance
<1>7. \A v \in Word, m \in 0 .. 1, n \in 0 .. 1 : [rt |-> v, ra |-> m, pc |-> n] \in Regs
  BY DEF Regs
<1>8. [r EXCEPT !.pc = 1 - @] \in Regs /\ \A v \in Word : [r EXCEPT !.rt = v] \in Regs
  BY <1>2, <1>3 DEF Regs
<1>9. r.ra \in 0 .. 1
  BY DEF Regs
<1> QED
  BY <1>2, <1>4, <1>6, <1>7, <1>8, <1>9 DEF Stepped

-----------------------------------------------------------------------------
(* The steps. *)
LEMMA InitInv == Init => TrapsInv
<1> SUFFICES ASSUME Init PROVE TrapsInv
  OBVIOUS
<1>1. Guest \in Frames /\ Guest.sig = "none" /\ Guest.code = "guest" /\ Guest.at = "run"
  BY Sizes DEF Guest, Frame, Frames, Widths, Odd
<1>2. stk \in Seq(Frames) /\ stk # <<>> /\ DOMAIN stk = {1} /\ stk[1] = Guest
  BY <1>1 DEF Init
<1>3. StackOK(stk) /\ StackInv(stk)
  BY <1>1, <1>2 DEF StackOK, StackInv, Steps
<1>4. dev \in [Storage -> Word]
  BY Sizes DEF Init, E_MMIO_Chipset_Init
<1>5. gpr \in Regs /\ want \in Regs
  BY Sizes DEF Init, Zeroed, Regs
<1>6. <<consoleType, hostType>> \in Machines
  BY TrapsAssumption DEF Init
<1> QED
  BY <1>3, <1>4, <1>5, <1>6 DEF Init, TrapsInv, TypeOK, DoomedInv

LEMMA GuestKeeps ==
    ASSUME TrapsInv, GuestAccess \/ GuestPrivileged
    PROVE  TrapsInv'
<1>1. CASE GuestAccess
  <2>1. PICK a \in Accesses, v \in Vals : stk' = Append(stk, Frame("segv", "entry", a))
                                          /\ gpr' = [gpr EXCEPT !.rt = v]
    BY <1>1 DEF GuestAccess
  <2>2. gpr' \in Regs /\ want' \in Regs
    BY <1>1, <2>1, Registers, TrapsAssumption DEF GuestAccess, TrapsInv, TypeOK
  <2>3. ~Handling("segv")
    BY <1>1, GuestUnsignalled DEF GuestAccess, Handlers
  <2>4. Good(stk') /\ OnStack({"segv", "ill"}, stk') /\ (OnStack({"bail"}, stk) => OnStack({"bail"}, stk'))
    BY <2>1, <2>3, Signalled DEF Handlers, Steps
  <2> QED
    BY <1>1, <2>2, <2>4 DEF GuestAccess, TrapsInv, TypeOK, DoomedInv, Good, errors, machine
<1>2. CASE GuestPrivileged
  <2>1. ~Handling("ill")
    BY <1>2, GuestUnsignalled DEF GuestPrivileged, Handlers
  <2>2. Good(stk') /\ OnStack({"segv", "ill"}, stk') /\ (OnStack({"bail"}, stk) => OnStack({"bail"}, stk'))
    BY <1>2, <2>1, Signalled DEF GuestPrivileged, Handlers, Steps
  <2> QED
    BY <1>2, <2>2 DEF GuestPrivileged, TrapsInv, TypeOK, DoomedInv, Good, errors, machine
<1> QED
  BY <1>1, <1>2

LEMMA AlarmKeeps ==
    ASSUME TrapsInv, Alarm
    PROVE  TrapsInv'
<1>1. /\ Good(stk')
      /\ OnStack({"bail"}, stk) => OnStack({"bail"}, stk')
      /\ OnStack({"segv", "ill"}, stk) => OnStack({"segv", "ill"}, stk')
  BY Signalled DEF Alarm, Handlers, Steps
<1> QED
  BY <1>1 DEF Alarm, TrapsInv, TypeOK, DoomedInv, Good, errors, machine, history

(* The innermost code takes a step, and says so to no other: what holds of *)
(* a doomed process goes on to hold when the flag is raised, not lowered.  *)
LEMMA Onward ==
    ASSUME TrapsInv, NEW at \in Steps(Top.code), Goto(at), UNCHANGED proc,
           fatal => fatal', fatal' \in BOOLEAN,
           doomed' = doomed \/ (doomed' = TRUE /\ fatal' /\ Top.code \in {"segv", "ill"})
    PROVE  StackOK(stk') /\ StackInv(stk') /\ DoomedInv' /\ doomed' \in BOOLEAN
<1>1. Good(stk') /\ \A codes : OnStack(codes, stk') <=> OnStack(codes, stk)
  BY Went
<1>2. CASE doomed' = doomed
  BY <1>1, <1>2 DEF TrapsInv, TypeOK, DoomedInv, Good
<1>3. CASE doomed' = TRUE /\ fatal' /\ Top.code \in {"segv", "ill"}
  BY <1>1, <1>3, OnTop DEF DoomedInv, Good
<1> QED
  BY <1>2, <1>3

LEMMA Proceeded ==
    ASSUME TrapsInv, NEW at, Top.code \in {"segv", "ill"},
           {at, "exit", "hang"} \subseteq Steps(Top.code), Proceed(at), UNCHANGED proc
    PROVE  /\ StackOK(stk') /\ StackInv(stk') /\ DoomedInv' /\ doomed' \in BOOLEAN
           /\ fatal' \in BOOLEAN /\ borked' \in BOOLEAN
<1>1. fatal \in BOOLEAN /\ doomed \in BOOLEAN /\ borked \in BOOLEAN
  BY DEF TrapsInv, TypeOK
<1>2. CASE borked /\ Goto("hang") /\ UNCHANGED <<errors, doomed>>
  BY <1>1, <1>2, Onward DEF errors
<1>3. CASE ~borked /\ fatal /\ borked' = TRUE /\ doomed' = TRUE /\ Goto("exit") /\ UNCHANGED fatal
  BY <1>1, <1>3, Onward
<1>4. CASE ~borked /\ ~fatal /\ Goto(at) /\ UNCHANGED <<errors, doomed>>
  BY <1>1, <1>4, Onward DEF errors
<1> QED
  BY <1>2, <1>3, <1>4 DEF Proceed

LEMMA SegvEntryKeeps ==
    ASSUME TrapsInv, SegvEntry
    PROVE  TrapsInv'
<1>1. Top.code = "segv" /\ {"out", "hang", "exit", "fetch"} \subseteq Steps(Top.code)
  BY DEF SegvEntry, At, Steps
<1>2. fatal \in BOOLEAN /\ doomed \in BOOLEAN /\ borked \in BOOLEAN
  BY DEF TrapsInv, TypeOK
<1>3. /\ StackOK(stk') /\ StackInv(stk') /\ DoomedInv' /\ doomed' \in BOOLEAN
      /\ fatal' \in BOOLEAN /\ borked' \in BOOLEAN
  <2>1. CASE Top.acc.type = "other"
    BY <1>1, <1>2, <2>1, Onward DEF SegvEntry
  <2>2. CASE Top.acc.type # "other"
    BY <1>1, <2>2, Proceeded DEF SegvEntry
  <2> QED
    BY <2>1, <2>2
<1> QED
  BY <1>3 DEF SegvEntry, TrapsInv, TypeOK, machine

(* Decoding fills in the frame and goes to the device, or to the end. *)
LEMMA DecodedFrame ==
    ASSUME TrapsInv, Top.code = "segv", NEW at \in {"device", "out"}, Decoded(at)
    PROVE  /\ \E w \in WidthsOf(Top.acc.op), v \in Word :
                 stk' = [stk EXCEPT ![Len(stk)] = [Top EXCEPT !.at = at, !.w = w, !.val = v]]
           /\ Good(stk') /\ \A codes : OnStack(codes, stk') <=> OnStack(codes, stk)
<1>1. PICK w \in WidthsOf(Top.acc.op) :
          stk' = [stk EXCEPT ![Len(stk)] = [@ EXCEPT
                    !.at  = at,
                    !.w   = w,
                    !.val = CASE Top.acc.op = "stw" -> gpr.rt
                              [] Top.acc.op \in {"sth", "sthu"} -> gpr.rt % W
                              [] OTHER -> 0]]
  BY DEF Decoded
<1> DEFINE v == CASE Top.acc.op = "stw" -> gpr.rt
                  [] Top.acc.op \in {"sth", "sthu"} -> gpr.rt % W
                  [] OTHER -> 0
           f == [Top EXCEPT !.at = at, !.w = w, !.val = v]
<1>2. gpr.rt \in Word /\ gpr.rt % W \in Word /\ 0 \in Word
  BY LowFits, Sizes DEF TrapsInv, TypeOK, Regs, Word
<1>3. v \in Word
  BY <1>2
<1>4. w \in Widths
  BY <1>1 DEF WidthsOf, Widths
<1>5. Top \in Frames /\ Good(stk) /\ Top = Last(stk) /\ Top = stk[Len(stk)]
  BY TopFacts
<1>6. stk' = [stk EXCEPT ![Len(stk)] = f]
  BY <1>1, <1>5
<1> HIDE DEF v
<1>7. f \in Frames /\ f.sig = Top.sig /\ f.code = Top.code /\ f.at = at
  BY <1>3, <1>4, <1>5 DEF Frames
<1>8. \E x \in WidthsOf(Top.acc.op), y \in Word :
          stk' = [stk EXCEPT ![Len(stk)] = [Top EXCEPT !.at = at, !.w = x, !.val = y]]
  BY <1>3, <1>6
<1> HIDE DEF f
<1>9. f.at \in Steps(f.code)
  BY <1>7 DEF Steps
<1>10. Good(stk') /\ \A codes : OnStack(codes, stk') <=> OnStack(codes, stk)
  BY <1>5, <1>6, <1>7, <1>9, Moved
<1> QED
  BY <1>8, <1>10

LEMMA SegvFetchKeeps ==
    ASSUME TrapsInv, SegvFetch
    PROVE  TrapsInv'
<1>1. Top.code = "segv" /\ {"out", "device"} \subseteq Steps(Top.code)
  BY DEF SegvFetch, At, Steps
<1>2. fatal \in BOOLEAN /\ doomed \in BOOLEAN
  BY DEF TrapsInv, TypeOK
<1>3. CASE proc' = "killed" /\ UNCHANGED <<stk, fatal, doomed>>
  BY <1>3 DEF SegvFetch, TrapsInv, TypeOK, DoomedInv, machine
<1>4. CASE fatal' = TRUE /\ doomed' = TRUE /\ Goto("out") /\ UNCHANGED proc
  <2>1. StackOK(stk') /\ StackInv(stk') /\ DoomedInv' /\ doomed' \in BOOLEAN
    BY <1>1, <1>2, <1>4, Onward
  <2> QED
    BY <1>4, <2>1 DEF SegvFetch, TrapsInv, TypeOK, machine
<1>5. CASE fatal' = TRUE /\ doomed' = TRUE /\ Decoded("out") /\ UNCHANGED proc
  <2>1. Good(stk') /\ \A codes : OnStack(codes, stk') <=> OnStack(codes, stk)
    BY <1>1, <1>5, DecodedFrame
  <2>2. OnStack({"segv", "ill"}, stk')
    BY <1>1, <2>1, OnTop
  <2> QED
    BY <1>5, <2>1, <2>2 DEF SegvFetch, TrapsInv, TypeOK, DoomedInv, Good, machine
<1>6. CASE Decoded("device") /\ UNCHANGED <<proc, fatal, doomed>>
  <2>1. Good(stk') /\ \A codes : OnStack(codes, stk') <=> OnStack(codes, stk)
    BY <1>1, <1>6, DecodedFrame
  <2> QED
    BY <1>6, <2>1 DEF SegvFetch, TrapsInv, TypeOK, DoomedInv, Good, machine
<1> QED
  BY <1>3, <1>4, <1>5, <1>6 DEF SegvFetch

LEMMA SegvDeviceKeeps ==
    ASSUME TrapsInv, SegvDevice
    PROVE  TrapsInv'
<1>1. Top.code = "segv" /\ "out" \in Steps(Top.code)
  BY DEF SegvDevice, At, Steps
<1>2. /\ fatal \in BOOLEAN /\ doomed \in BOOLEAN /\ dev \in [Storage -> Word]
      /\ gpr \in Regs /\ want \in Regs
  BY DEF TrapsInv, TypeOK
<1>3. Top \in Frames /\ Good(stk) /\ Top = Last(stk) /\ Top = stk[Len(stk)]
  BY TopFacts
<1>4. Top.val \in Word /\ Top.w \in Widths
  BY <1>3 DEF Frames
<1> DEFINE O == IF Top.acc.type = "write" THEN Write(dev, Top.acc.at, Top.val, Top.w, hostType)
                                          ELSE Read(dev, Top.acc.at, Top.w, hostType)
<1>5. O \subseteq Outcome
  BY <1>2, <1>4, AccessOutcome
<1>6. PICK o \in O :
          IF o.fault
          THEN proc' = "killed" /\ UNCHANGED <<stk, fatal, dev, gpr, history>>
          ELSE /\ stk' = [stk EXCEPT ![Len(stk)] = [@ EXCEPT !.at = "out", !.val = o.val]]
               /\ dev' = o.dev
               /\ fatal' = (fatal \/ o.fatal)
               /\ doomed' = (doomed \/ o.fatal)
               /\ IF GuestTrapped
                  THEN /\ gpr' = Stepped(gpr, Top.acc.op)
                       /\ want' = [rt |-> IF Top.acc.type = "read" THEN Extended(Top.acc.op, o.val)
                                                                   ELSE want.rt,
                                   ra |-> IF Top.acc.op = "sthu" THEN 1 - want.ra ELSE want.ra,
                                   pc |-> 1 - want.pc]
                  ELSE UNCHANGED <<gpr, want>>
               /\ UNCHANGED proc
  BY DEF SegvDevice
<1> HIDE DEF O
<1>7. o.val \in Word /\ o.dev \in [Storage -> Word] /\ o.fatal \in BOOLEAN /\ o.fault \in BOOLEAN
  BY <1>5, <1>6 DEF Outcome
<1>8. CASE o.fault
  BY <1>6, <1>8 DEF SegvDevice, TrapsInv, TypeOK, DoomedInv, machine, history
<1>9. CASE ~o.fault
  <2> DEFINE f == [Top EXCEPT !.at = "out", !.val = o.val]
  <2>1. stk' = [stk EXCEPT ![Len(stk)] = f]
    BY <1>3, <1>6, <1>9
  <2>2. f \in Frames /\ f.sig = Top.sig /\ f.code = Top.code /\ f.at = "out"
    BY <1>3, <1>7 DEF Frames
  <2> HIDE DEF f
  <2>3. Good(stk') /\ \A codes : OnStack(codes, stk') <=> OnStack(codes, stk)
    BY <1>1, <1>3, <2>1, <2>2, Moved
  <2>4. UNCHANGED proc /\ dev' = o.dev /\ fatal' = (fatal \/ o.fatal) /\ doomed' = (doomed \/ o.fatal)
    BY <1>6, <1>9
  <2>5. DoomedInv'
    BY <1>1, <2>3, <2>4, OnTop DEF TrapsInv, DoomedInv
  <2>6. gpr' \in Regs /\ want' \in Regs
    <3>1. CASE GuestTrapped
      <4>1. gpr' \in Regs
        <5>1. gpr' = Stepped(gpr, Top.acc.op)
          BY <1>6, <1>9, <3>1
        <5>2. \A op : Stepped(gpr, op) \in Regs
          BY <1>2, Registers
        <5> QED
          BY <5>1, <5>2
      <4>2. want.rt \in Word /\ Extended(Top.acc.op, o.val) \in Word
        BY <1>2, <1>7, ExtendedFits DEF Regs
      <4>3. want' \in Regs
        BY <1>2, <1>6, <1>9, <3>1, <4>2, Registers
      <4> QED
        BY <4>1, <4>3
    <3>2. CASE ~GuestTrapped
      BY <1>2, <1>6, <1>9, <3>2
    <3> QED
      BY <3>1, <3>2
  <2> QED
    BY <1>2, <1>7, <2>3, <2>4, <2>5, <2>6 DEF SegvDevice, TrapsInv, TypeOK, Good, machine
<1> QED
  BY <1>7, <1>8, <1>9

LEMMA SegvOutKeeps ==
    ASSUME TrapsInv, SegvOut
    PROVE  TrapsInv'
<1>1. Top.code = "segv" /\ ReturnOrBailOut /\ UNCHANGED <<machine, proc, errors, dev, dec, iram, doomed>>
  BY DEF SegvOut, At
<1>2. Good(stk') /\ DoomedInv'
  BY <1>1, Returned DEF errors
<1>3. gpr \in Regs /\ want \in Regs /\ Top \in Frames
  BY TopFacts DEF TrapsInv, TypeOK
<1>4. gpr' \in Regs
  <2>1. WriteBack(gpr, Top) \in Regs
    BY <1>3, WriteBackFits
  <2>2. Astray(gpr) \subseteq Regs
    BY <1>3, Sizes DEF Astray, Regs
  <2> QED
    BY <1>3, <2>1, <2>2 DEF SegvOut
<1>5. want' \in Regs
  <2>1. gpr'.rt \in Word
    BY <1>4 DEF Regs
  <2> QED
    BY <1>3, <2>1, Registers DEF SegvOut
<1> QED
  BY <1>1, <1>2, <1>4, <1>5 DEF TrapsInv, TypeOK, Good, errors, machine

LEMMA SegvStrayKeeps ==
    ASSUME TrapsInv, SegvStray
    PROVE  TrapsInv'
BY DEF SegvStray, TrapsInv, TypeOK, DoomedInv, machine, errors, history

LEMMA Raised ==
    ASSUME NEW f \in BOOLEAN, NEW g, g \in {f, TRUE}
    PROVE  g \in BOOLEAN /\ (f => g) /\ (g = f \/ g = TRUE)
BY Zenon

LEMMA IllKeeps ==
    ASSUME TrapsInv, IllEntry \/ IllEmulate \/ IllFixups \/ IllOut
    PROVE  TrapsInv'
<1>1. Top.code = "ill" /\ {"emulate", "fixups", "out", "exit", "hang"} \subseteq Steps(Top.code)
  BY DEF IllEntry, IllEmulate, IllFixups, IllOut, At, Steps
<1>2. fatal \in BOOLEAN /\ doomed \in BOOLEAN /\ gpr \in Regs /\ want \in Regs /\ dec \in Nat
  BY DEF TrapsInv, TypeOK
<1>3. CASE IllEntry
  <2>1. /\ StackOK(stk') /\ StackInv(stk') /\ DoomedInv' /\ doomed' \in BOOLEAN
        /\ fatal' \in BOOLEAN /\ borked' \in BOOLEAN
    BY <1>1, <1>3, Proceeded DEF IllEntry
  <2> QED
    BY <1>3, <2>1 DEF IllEntry, TrapsInv, TypeOK, machine
<1>4. CASE IllEmulate
  <2>1. PICK at \in Steps(Top.code) : Goto(at)
    BY <1>1, <1>4 DEF IllEmulate
  <2>2. Advance(gpr) \in Regs /\ [want EXCEPT !.pc = 1 - @] \in Regs
    BY <1>2, Registers
  <2>3. dec' \in Nat /\ gpr' \in Regs /\ want' \in Regs
    BY <1>2, <1>4, <2>2, TrapsAssumption DEF IllEmulate
  <2>4. fatal' \in BOOLEAN /\ (fatal => fatal') /\ (doomed' = doomed \/ (doomed' = TRUE /\ fatal'))
    <3>1. (UNCHANGED <<fatal, doomed>>) \/ (fatal' = TRUE /\ doomed' = TRUE)
      BY <1>4 DEF IllEmulate
    <3> QED
      BY <1>2, <3>1
  <2>5. StackOK(stk') /\ StackInv(stk') /\ DoomedInv' /\ doomed' \in BOOLEAN
    BY <1>1, <1>4, <2>1, <2>4, Onward DEF IllEmulate
  <2> QED
    BY <1>4, <2>3, <2>4, <2>5 DEF IllEmulate, TrapsInv, TypeOK, machine
<1>5. CASE IllFixups
  <2>1. fatal' \in BOOLEAN /\ (fatal => fatal') /\ (doomed' = doomed \/ (doomed' = TRUE /\ fatal'))
    <3>1. fatal' \in {fatal, TRUE} /\ doomed' = (doomed \/ fatal' # fatal)
      BY <1>5 DEF IllFixups
    <3>2. fatal' \in BOOLEAN /\ (fatal => fatal') /\ (fatal' = fatal \/ fatal' = TRUE)
      BY <1>2, <3>1, Raised
    <3>3. CASE fatal' = fatal
      BY <1>2, <3>1, <3>3
    <3>4. CASE fatal' = TRUE
      BY <1>2, <3>1, <3>4
    <3> QED
      BY <3>2, <3>3, <3>4
  <2>2. StackOK(stk') /\ StackInv(stk') /\ DoomedInv' /\ doomed' \in BOOLEAN
    BY <1>1, <1>5, <2>1, Onward DEF IllFixups
  <2> QED
    BY <1>5, <2>1, <2>2 DEF IllFixups, TrapsInv, TypeOK, machine
<1>6. CASE IllOut
  <2>1. Good(stk') /\ DoomedInv'
    BY <1>1, <1>6, Returned DEF IllOut, errors, history
  <2> QED
    BY <1>6, <2>1 DEF IllOut, TrapsInv, TypeOK, Good, machine, errors, history
<1> QED
  BY <1>3, <1>4, <1>5, <1>6

LEMMA AlrmKeeps ==
    ASSUME TrapsInv, AlrmStep
    PROVE  TrapsInv'
<1>1. Top.code = "alrm" /\ {"copy", "dec"} \subseteq Steps(Top.code)
  BY DEF AlrmStep, AlrmDsp, AlrmCopy, AlrmDec, At, Steps
<1>2. fatal \in BOOLEAN /\ doomed \in BOOLEAN /\ dec \in Nat
  BY DEF TrapsInv, TypeOK
<1>3. CASE AlrmDsp
  <2>1. PICK at \in Steps(Top.code) : Goto(at)
    BY <1>1, <1>3 DEF AlrmDsp
  <2>2. fatal' \in BOOLEAN /\ (fatal => fatal') /\ iram' \in {"whole", "torn"}
    <3>1. fatal' = fatal \/ fatal' \in {fatal, TRUE}
      BY <1>3 DEF AlrmDsp
    <3>2. iram' \in {"whole", "torn"}
      BY <1>3 DEF AlrmDsp, TrapsInv, TypeOK
    <3> QED
      BY <1>2, <3>1, <3>2, Raised
  <2>3. StackOK(stk') /\ StackInv(stk') /\ DoomedInv' /\ doomed' \in BOOLEAN
    BY <1>3, <2>1, <2>2, Onward DEF AlrmDsp, history
  <2> QED
    BY <1>3, <2>2, <2>3 DEF AlrmDsp, TrapsInv, TypeOK, machine, history
<1>4. CASE AlrmCopy
  <2>1. StackOK(stk') /\ StackInv(stk') /\ DoomedInv' /\ doomed' \in BOOLEAN
    BY <1>1, <1>2, <1>4, Onward DEF AlrmCopy, errors, history
  <2> QED
    BY <1>4, <2>1 DEF AlrmCopy, TrapsInv, TypeOK, machine, errors, history
<1>5. CASE AlrmDec
  <2>1. DecStep[consoleType] \in Nat
    BY TrapsAssumption DEF TrapsInv, TypeOK
  <2>2. dec' \in Nat
    BY <1>2, <1>5, <2>1 DEF AlrmDec, DecHook
  <2>3. Good(stk) /\ Last(stk).code = "alrm" /\ stk' = Front(stk)
    BY <1>1, <1>5, TopFacts DEF AlrmDec, Return
  <2>4. /\ Good(stk')
        /\ OnStack({"bail"}, stk) => OnStack({"bail"}, stk')
        /\ OnStack({"segv", "ill"}, stk) => OnStack({"segv", "ill"}, stk')
    BY <2>3, Popped DEF Handlers
  <2> QED
    BY <1>5, <2>2, <2>4 DEF AlrmDec, TrapsInv, TypeOK, DoomedInv, Good, machine, errors, history
<1> QED
  BY <1>3, <1>4, <1>5 DEF AlrmStep

LEMMA BailKeeps ==
    ASSUME TrapsInv, BailStart \/ BailPrint
    PROVE  TrapsInv'
<1>1. Top.code = "bail" /\ {"print", "exit"} \subseteq Steps(Top.code)
  BY DEF BailStart, BailPrint, At, Steps
<1>2. OnStack({"bail"}, stk)
  BY <1>1, OnTop
<1>3. PICK at \in Steps(Top.code) : Goto(at)
  BY <1>1 DEF BailStart, BailPrint
<1>4. Good(stk') /\ OnStack({"bail"}, stk')
  BY <1>2, <1>3, Went
<1>5. CASE BailStart
  <2>1. dev' \in [Storage -> Word] /\ gpr' \in Regs /\ want' \in Regs /\ dec' \in Nat
    BY <1>5, Sizes DEF BailStart, E_MMIO_Chipset_Init, Zeroed, Regs
  <2> QED
    BY <1>4, <1>5, <2>1 DEF BailStart, TrapsInv, TypeOK, DoomedInv, Good, machine
<1>6. CASE BailPrint
  BY <1>4, <1>6 DEF BailPrint, TrapsInv, TypeOK, DoomedInv, Good, machine, errors, history
<1> QED
  BY <1>5, <1>6

LEMMA ExitKeeps ==
    ASSUME TrapsInv, NEW code, Exit(code)
    PROVE  TrapsInv'
BY DEF Exit, TrapsInv, TypeOK, DoomedInv, machine, errors, history

LEMMA StillKeeps ==
    ASSUME TrapsInv, UNCHANGED vars
    PROVE  TrapsInv'
BY DEF vars, TrapsInv, TypeOK, DoomedInv, machine, errors, history

LEMMA NextKeeps == TrapsInv /\ [Next]_vars => TrapsInv'
<1> SUFFICES ASSUME TrapsInv, [Next]_vars PROVE TrapsInv'
  OBVIOUS
<1>1. CASE GuestAccess \/ GuestPrivileged
  BY <1>1, GuestKeeps
<1>2. CASE Alarm
  BY <1>2, AlarmKeeps
<1>3. CASE SegvStep
  BY <1>3, SegvEntryKeeps, SegvFetchKeeps, SegvDeviceKeeps, SegvOutKeeps, SegvStrayKeeps, ExitKeeps
     DEF SegvStep
<1>4. CASE IllStep
  BY <1>4, IllKeeps, ExitKeeps DEF IllStep
<1>5. CASE AlrmStep
  BY <1>5, AlrmKeeps
<1>6. CASE BailStep
  BY <1>6, BailKeeps, ExitKeeps DEF BailStep
<1>7. CASE OwnFault
  <2>1. PICK a \in OwnAccesses : Fault(a)
    BY <1>7 DEF OwnFault
  <2> QED
    BY <2>1, OwnFaulted
<1>8. CASE UNCHANGED vars
  BY <1>8, StillKeeps
<1> QED
  BY <1>1, <1>2, <1>3, <1>4, <1>5, <1>6, <1>7, <1>8 DEF Next

LEMMA DoomedNotGuest == TrapsInv => FatalIsFinal
<1> SUFFICES ASSUME TrapsInv, doomed, GuestRuns PROVE FALSE
  BY DEF FatalIsFinal
<1>1. Good(stk) /\ Last(stk).code = "guest" /\ proc = "alive"
  BY TopFacts DEF GuestRuns, At
<1>2. ~OnStack({"bail"}, stk) /\ ~OnStack({"segv", "ill"}, stk)
  BY <1>1, GuestAlone
<1> QED
  BY <1>1, <1>2 DEF TrapsInv, DoomedInv

LEMMA Invariant == Spec => []TrapsInv
<1> QED
  BY InitInv, NextKeeps, PTL DEF Spec

-----------------------------------------------------------------------------
(* The copy of the DSP's program: the frame that makes it, or a bail-out,  *)
(* stays on the stack.                                                     *)

LEMMA TornPushed ==
    ASSUME TrapsInv, NEW f, stk' = Append(stk, f), Torn(stk)
    PROVE  Torn(stk')
<1>1. Len(stk) \in Nat /\ DOMAIN stk = 1 .. Len(stk) /\ stk \in Seq(Frames)
  BY TopFacts, Grounded
<1>2. DOMAIN stk' = 1 .. Len(stk) + 1 /\ \A i \in 1 .. Len(stk) : stk'[i] = stk[i]
  BY <1>1
<1> QED
  BY <1>1, <1>2 DEF Torn

LEMMA TornBelow ==
    ASSUME TrapsInv, NEW f, stk' = [stk EXCEPT ![Len(stk)] = f],
           Top.code \in {"segv", "ill"} \/ f.code = "bail", Torn(stk)
    PROVE  Torn(stk')
<1>1. Top = stk[Len(stk)] /\ Len(stk) \in DOMAIN stk
  BY TopFacts, Grounded
<1>2. DOMAIN stk' = DOMAIN stk /\ stk'[Len(stk)] = f /\ \A i \in DOMAIN stk : i # Len(stk) => stk'[i] = stk[i]
  BY <1>1
<1> QED
  BY <1>1, <1>2 DEF Torn

LEMMA TornReturned ==
    ASSUME TrapsInv, Return, Top.code \in Handlers, Top.code # "alrm" \/ Top.at # "copy", Torn(stk)
    PROVE  Torn(stk')
<1>1. Good(stk) /\ Top = Last(stk) /\ Top = stk[Len(stk)]
  BY TopFacts
<1>2. stk' \in Seq(Frames) /\ Len(stk') = Len(stk) - 1 /\ \A i \in 1 .. Len(stk) - 1 : stk'[i] = stk[i]
  BY <1>1, Interrupts DEF Return
<1>3. Len(stk) \in Nat /\ DOMAIN stk = 1 .. Len(stk) /\ DOMAIN stk' = 1 .. Len(stk) - 1
  BY <1>1, <1>2, Grounded
<1>4. PICK i \in DOMAIN stk : stk[i].code = "bail" \/ (stk[i].code = "alrm" /\ stk[i].at = "copy")
  BY DEF Torn
<1>5. i # Len(stk)
  BY <1>1, <1>4 DEF Handlers
<1>6. i \in DOMAIN stk' /\ stk'[i] = stk[i]
  BY <1>2, <1>3, <1>5
<1> QED
  BY <1>4, <1>6 DEF Torn

LEMMA TornBailedOut ==
    ASSUME TrapsInv, BailOut, Top.code \in {"segv", "ill"}
    PROVE  Torn(stk')
<1>1. Good(stk) /\ Top = Last(stk)
  BY TopFacts
<1>2. OnStack({"bail"}, stk')
  BY <1>1, BailedOut DEF BailOut, ReturnTo
<1> QED
  BY <1>2 DEF OnStack, Torn

(* Both handlers leave the frame below them, or turn it into the bail-out. *)
LEMMA HandlersKeepTorn ==
    ASSUME TrapsInv, Top.code \in {"segv", "ill"}, SegvStep \/ IllStep, Torn(stk)
    PROVE  Torn(stk')
<1>1. ASSUME NEW at, Goto(at) PROVE \E f : stk' = [stk EXCEPT ![Len(stk)] = f]
  BY <1>1 DEF Goto
<1>2. SegvEntry \/ IllEntry \/ IllEmulate \/ IllFixups => \E at : Goto(at)
  BY DEF SegvEntry, IllEntry, IllEmulate, IllFixups, Proceed
<1>3. SegvFetch => stk' = stk \/ \E f : stk' = [stk EXCEPT ![Len(stk)] = f]
  BY <1>1 DEF SegvFetch, Decoded
<1>4. SegvDevice => stk' = stk \/ \E f : stk' = [stk EXCEPT ![Len(stk)] = f]
  BY DEF SegvDevice
<1>5. (SegvStray => stk' = stk) /\ \A code : Exit(code) => stk' = stk
  BY DEF Exit, SegvStray
<1>6. SegvOut \/ IllOut => Return \/ BailOut
  BY DEF SegvOut, IllOut, ReturnOrBailOut
<1>7. CASE \E f : stk' = [stk EXCEPT ![Len(stk)] = f]
  BY <1>7, TornBelow
<1>8. CASE stk' = stk
  BY <1>8 DEF Torn
<1>9. CASE Return
  <2>1. Top.code \in Handlers /\ Top.code # "alrm"
    BY DEF Handlers
  <2> QED
    BY <1>9, <2>1, TornReturned
<1>10. CASE BailOut
  BY <1>10, TornBailedOut
<1> QED
  BY <1>1, <1>2, <1>3, <1>4, <1>5, <1>6, <1>7, <1>8, <1>9, <1>10 DEF SegvStep, IllStep

LEMMA NextKeepsTorn == TrapsInv /\ TornInv /\ [Next]_vars => TornInv'
<1> SUFFICES ASSUME TrapsInv, TornInv, [Next]_vars, iram' = "torn", proc' = "alive" PROVE Torn(stk')
  BY DEF TornInv
<1>1. Top = stk[Len(stk)] /\ Len(stk) \in DOMAIN stk
  BY TopFacts, Grounded
<1>2. CASE GuestAccess \/ GuestPrivileged \/ Alarm
  <2>1. Torn(stk)
    BY <1>2 DEF GuestAccess, GuestPrivileged, Alarm, history, GuestRuns, At, TornInv
  <2>2. \E f : stk' = Append(stk, f)
    BY <1>2 DEF GuestAccess, GuestPrivileged, Alarm
  <2> QED
    BY <2>1, <2>2, TornPushed
<1>3. CASE SegvStep \/ IllStep
  <2>1. Top.code \in {"segv", "ill"} /\ proc = "alive" /\ iram' = iram
    BY <1>3 DEF SegvStep, SegvEntry, SegvFetch, SegvDevice, SegvOut, SegvStray, IllStep, IllEntry, IllEmulate,
        IllFixups, IllOut, Exit, At, history
  <2> QED
    BY <1>3, <2>1, HandlersKeepTorn DEF TornInv
<1>4. CASE AlrmDsp
  <2>1. CASE Goto("dec") /\ UNCHANGED iram
    <3>1. iram = "torn" /\ proc = "alive" /\ Top.code = "alrm" /\ Top.at # "copy"
      BY <1>4, <2>1, <1>1 DEF AlrmDsp, At, Goto
    <3> QED
      BY <1>1, <2>1, <3>1 DEF TornInv, Torn, Goto
  <2>2. CASE Goto("copy")
    <3>1. stk'[Len(stk)].code = "alrm" /\ stk'[Len(stk)].at = "copy" /\ Len(stk) \in DOMAIN stk'
      BY <1>1, <1>4, <2>2, TopFacts DEF AlrmDsp, At, Goto, Frames
    <3> QED
      BY <3>1 DEF Torn
  <2> QED
    BY <1>4, <2>1, <2>2 DEF AlrmDsp
<1>5. CASE AlrmCopy
  BY <1>5 DEF AlrmCopy
<1>6. CASE AlrmDec
  <2>1. Torn(stk) /\ Return /\ Top.code \in Handlers /\ Top.at # "copy"
    BY <1>6 DEF AlrmDec, At, TornInv, history, Handlers
  <2> QED
    BY <2>1, TornReturned
<1>7. CASE BailStart \/ BailPrint
  <2>1. \E at : Goto(at)
    BY <1>7 DEF BailStart, BailPrint
  <2>2. Top.code = "bail"
    BY <1>7 DEF BailStart, BailPrint, At
  <2>3. Len(stk) \in DOMAIN stk' /\ stk'[Len(stk)].code = "bail"
    BY <1>1, <2>1, <2>2, TopFacts DEF Goto, Frames
  <2> QED
    BY <2>3 DEF Torn
<1>8. CASE Exit("bail")
  BY <1>8 DEF Exit
<1>9. CASE OwnFault
  <2>1. PICK a \in OwnAccesses : Fault(a)
    BY <1>9 DEF OwnFault
  <2>2. proc = "alive"
    BY <1>9 DEF OwnFault, At
  <2>3. \E f : stk' = Append(stk, f)
    BY <2>1, <2>2 DEF Fault
  <2>4. Torn(stk)
    BY <2>1, <2>2 DEF Fault, TornInv
  <2> QED
    BY <2>3, <2>4, TornPushed
<1>10. CASE UNCHANGED vars
  BY <1>10 DEF vars, TornInv
<1> QED
  BY <1>2, <1>3, <1>4, <1>5, <1>6, <1>7, <1>8, <1>9, <1>10 DEF Next, AlrmStep, BailStep

LEMMA TornNotGuest == TrapsInv /\ TornInv => SeedWhole
<1> SUFFICES ASSUME TrapsInv, TornInv, GuestRuns, iram # "whole" PROVE FALSE
  BY DEF SeedWhole
<1>1. Good(stk) /\ Last(stk).code = "guest" /\ proc = "alive"
  BY TopFacts DEF GuestRuns, At
<1>2. iram = "torn"
  BY DEF TrapsInv, TypeOK
<1>3. PICK i \in DOMAIN stk : stk[i].code = "bail" \/ stk[i].code = "alrm"
  BY <1>1, <1>2 DEF TornInv, Torn
<1>4. stk[i].sig = "none" /\ stk[i].code # "bail"
  BY <1>1, <1>3, GuestAlone DEF OnStack
<1> QED
  BY <1>1, <1>3, <1>4 DEF Good, StackInv

(* The decrementer rises only where the guest's mtspr sets it. *)
LEMMA DecFalls == TrapsInv /\ [Next]_vars => [dec' <= dec \/ At("ill", "emulate")]_vars
<1> SUFFICES ASSUME TrapsInv, [Next]_vars, ~At("ill", "emulate") PROVE dec' <= dec
  OBVIOUS
<1>1. dec \in Nat /\ DecStep[consoleType] \in Nat
  BY TrapsAssumption DEF TrapsInv, TypeOK
<1>2. CASE AlrmDec
  BY <1>1, <1>2 DEF AlrmDec, DecHook
<1>3. CASE BailStart
  BY <1>1, <1>3 DEF BailStart
<1>4. CASE UNCHANGED dec
  BY <1>1, <1>4
<1>5. ~AlrmDec /\ ~BailStart => UNCHANGED dec
  BY DEF Next, GuestAccess, GuestPrivileged, Alarm, SegvStep, SegvEntry, SegvFetch, SegvDevice, SegvOut, SegvStray,
      IllStep, IllEntry, IllEmulate, IllFixups, IllOut, AlrmStep, AlrmDsp, AlrmCopy, BailStep, BailPrint,
      Exit, OwnFault, Fault, vars
<1> QED
  BY <1>2, <1>3, <1>4, <1>5

-----------------------------------------------------------------------------
(* The stack of signals is always one the kernel can have built: every     *)
(* signal at most once, the guest's thread at the bottom, every frame at a *)
(* step of its code, and words in all registers, for every set of accesses *)
(* and values (emu.c, timer.c).                                            *)
THEOREM TypeCorrect == Spec => []TypeOK
<1>1. TrapsInv => TypeOK
  BY DEF TrapsInv
<1> QED
  BY <1>1, Invariant, PTL

(* Once a trap has met a fatal error the guest never runs again, with the  *)
(* timer and faults of the emulator's own code anywhere in between, and    *)
(* with the flag overwritten by the bail-out (emu.c:299, :447, :301).      *)
THEOREM FatalIsFinalHolds == Spec => []FatalIsFinal
BY Invariant, DoomedNotGuest, PTL

(* The guest never runs with the DSP's program half copied: the frame that *)
(* copies stays on the stack until it is done, under whatever its fault    *)
(* starts, or becomes the bail-out (mmio/dsp.c:58).                        *)
THEOREM SeedWholeHolds == Spec => []SeedWhole
<1>1. Init => TornInv
  BY DEF Init, TornInv
<1> QED
  BY <1>1, Invariant, NextKeepsTorn, TornNotGuest, PTL DEF Spec

(* Only the guest's own write raises the decrementer: the hook's step, of  *)
(* any size, stops at zero (cpu/init.c:25).                                *)
THEOREM DecrementerFallsHolds == Spec => DecrementerFalls
BY Invariant, DecFalls, PTL DEF Spec, DecrementerFalls
=============================================================================
