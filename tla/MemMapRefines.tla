--------------------------- MODULE MemMapRefines ---------------------------
(***************************************************************************)
(* MemMap implements GuestMemory for guests that switch with rfi and write *)
(* BATs in real mode: a handler's steps are hidden behind a trap that has  *)
(* no view, and its last one shows the guest what its mode and BATs say.   *)
(***************************************************************************)
EXTENDS MemMapModes

(* The view of the guest, as the refinement mapping has it. *)
View == [a \in Granule |-> IF pc = "guest" THEN space[a] ELSE "none"]

(* The abstract BATs are the registers. *)
LEMMA BatsAgree ==
    ASSUME TypeOK
    PROVE  /\ G!BatsUsed = 0 .. MaxBat - 1
           /\ \A s \in Side, i \in BatIdx : G!InUse(s, i) <=> ~Empty(s, i)
           /\ \A s \in Side, i \in BatIdx : G!Physical(Lower(s, i).addr) = MemOf(s, i)
<1>1. G!BatsUsed = 0 .. MaxBat - 1
  BY DEF G!BatsUsed, MaxBat
<1>2. ASSUME NEW s \in Side, NEW i \in BatIdx PROVE G!InUse(s, i) <=> ~Empty(s, i)
  <2>1. Upper(s, i) \in BatReg /\ Lower(s, i) \in BatReg
    BY DEF TypeOK, CpuTypeOK, Upper, Lower, Half
  <2>2. \A r \in BatReg : r = Zero <=> r.addr = 0 /\ ~r.bits
    BY DEF BatReg, Zero
  <2> QED
    BY <2>1, <2>2 DEF G!InUse, Empty, Upper, Lower
<1>3. ASSUME NEW s \in Side, NEW i \in BatIdx
      PROVE  G!Physical(Lower(s, i).addr) = MemOf(s, i)
  BY DEF G!Physical, MemOf
<1> QED
  BY <1>1, <1>2, <1>3

LEMMA ContestAgrees ==
    ASSUME TypeOK, NEW a \in Granule
    PROVE  G!Contested(a) <=> Conflict(a)
<1>1. \A i \in 0 .. MaxBat - 1 : i \in BatIdx
  BY MaxBatType, NumLowAssumption DEF BatIdx
<1>2. ASSUME G!Contested(a) PROVE Conflict(a)
  <2>1. PICK s, t \in {"I", "D"}, i, j \in G!BatsUsed :
           /\ G!InUse(s, i) /\ bat[s]["U"][i].addr = a
           /\ G!InUse(t, j) /\ bat[t]["U"][j].addr = a
           /\ G!Physical(bat[s]["L"][i].addr) # G!Physical(bat[t]["L"][j].addr)
    BY <1>2 DEF G!Contested
  <2>2. s \in Side /\ t \in Side /\ i \in 0 .. MaxBat - 1 /\ j \in 0 .. MaxBat - 1
    BY BatsAgree DEF Side
  <2> QED
    BY <1>1, <2>1, <2>2, BatsAgree DEF Conflict, Upper, Lower
<1>3. ASSUME Conflict(a) PROVE G!Contested(a)
  <2>1. PICK s, t \in Side, i, j \in 0 .. MaxBat - 1 :
           /\ ~Empty(s, i) /\ Upper(s, i).addr = a
           /\ ~Empty(t, j) /\ Upper(t, j).addr = a
           /\ MemOf(s, i) # MemOf(t, j)
    BY <1>3 DEF Conflict
  <2>2. s \in {"I", "D"} /\ t \in {"I", "D"} /\ i \in G!BatsUsed /\ j \in G!BatsUsed
    BY BatsAgree DEF Side
  <2>3. G!Physical(Lower(s, i).addr) # G!Physical(Lower(t, j).addr)
    BY <1>1, <2>1, BatsAgree
  <2>4. G!InUse(s, i) /\ G!InUse(t, j)
    BY <1>1, <2>1, BatsAgree
  <2> QED
    BY <2>1, <2>2, <2>3, <2>4 DEF G!Contested, Upper, Lower
<1> QED
  BY <1>2, <1>3

(* What the mode properties say of a guest that runs is the promise. *)
LEMMA PromiseKept ==
    TypeOK /\ RealModeIsPhysical /\ OnlyWhatBatsSay /\ DbatsHonoured /\ Running
        => G!Promised(View)
<1> SUFFICES ASSUME TypeOK, RealModeIsPhysical, OnlyWhatBatsSay, DbatsHonoured, Running
             PROVE  G!Promised(View)
  OBVIOUS
<1>0. /\ View = space
      /\ \A i \in 0 .. MaxBat - 1 : i \in BatIdx
  BY MaxBatType, NumLowAssumption DEF View, Running, TypeOK, MapTypeOK, BatIdx
<1>1. ASSUME ~Translating(msr), NEW a \in G!Address
      PROVE  space[a] = G!Physical(a)
  BY <1>1 DEF G!Address, Granule, G!Physical, RealModeIsPhysical
<1>2. ASSUME Translating(msr), NEW a \in G!Address, space[a] # "none"
      PROVE  \E s \in {"I", "D"}, i \in G!BatsUsed : G!Claims(s, i, a, space[a])
  <2>1. PICK s \in Side, i \in 0 .. MaxBat - 1 :
           ~Empty(s, i) /\ Upper(s, i).addr = a /\ MemOf(s, i) = space[a]
    BY <1>2 DEF G!Address, Granule, OnlyWhatBatsSay
  <2>2. G!Claims(s, i, a, space[a])
    BY <1>0, <2>1, BatsAgree DEF G!Claims, Upper, Lower
  <2> QED
    BY <2>1, <2>2, BatsAgree DEF Side
<1>3. ASSUME Translating(msr), NEW i \in G!BatsUsed, G!InUse("D", i),
             Upper("D", i).addr < Limit, ~G!Contested(Upper("D", i).addr)
      PROVE  space[Upper("D", i).addr] = G!Physical(Lower("D", i).addr)
  <2>1. i \in 0 .. MaxBat - 1 /\ i \in BatIdx /\ "D" \in Side
    BY <1>0, BatsAgree DEF Side
  <2>2. Upper("D", i).addr \in Granule
    BY <2>1 DEF TypeOK, CpuTypeOK, Upper, Half, BatReg
  <2>3. ~Empty("D", i) /\ ~Conflict(Upper("D", i).addr)
    BY <1>3, <2>1, <2>2, BatsAgree, ContestAgrees
  <2>4. DbatHonoured(i)
    BY <1>3, <2>1 DEF DbatsHonoured
  <2> QED
    BY <1>3, <2>1, <2>3, <2>4, BatsAgree DEF DbatHonoured
<1> QED
  BY <1>0, <1>1, <1>2, <1>3 DEF G!Promised, G!Limit, Limit, Upper, Lower

-----------------------------------------------------------------------------
(* What one instruction of the guest does: it writes a BAT in real mode,   *)
(* asks for an update, or leaves mode and BATs as they are.                *)
LEMMA EmulateEffect ==
    ASSUME TypeOK, RfiSwitches, RealModeBats, Emulate
    PROVE  \/ needsMemMapUpdate' /\ (G!WriteBat \/ G!Switch)
           \/ UNCHANGED bat /\ (Translating(msr') <=> Translating(msr))
<1>1. ASSUME NEW w \in BatWrites, ~Translating(msr), MtsprBat(w)
      PROVE  needsMemMapUpdate' /\ (G!WriteBat \/ G!Switch)
  <2>0. w.side \in Side /\ w.half \in Half /\ w.i \in BatIdx
    BY BatWritesAssumption DEF BatWrite
  <2>1. CASE UNCHANGED bat
    BY <1>1, <2>1 DEF MtsprBat, G!Switch, Translating
  <2>2. CASE bat' = [bat EXCEPT ![w.side][w.half][w.i] = w.val]
    <3>1. bat'[w.side][w.half][w.i] = w.val
      BY <2>0, <2>2 DEF TypeOK, CpuTypeOK
    <3>2. bat' = [bat EXCEPT ![w.side][w.half][w.i] = bat'[w.side][w.half][w.i]]
      BY <2>2, <3>1
    <3>3. w.i \in 0 .. 2 * NumLow - 1 /\ w.side \in {"I", "D"} /\ w.half \in {"U", "L"}
      BY <2>0 DEF BatIdx, Side, Half
    <3>4. UNCHANGED Translating(msr)
      BY <1>1 DEF MtsprBat, Translating
    <3>5. G!WriteBat
      BY <1>1, <3>2, <3>3, <3>4 DEF G!WriteBat
    <3> QED
      BY <1>1, <3>5 DEF MtsprBat
  <2> QED
    BY <1>1, <2>1, <2>2 DEF MtsprBat
<1>2. ASSUME Rfi PROVE needsMemMapUpdate' /\ G!Switch
  BY <1>2 DEF Rfi, G!Switch, Translating, TypeOK, CpuTypeOK, Srr1
<1>3. ASSUME NEW val \in MsrVals, val.ir = msr.ir, val.dr = msr.dr, Mtmsr(val)
      PROVE  UNCHANGED bat /\ (Translating(msr') <=> Translating(msr))
  BY <1>3 DEF Mtmsr, Translating
<1>4. ASSUME \/ \E val \in Srr1 : MtsprSrr1(val)
             \/ \E low \in BOOLEAN : MtsprHid0(low)
             \/ \E val \in BOOLEAN : MtsprHid4(val)
             \/ MfsprHigh
             \/ Refused
             \/ Stored
      PROVE  UNCHANGED <<bat, msr>>
  BY <1>4 DEF MtsprSrr1, MtsprHid0, MtsprHid4, MfsprHigh, Refused, Stored, cpuVars
<1> QED
  BY <1>1, <1>2, <1>3, <1>4 DEF Emulate, Translating

(* A trap is a step of the guest, or nothing it could see, or its end. *)
LEMMA TrapRefines ==
    ASSUME TypeOK, TypeOK', RfiSwitches, RealModeBats, Trap
    PROVE  [G!Next]_(G!vars)
<1>1. /\ UNCHANGED <<space, consoleType>>
      /\ pc = "guest" /\ pc' \in {"guest", "fixups", "bail"}
      /\ needsMemMapUpdate' <=> pc' = "fixups"
  BY TrapEffect DEF Trap
<1>2. Translating(msr) \in BOOLEAN /\ Translating(msr') \in BOOLEAN
  BY DEF TypeOK, CpuTypeOK, Msr, Translating
<1>3. CASE pc' = "fixups"
  <2>1. G!WriteBat \/ G!Switch
    BY <1>1, <1>2, <1>3, EmulateEffect DEF Trap, G!Switch
  <2>2. View' = G!Nothing
    BY <1>3 DEF View, G!Nothing, G!Address, Granule
  <2>3. G!Trap
    BY <1>1, <1>3, <2>1, <2>2 DEF G!Trap, View
  <2> QED
    BY <2>3 DEF G!Next
<1>4. CASE pc' = "guest"
  <2>1. UNCHANGED bat /\ (Translating(msr') <=> Translating(msr))
    BY <1>1, <1>4, EmulateEffect DEF Trap
  <2>2. UNCHANGED View
    BY <1>1, <1>4 DEF View
  <2> QED
    BY <1>1, <1>2, <1>4, <2>1, <2>2 DEF G!vars, View
<1>5. CASE pc' = "bail"
  <2>1. UNCHANGED bat /\ (Translating(msr') <=> Translating(msr))
    BY <1>1, <1>5, EmulateEffect DEF Trap
  <2>2. View' = G!Nothing
    BY <1>5 DEF View, G!Nothing, G!Address, Granule
  <2>3. G!Stop
    BY <1>1, <1>2, <1>5, <2>1, <2>2 DEF G!Stop, View
  <2> QED
    BY <2>3 DEF G!Next
<1> QED
  BY <1>1, <1>3, <1>4, <1>5

(* A step of the handler is hidden unless it is the last. *)
LEMMA HandlerRefines ==
    ASSUME TypeOK, TypeOK', Handler,
           RealModeIsPhysical', OnlyWhatBatsSay', DbatsHonoured'
    PROVE  [G!Next]_(G!vars)
<1>1. UNCHANGED <<consoleType, bat, msr>>
  BY DEF Handler, Fixups, PhysMem1, PhysMem2, ReloadI, ReloadD, MapPhysical, Keep
<1>2. pc \notin {"guest", "bail"} /\ View = G!Nothing
  BY DEF Handler, Fixups, PhysMem1, PhysMem2, ReloadI, ReloadD, View, G!Nothing,
         G!Address, Granule
<1>3. CASE pc' = "guest"
  <2>0. Running'
    BY <1>3 DEF Running
  <2>1. G!Promised(View)'
    BY <2>0, PromiseKept, PTL
  <2>2. G!Promised(View')
    <3>1. G!BatsUsed' = G!BatsUsed /\ (Translating(msr)' <=> Translating(msr))
      BY <1>1 DEF G!BatsUsed, Translating
    <3>2. \A p : G!Physical(p)' = G!Physical(p)
      BY <1>1 DEF G!Physical
    <3>3. \A s, i : G!InUse(s, i)' <=> G!InUse(s, i)
      BY <1>1 DEF G!InUse
    <3>4. \A s, i, a, m : G!Claims(s, i, a, m)' <=> G!Claims(s, i, a, m)
      BY <1>1, <3>2, <3>3 DEF G!Claims
    <3>5. \A a : G!Contested(a)' <=> G!Contested(a)
      BY <1>1, <3>1, <3>2, <3>3 DEF G!Contested
    <3> QED
      BY <1>1, <2>1, <3>1, <3>2, <3>3, <3>4, <3>5 DEF G!Promised, G!Address, G!Limit
  <2>3. G!Resume
    BY <1>1, <1>2, <1>3, <2>2 DEF G!Resume, View, Translating
  <2> QED
    BY <2>3 DEF G!Next
<1>4. CASE pc' # "guest"
  <2>1. View' = G!Nothing
    BY <1>4 DEF View, G!Nothing, G!Address, Granule
  <2>2. CASE pc' = "bail"
    BY <1>1, <1>2, <2>1, <2>2 DEF G!Next, G!Stop, View, Translating
  <2>3. CASE pc' # "bail"
    BY <1>1, <1>2, <1>4, <2>1, <2>3 DEF G!vars, View, Translating
  <2> QED
    BY <2>2, <2>3
<1> QED
  BY <1>3, <1>4

(* mem.c keeps what GuestMemory promises: between traps nothing changes    *)
(* what the guest sees, a trap changes its mode or one BAT, and the guest  *)
(* resumes with the memory these say, or never.                            *)
THEOREM ImplementsGuestMemoryHolds ==
    ASSUME RfiSwitches, RealModeBats
    PROVE  Spec => ImplementsGuestMemory
<1> DEFINE Good == TypeOK /\ RealModeIsPhysical /\ OnlyWhatBatsSay /\ DbatsHonoured
<1>1. Init => G!Init
  BY DEF Init, CpuInit, G!Init, Translating, G!Nothing, G!Address, Granule
<1>2. Good /\ Good' /\ [Next]_vars => [G!Next]_(G!vars)
  <2> SUFFICES ASSUME Good, Good', [Next]_vars PROVE [G!Next]_(G!vars)
    OBVIOUS
  <2>1. CASE Trap
    BY <2>1, TrapRefines
  <2>2. CASE Handler
    BY <2>2, HandlerRefines
  <2>3. CASE UNCHANGED vars
    BY <2>3 DEF vars, cpuVars, mapVars, G!vars, Translating
  <2> QED
    BY <2>1, <2>2, <2>3 DEF Next
<1>3. Spec => []Good
  BY TypeCorrect, RealModeIsPhysicalHolds, OnlyWhatBatsSayHolds, DbatsHonouredHolds, PTL
<1> QED
  BY <1>1, <1>2, <1>3, PTL DEF Spec, ImplementsGuestMemory, G!Spec
=============================================================================
