---------------------------- MODULE MemMapProofs ----------------------------
(* Theorems about MemMap for any number of BATs and any guest. *)
EXTENDS MemMap, TLAPS

USE NumLowAssumption, MsrValsAssumption, BatWritesAssumption, GuestAssumption

-----------------------------------------------------------------------------
(* Types.                                                                  *)

(* The default BATs are BATs: E_MemInit writes whole registers. *)
LEMMA DefaultBatType ==
    ASSUME NEW console
    PROVE  DefaultBat(console) \in [Side -> [Half -> [BatIdx -> BatReg]]]
<1> DEFINE wii == console = "WII"
           upperI == [i \in BatIdx |-> CASE i = 0 -> Reg(8)
                                         [] i = NumLow /\ wii -> Reg(9)
                                         [] OTHER -> Zero]
           upperD == [i \in BatIdx |-> CASE i = 1 -> Reg(12)
                                         [] i = NumLow + 1 /\ wii -> Reg(13)
                                         [] OTHER -> upperI[i]]
           lower(upper) == [i \in BatIdx |->
                               IF upper[i] = Zero THEN Zero
                               ELSE IF i < NumLow THEN Reg(0) ELSE Reg(1)]
           upper(s) == IF s = "I" THEN upperI ELSE upperD
<1>1. Zero \in BatReg /\ \A a \in Granule : Reg(a) \in BatReg
  BY DEF Zero, Reg, BatReg, Granule
<1>2. upperI \in [BatIdx -> BatReg]
  BY <1>1 DEF Granule
<1>3. upperD \in [BatIdx -> BatReg]
  BY <1>1, <1>2 DEF Granule
<1>4. \A u : lower(u) \in [BatIdx -> BatReg]
  BY <1>1 DEF Granule
<1>5. DefaultBat(console) = [s \in Side |-> [h \in Half |->
                                IF h = "U" THEN upper(s) ELSE lower(upper(s))]]
  BY DEF DefaultBat
<1> HIDE DEF lower, upperI, upperD
<1> QED
  BY <1>2, <1>3, <1>4, <1>5

(* A write to one register leaves a register file. *)
LEMMA BatUpdateType ==
    ASSUME NEW f \in [Side -> [Half -> [BatIdx -> BatReg]]],
           NEW s \in Side, NEW h \in Half, NEW i \in BatIdx, NEW v \in BatReg
    PROVE  [f EXCEPT ![s][h][i] = v] \in [Side -> [Half -> [BatIdx -> BatReg]]]
<1>1. [f[s][h] EXCEPT ![i] = v] \in [BatIdx -> BatReg]
  OBVIOUS
<1>2. [f[s] EXCEPT ![h] = [f[s][h] EXCEPT ![i] = v]] \in [Half -> [BatIdx -> BatReg]]
  BY <1>1
<1> QED
  BY <1>2

(* The same of the tables. *)
LEMMA MapUpdateType ==
    ASSUME NEW f \in [Mem -> [Side -> [BatIdx -> Entry]]],
           NEW m \in Mem, NEW s \in Side, NEW i \in BatIdx, NEW v \in Entry
    PROVE  [f EXCEPT ![m][s][i] = v] \in [Mem -> [Side -> [BatIdx -> Entry]]]
<1>1. [f[m][s] EXCEPT ![i] = v] \in [BatIdx -> Entry]
  OBVIOUS
<1>2. [f[m] EXCEPT ![s] = [f[m][s] EXCEPT ![i] = v]] \in [Side -> [BatIdx -> Entry]]
  BY <1>1
<1> QED
  BY <1>2

LEMMA InitType == Init => TypeOK
<1> SUFFICES ASSUME Init PROVE TypeOK
  OBVIOUS
<1>1. CpuTypeOK
  <2>1. bat \in [Side -> [Half -> [BatIdx -> BatReg]]]
    BY DefaultBatType DEF Init, CpuInit
  <2> QED
    BY <2>1 DEF Init, CpuInit, CpuTypeOK, Msr, Srr1
<1>2. MapTypeOK
  <2>1. map \in [Mem -> [Side -> [BatIdx -> Entry]]]
    BY DEF Init, Entry, Null, Granule
  <2>2. oldMsr \in Msr
    BY <1>1 DEF Init, CpuTypeOK
  <2>3. idx \in BatIdx
    BY DEF Init, BatIdx
  <2> QED
    BY <2>1, <2>2, <2>3 DEF Init, MapTypeOK, PC
<1> QED
  BY <1>1, <1>2 DEF TypeOK
(* Each instruction leaves the registers well-typed. *)
LEMMA EmulateType ==
    ASSUME CpuTypeOK, Emulate
    PROVE  CpuTypeOK'
<1> USE DEF CpuTypeOK
<1>1. ASSUME NEW w \in BatWrites, MtsprBat(w) PROVE CpuTypeOK'
  <2>1. w \in BatWrite
    BY BatWritesAssumption
  <2>2. w.side \in Side /\ w.half \in Half /\ w.i \in BatIdx /\ w.val \in BatReg
    BY <2>1 DEF BatWrite
  <2>3. [bat EXCEPT ![w.side][w.half][w.i] = w.val]
            \in [Side -> [Half -> [BatIdx -> BatReg]]]
    BY <2>2, BatUpdateType
  <2>4. bat' \in [Side -> [Half -> [BatIdx -> BatReg]]]
    BY <1>1, <2>3 DEF MtsprBat
  <2>5. fatalError' \in BOOLEAN
    BY <1>1 DEF MtsprBat
  <2> QED
    BY <1>1, <2>4, <2>5 DEF MtsprBat
<1>2. ASSUME NEW val \in Srr1, MtsprSrr1(val) PROVE CpuTypeOK'
  BY <1>2 DEF MtsprSrr1
<1>3. ASSUME NEW low \in BOOLEAN, MtsprHid0(low) PROVE CpuTypeOK'
  BY <1>3 DEF MtsprHid0
<1>4. ASSUME NEW val \in BOOLEAN, MtsprHid4(val) PROVE CpuTypeOK'
  BY <1>4 DEF MtsprHid4
<1>5. ASSUME NEW val \in MsrVals, Mtmsr(val) PROVE CpuTypeOK'
  BY <1>5, MsrValsAssumption DEF Mtmsr
<1>6. CASE Rfi
  BY <1>6 DEF Rfi, Msr, Srr1
<1>7. CASE MfsprHigh
  BY <1>7 DEF MfsprHigh
<1>8. CASE Refused
  BY <1>8 DEF Refused
<1>9. CASE Stored
  BY <1>9 DEF Stored, cpuVars
<1> QED
  BY <1>1, <1>2, <1>3, <1>4, <1>5, <1>6, <1>7, <1>8, <1>9 DEF Emulate

(* The locals and the place a handler goes to next. *)
LEMMA ReturnType == TypeOK /\ Return =>
    pc' \in PC /\ idx' \in BatIdx /\ vaddr' \in Granule \cup {Failed, Junk} /\ oldMsr' \in Msr
BY DEF TypeOK, CpuTypeOK, Return, PC, BatIdx

LEMMA NextBatType ==
    ASSUME TypeOK, NEW a \in Granule \cup {Failed, Junk}, NextBat(a)
    PROVE  pc' \in PC /\ idx' \in BatIdx /\ vaddr' \in Granule \cup {Failed, Junk} /\ oldMsr' \in Msr
<1>1. CASE idx + 1 < MaxBat
  BY <1>1 DEF NextBat, TypeOK, MapTypeOK, MaxBat, PC, BatIdx
<1>2. CASE ~(idx + 1 < MaxBat)
  BY <1>2, ReturnType DEF NextBat
<1> QED
  BY <1>1, <1>2

LEMMA UnmapAllType == TypeOK /\ UnmapAll =>
    map' \in [Mem -> [Side -> [BatIdx -> Entry]]] /\ space' \in [Granule -> Mem \cup {"none"}]
BY DEF TypeOK, MapTypeOK, UnmapAll, Entry

(* What a step of mmap does to the tables and to the address space. *)
LEMMA MapBatType ==
    ASSUME TypeOK, NEW s \in Side, MemOf(s, idx) # "none",
           NEW a \in Granule, NEW ok \in BOOLEAN, NEW fatal \in BOOLEAN, MapBat(s, a, ok, fatal)
    PROVE  /\ map' \in [Mem -> [Side -> [BatIdx -> Entry]]]
           /\ space' \in [Granule -> Mem \cup {"none"}]
           /\ fatalError' \in BOOLEAN
<1>1. MemOf(s, idx) \in Mem
  BY DEF MemOf, Mem
<1>2. map' \in [Mem -> [Side -> [BatIdx -> Entry]]]
  BY <1>1, MapUpdateType DEF MapBat, TypeOK, MapTypeOK, Entry
<1>3. space' \in [Granule -> Mem \cup {"none"}]
  BY <1>1 DEF MapBat, Mmap, TypeOK, MapTypeOK
<1> QED
  BY <1>2, <1>3 DEF MapBat

LEMMA MapPhysicalType ==
    ASSUME TypeOK, NEW m \in Mem, NEW a \in Granule, NEW ok \in BOOLEAN, MapPhysical(m, a, ok)
    PROVE  /\ map' \in [Mem -> [Side -> [BatIdx -> Entry]]]
           /\ space' \in [Granule -> Mem \cup {"none"}]
           /\ CpuTypeOK'
<1> DEFINE v == IF ok THEN a ELSE Failed
<1>1. v \in Entry /\ 0 \in BatIdx /\ "I" \in Side /\ "D" \in Side
  BY DEF Entry, BatIdx, Side
<1>2. [map EXCEPT ![m]["I"][0] = v] \in [Mem -> [Side -> [BatIdx -> Entry]]]
  BY <1>1, MapUpdateType DEF TypeOK, MapTypeOK
<1>3. map' \in [Mem -> [Side -> [BatIdx -> Entry]]]
  BY <1>1, <1>2, MapUpdateType DEF MapPhysical
<1>4. space' \in [Granule -> Mem \cup {"none"}]
  BY DEF MapPhysical, Mmap, TypeOK, MapTypeOK
<1>5. CpuTypeOK'
  BY DEF MapPhysical, Keep, TypeOK, CpuTypeOK
<1> QED
  BY <1>3, <1>4, <1>5

LEMMA NextType == TypeOK /\ [Next]_vars => TypeOK'
<1> SUFFICES ASSUME TypeOK, [Next]_vars PROVE TypeOK'
  OBVIOUS
<1>1. CASE Trap
  <2>1. CpuTypeOK'
    BY <1>1, EmulateType DEF Trap, TypeOK
  <2>2. pc' \in PC /\ oldMsr' \in Msr
    BY <1>1, <2>1 DEF Trap, TypeOK, CpuTypeOK, PC
  <2> QED
    BY <1>1, <2>1, <2>2 DEF Trap, TypeOK, MapTypeOK, mapVars
<1>2. CASE Fixups
  <2>1. CpuTypeOK'
    BY <1>2 DEF Fixups, Keep, Die, TypeOK, CpuTypeOK
  <2>2. map' \in [Mem -> [Side -> [BatIdx -> Entry]]] /\ space' \in [Granule -> Mem \cup {"none"}]
    BY <1>2, UnmapAllType DEF Fixups, TypeOK, MapTypeOK, mapVars
  <2>3. CASE Return
    BY <2>1, <2>2, <2>3, ReturnType DEF TypeOK, MapTypeOK
  <2>4. CASE StartReload
    BY <2>1, <2>2, <2>4 DEF StartReload, TypeOK, MapTypeOK, PC, BatIdx
  <2>5. CASE Goto("physMem1")
    BY <2>1, <2>2, <2>5 DEF Goto, locals, TypeOK, MapTypeOK, PC
  <2> QED
    BY <1>2, <2>3, <2>4, <2>5 DEF Fixups, Die
<1>3. CASE PhysMem1
  <2>1. PICK ok \in BOOLEAN : /\ MapPhysical("MEM1", 0, ok)
                              /\ IF ok /\ consoleType = "WII" THEN Goto("physMem2") ELSE Return
    BY <1>3 DEF PhysMem1
  <2>2. /\ map' \in [Mem -> [Side -> [BatIdx -> Entry]]]
        /\ space' \in [Granule -> Mem \cup {"none"}]
        /\ CpuTypeOK'
    BY <2>1, MapPhysicalType DEF Mem, Granule
  <2>3. CASE Return
    BY <2>2, <2>3, ReturnType DEF TypeOK, MapTypeOK
  <2>4. CASE Goto("physMem2")
    BY <2>2, <2>4 DEF Goto, locals, TypeOK, MapTypeOK, PC
  <2> QED
    BY <2>1, <2>3, <2>4
<1>4. CASE PhysMem2
  <2>1. PICK ok \in BOOLEAN : MapPhysical("MEM2", 1, ok)
    BY <1>4 DEF PhysMem2
  <2>2. /\ map' \in [Mem -> [Side -> [BatIdx -> Entry]]]
        /\ space' \in [Granule -> Mem \cup {"none"}]
        /\ CpuTypeOK'
    BY <2>1, MapPhysicalType DEF Mem, Granule
  <2>3. Return
    BY <1>4 DEF PhysMem2
  <2> QED
    BY <2>2, <2>3, ReturnType DEF TypeOK, MapTypeOK
<1>5. CASE ReloadI
  <2> DEFINE a == Upper("I", idx).addr
  <2>1. a \in Granule
    BY DEF Upper, TypeOK, CpuTypeOK, MapTypeOK, Side, Half, BatReg
  <2>2. CASE Goto("reloadD") /\ UNCHANGED <<mapVars, fatalError>>
    BY <1>5, <2>2 DEF ReloadI, Keep, Goto, locals, mapVars, TypeOK, CpuTypeOK, MapTypeOK, PC
  <2>3. CASE Die /\ UNCHANGED mapVars
    BY <1>5, <2>3, ReturnType DEF ReloadI, Keep, Die, mapVars, TypeOK, CpuTypeOK, MapTypeOK
  <2>4. ASSUME MemOf("I", idx) # "none",
               NEW ok \in BOOLEAN, NEW fatal \in BOOLEAN, MapBat("I", a, ok, fatal),
               IF fatal THEN Return ELSE pc' = "reloadD" /\ vaddr' = a /\ UNCHANGED <<idx, oldMsr>>
        PROVE  TypeOK'
    <3>1. /\ map' \in [Mem -> [Side -> [BatIdx -> Entry]]]
          /\ space' \in [Granule -> Mem \cup {"none"}]
          /\ fatalError' \in BOOLEAN
      BY <2>1, <2>4, MapBatType DEF Side
    <3>2. CpuTypeOK'
      BY <1>5, <3>1 DEF ReloadI, Keep, TypeOK, CpuTypeOK
    <3>3. CASE Return
      BY <3>1, <3>2, <3>3, ReturnType DEF TypeOK, MapTypeOK
    <3>4. CASE pc' = "reloadD" /\ vaddr' = a /\ UNCHANGED <<idx, oldMsr>>
      BY <2>1, <3>1, <3>2, <3>4 DEF TypeOK, MapTypeOK, PC
    <3> QED
      BY <2>4, <3>3, <3>4
  <2> QED
    BY <1>5, <2>2, <2>3, <2>4 DEF ReloadI
<1>6. CASE ReloadD
  <2> DEFINE a == Upper("D", idx).addr
  <2>1. a \in Granule
    BY DEF Upper, TypeOK, CpuTypeOK, MapTypeOK, Side, Half, BatReg
  <2>2. ASSUME NEW v \in Granule \cup {Failed, Junk}, NextBat(v), UNCHANGED <<mapVars, fatalError>>
        PROVE  TypeOK'
    BY <1>6, <2>2, NextBatType DEF ReloadD, Keep, mapVars, TypeOK, CpuTypeOK, MapTypeOK
  <2>3. CASE Die /\ UNCHANGED mapVars
    BY <1>6, <2>3, ReturnType DEF ReloadD, Keep, Die, mapVars, TypeOK, CpuTypeOK, MapTypeOK
  <2>4. ASSUME MemOf("D", idx) # "none",
               NEW ok \in BOOLEAN, NEW fatal \in BOOLEAN, MapBat("D", a, ok, fatal),
               IF fatal THEN Return ELSE NextBat(a)
        PROVE  TypeOK'
    <3>1. /\ map' \in [Mem -> [Side -> [BatIdx -> Entry]]]
          /\ space' \in [Granule -> Mem \cup {"none"}]
          /\ fatalError' \in BOOLEAN
      BY <2>1, <2>4, MapBatType DEF Side
    <3>2. CpuTypeOK'
      BY <1>6, <3>1 DEF ReloadD, Keep, TypeOK, CpuTypeOK
    <3>3. pc' \in PC /\ idx' \in BatIdx /\ vaddr' \in Granule \cup {Failed, Junk} /\ oldMsr' \in Msr
      BY <2>1, <2>4, ReturnType, NextBatType
    <3> QED
      BY <3>1, <3>2, <3>3 DEF TypeOK, MapTypeOK
  <2>5. vaddr \in Granule \cup {Failed, Junk}
    BY DEF TypeOK, MapTypeOK
  <2> QED
    BY <1>6, <2>1, <2>2, <2>3, <2>4, <2>5 DEF ReloadD
<1>7. CASE UNCHANGED vars
  BY <1>7 DEF vars, cpuVars, mapVars, locals, TypeOK, CpuTypeOK, MapTypeOK, MaxBat
<1> QED
  BY <1>1, <1>2, <1>3, <1>4, <1>5, <1>6, <1>7 DEF Next, Handler

(* The registers, the tables and the handler's locals keep their types,    *)
(* for any number of BATs and any guest: in particular an index of the     *)
(* reload loop never leaves the BATs (mem.c, E_MemReloadMap).              *)
THEOREM TypeCorrect == Spec => []TypeOK
<1>1. Init => TypeOK
  BY InitType
<1>2. TypeOK /\ [Next]_vars => TypeOK'
  BY NextType
<1> QED
  BY <1>1, <1>2, PTL DEF Spec
-----------------------------------------------------------------------------
(* Nothing pending.                                                        *)

(* Only E_MemMapFixups sees the update flag raised, and the MSR is legal   *)
(* unless the error has been recorded.                                     *)
PendingInv ==
    /\ ~fatalError => MsrLegal(msr, lowPower)
    /\ pc = "guest" => ~fatalError
    /\ pc # "fixups" => ~needsMemMapUpdate

LEMMA PendingNext == TypeOK /\ PendingInv /\ [Next]_vars => PendingInv'
<1> SUFFICES ASSUME TypeOK, PendingInv, [Next]_vars PROVE PendingInv'
  OBVIOUS
<1> USE DEF PendingInv
<1>1. CASE Trap
  <2>1. ~fatalError /\ ~needsMemMapUpdate /\ MsrLegal(msr, lowPower)
    BY <1>1 DEF Trap
  <2>2. ~fatalError' => MsrLegal(msr', lowPower')
    <3>1. ASSUME NEW w \in BatWrites, MtsprBat(w) PROVE MsrLegal(msr', lowPower')
      BY <2>1, <3>1 DEF MtsprBat
    <3>2. ASSUME NEW val \in Srr1, MtsprSrr1(val) PROVE MsrLegal(msr', lowPower')
      BY <2>1, <3>2 DEF MtsprSrr1
    <3>3. ASSUME NEW low \in BOOLEAN, MtsprHid0(low), ~fatalError' PROVE MsrLegal(msr', lowPower')
      BY <2>1, <3>3 DEF MtsprHid0, MsrLegal
    <3>4. ASSUME NEW val \in BOOLEAN, MtsprHid4(val) PROVE MsrLegal(msr', lowPower')
      BY <2>1, <3>4 DEF MtsprHid4
    <3>5. ASSUME NEW val \in MsrVals, Mtmsr(val), ~fatalError' PROVE MsrLegal(msr', lowPower')
      BY <3>5 DEF Mtmsr
    <3>6. ASSUME Rfi, ~fatalError' PROVE MsrLegal(msr', lowPower')
      BY <3>6 DEF Rfi
    <3>7. ASSUME MfsprHigh \/ Refused \/ Stored PROVE MsrLegal(msr', lowPower')
      BY <2>1, <3>7 DEF MfsprHigh, Refused, Stored, cpuVars
    <3> QED
      BY <1>1, <3>1, <3>2, <3>3, <3>4, <3>5, <3>6, <3>7 DEF Trap, Emulate
  <2>3. needsMemMapUpdate' => pc' = "fixups"
    BY <1>1 DEF Trap
  <2>4. pc' = "guest" => ~fatalError'
    BY <1>1 DEF Trap
  <2> QED
    BY <2>2, <2>3, <2>4
<1>2. CASE Handler
  <2>1. UNCHANGED <<msr, lowPower>> /\ ~needsMemMapUpdate'
    <3>1. CASE Fixups
      BY <3>1 DEF Fixups, Keep
    <3>2. CASE PhysMem1 \/ PhysMem2
      <4>1. UNCHANGED <<msr, lowPower, needsMemMapUpdate>>
        BY <3>2 DEF PhysMem1, PhysMem2, MapPhysical, Keep
      <4>2. pc # "fixups"
        BY <3>2 DEF PhysMem1, PhysMem2
      <4> QED
        BY <4>1, <4>2
    <3>3. CASE ReloadI \/ ReloadD
      BY <3>3 DEF ReloadI, ReloadD, Keep
    <3> QED
      BY <1>2, <3>1, <3>2, <3>3 DEF Handler
  <2>2. fatalError => fatalError'
    <3>1. CASE Fixups
      BY <3>1 DEF Fixups, Die
    <3>2. CASE PhysMem1 \/ PhysMem2
      BY <3>2 DEF PhysMem1, PhysMem2, MapPhysical
    <3>3. CASE ReloadI
      BY <3>3 DEF ReloadI, Die, MapBat
    <3>4. CASE ReloadD
      BY <3>4 DEF ReloadD, Die, MapBat
    <3> QED
      BY <1>2, <3>1, <3>2, <3>3, <3>4 DEF Handler
  <2>3. pc' = "guest" => ~fatalError'
    BY <1>2 DEF Handler, Fixups, PhysMem1, PhysMem2, ReloadI, ReloadD, Return, Die, Goto, NextBat, StartReload
  <2> QED
    BY <2>1, <2>2, <2>3
<1>3. CASE UNCHANGED vars
  BY <1>3 DEF vars, cpuVars
<1> QED
  BY <1>1, <1>2, <1>3 DEF Next

(* Whenever the guest runs, its MSR is one E_PPC_Validate_MSR accepts, no  *)
(* fatal error is recorded and no update of the memory map is outstanding. *)
THEOREM NothingPendingHolds == Spec => []NothingPending
<1>1. Init => PendingInv
  BY DEF Init, CpuInit, PendingInv, MsrLegal
<1>2. TypeOK /\ PendingInv /\ [Next]_vars => PendingInv'
  BY PendingNext
<1>3. PendingInv => NothingPending
  BY DEF PendingInv, NothingPending, Running
<1> QED
  BY <1>1, <1>2, <1>3, TypeCorrect, PTL DEF Spec

-----------------------------------------------------------------------------
(* The tables and the address space.                                       *)

(* The entries of the BATs a console does not have are never set. *)
TrackedInv ==
    /\ TrackedIsMapped
    /\ \A mem \in Mem, s \in Side, j \in BatIdx : j >= MaxBat => map[mem][s][j] = Null

LEMMA MaxBatType == TypeOK => MaxBat \in Nat /\ 0 < MaxBat /\ MaxBat <= 2 * NumLow
BY DEF TypeOK, CpuTypeOK, MaxBat

(* One entry changes to an address that is mapped at the same time. *)
LEMMA TrackedUpdate ==
    ASSUME TypeOK, TrackedInv, UNCHANGED consoleType,
           NEW m \in Mem, NEW s \in Side, NEW i \in BatIdx, i < MaxBat,
           NEW a \in Granule, NEW v, map' = [map EXCEPT ![m][s][i] = v],
           \/ v = Failed /\ UNCHANGED space
           \/ v = a /\ space' = [space EXCEPT ![a] = m]
    PROVE  TrackedInv'
<1>1. \A n \in Mem, t \in Side, j \in BatIdx :
          map'[n][t][j] = IF n = m /\ t = s /\ j = i THEN v ELSE map[n][t][j]
  BY DEF TypeOK, MapTypeOK
<1>2. \A b \in Granule : space'[b] = IF v # Failed /\ b = a THEN m ELSE space[b]
  BY DEF TypeOK, MapTypeOK, Granule, Failed
<1>3. m # "none" /\ MaxBat' = MaxBat
  BY DEF Mem, MaxBat
<1>4. \A n \in Mem, t \in Side, j \in BatIdx : map[n][t][j] \in Entry
  BY DEF TypeOK, MapTypeOK
<1>5. TrackedIsMapped'
  <2> SUFFICES ASSUME NEW n \in Mem, NEW t \in Side, NEW j \in BatIdx,
                      map'[n][t][j] \notin {Failed, Null}
               PROVE  space'[map'[n][t][j]] # "none"
    BY DEF TrackedIsMapped
  <2>1. CASE n = m /\ t = s /\ j = i
    BY <1>1, <1>2, <1>3, <2>1
  <2>2. CASE ~(n = m /\ t = s /\ j = i)
    <3>1. map'[n][t][j] = map[n][t][j] /\ space[map[n][t][j]] # "none"
      BY <1>1, <2>2 DEF TrackedInv, TrackedIsMapped
    <3>2. map[n][t][j] \in Granule
      BY <1>4, <3>1 DEF Entry
    <3> QED
      BY <1>2, <1>3, <3>1, <3>2
  <2> QED
    BY <2>1, <2>2
<1>6. \A n \in Mem, t \in Side, j \in BatIdx : j >= MaxBat' => map'[n][t][j] = Null
  BY <1>1, <1>3, MaxBatType DEF TrackedInv, BatIdx
<1> QED
  BY <1>5, <1>6 DEF TrackedInv

LEMMA TrackedUnmap ==
    ASSUME TypeOK, TrackedInv, UNCHANGED consoleType, UnmapAll
    PROVE  TrackedInv'
<1>1. MaxBat' = MaxBat
  BY DEF MaxBat
<1>2. \A n \in Mem, t \in Side, j \in BatIdx :
          map'[n][t][j] = IF j < MaxBat THEN Failed ELSE Null
  BY MaxBatType DEF UnmapAll, TrackedInv, BatIdx
<1> QED
  BY <1>1, <1>2, MaxBatType DEF TrackedInv, TrackedIsMapped, BatIdx

(* No instruction changes the console; no handler step changes the MSR.    *)
LEMMA ConsoleFrame == [Next]_vars => UNCHANGED consoleType
<1>1. Trap => UNCHANGED consoleType
  BY DEF Trap, Emulate, MtsprBat, MtsprSrr1, MtsprHid0, MtsprHid4, Mtmsr, Rfi,
      MfsprHigh, Refused, Stored, cpuVars
<1>2. Handler => UNCHANGED consoleType
  BY DEF Handler, Fixups, PhysMem1, PhysMem2, ReloadI, ReloadD, MapPhysical, Keep
<1> QED
  BY <1>1, <1>2 DEF Next, vars, cpuVars

LEMMA HandlerFrame == Handler => UNCHANGED <<consoleType, msr, bat>>
BY DEF Handler, Fixups, PhysMem1, PhysMem2, ReloadI, ReloadD, MapPhysical, Keep

(* Where MapBat maps. *)
LEMMA BatTarget ==
    ASSUME TypeOK, NEW s \in Side, MemOf(s, idx) # "none"
    PROVE  MemOf(s, idx) \in Mem /\ Upper(s, idx).addr \in Granule /\ idx \in BatIdx
BY DEF MemOf, Mem, Upper, TypeOK, MapTypeOK, CpuTypeOK, Half, BatReg

LEMMA TrackedFrame ==
    TrackedInv /\ UNCHANGED <<map, space, consoleType>> => TrackedInv'
BY DEF TrackedInv, TrackedIsMapped, MaxBat

LEMMA TrackedPhysical ==
    ASSUME TypeOK, TrackedInv, NEW m \in Mem, NEW a \in Granule, NEW ok \in BOOLEAN,
           MapPhysical(m, a, ok)
    PROVE  TrackedInv'
<1> DEFINE v == IF ok THEN a ELSE Failed
           half == [map EXCEPT ![m]["I"][0] = v]
<1>1. map' = [half EXCEPT ![m]["D"][0] = v] /\ UNCHANGED consoleType /\ Mmap(m, a, ok)
  BY DEF MapPhysical, Keep
<1>2. v \in Entry /\ 0 \in BatIdx /\ 0 < MaxBat /\ m # "none"
  BY MaxBatType DEF Entry, BatIdx, Mem
<1>3. \A n \in Mem, t \in Side, j \in BatIdx :
          map'[n][t][j] = IF n = m /\ j = 0 THEN v ELSE map[n][t][j]
  BY <1>1, <1>2 DEF TypeOK, MapTypeOK, Side
<1>4. \A b \in Granule : space'[b] = IF ok /\ b = a THEN m ELSE space[b]
  BY <1>1 DEF Mmap, TypeOK, MapTypeOK
<1>5. \A n \in Mem, t \in Side, j \in BatIdx : map[n][t][j] \in Granule \cup {Failed}
  BY DEF TypeOK, MapTypeOK, Entry
<1> HIDE DEF v
<1>6. TrackedIsMapped'
  <2> SUFFICES ASSUME NEW n \in Mem, NEW t \in Side, NEW j \in BatIdx,
                      map'[n][t][j] \notin {Failed, Null}
               PROVE  space'[map'[n][t][j]] # "none"
    BY DEF TrackedIsMapped
  <2>1. CASE n = m /\ j = 0
    BY <1>2, <1>3, <1>4, <2>1 DEF v
  <2>2. CASE ~(n = m /\ j = 0)
    <3>1. map'[n][t][j] = map[n][t][j] /\ space[map[n][t][j]] # "none"
      BY <1>3, <2>2 DEF TrackedInv, TrackedIsMapped
    <3> QED
      BY <1>2, <1>4, <1>5, <3>1
  <2> QED
    BY <2>1, <2>2
<1>7. \A n \in Mem, t \in Side, j \in BatIdx : j >= MaxBat' => map'[n][t][j] = Null
  <2>1. MaxBat' = MaxBat
    BY <1>1 DEF MaxBat
  <2> QED
    BY <1>2, <1>3, <2>1, MaxBatType DEF TrackedInv, BatIdx
<1> QED
  BY <1>6, <1>7 DEF TrackedInv

LEMMA TrackedNext == TypeOK /\ PlaceInv /\ TrackedInv /\ [Next]_vars => TrackedInv'
<1> SUFFICES ASSUME TypeOK, PlaceInv, TrackedInv, [Next]_vars PROVE TrackedInv'
  OBVIOUS
<1>1. UNCHANGED consoleType
  BY ConsoleFrame
<1>2. CASE UNCHANGED <<map, space>>
  BY <1>1, <1>2, TrackedFrame
<1>3. CASE UnmapAll
  BY <1>1, <1>3, TrackedUnmap
<1>4. CASE \E m \in Mem, a \in Granule, ok \in BOOLEAN : MapPhysical(m, a, ok)
  BY <1>4, TrackedPhysical
<1>5. ASSUME NEW s \in Side, MemOf(s, idx) # "none", NEW ok \in BOOLEAN, NEW fatal,
             MapBat(s, Upper(s, idx).addr, ok, fatal)
      PROVE  TrackedInv'
  <2> DEFINE m == MemOf(s, idx)
             a == Upper(s, idx).addr
             v == IF ok THEN a ELSE Failed
  <2>1. m \in Mem /\ a \in Granule /\ idx \in BatIdx /\ idx < MaxBat
    BY <1>5, BatTarget DEF PlaceInv
  <2>2. /\ map' = [map EXCEPT ![m][s][idx] = v]
        /\ \/ v = Failed /\ UNCHANGED space
           \/ v = a /\ space' = [space EXCEPT ![a] = m]
    BY <1>5 DEF MapBat, Mmap
  <2> HIDE DEF m, a, v
  <2> QED
    BY <1>1, <1>5, <2>1, <2>2, TrackedUpdate
<1>6. CASE Trap
  BY <1>2, <1>6 DEF Trap, mapVars
<1>7. CASE Fixups
  BY <1>2, <1>3, <1>7 DEF Fixups, mapVars
<1>8. CASE PhysMem1 \/ PhysMem2
  BY <1>4, <1>8 DEF PhysMem1, PhysMem2, Mem, Granule
<1>9. CASE ReloadI
  BY <1>2, <1>5, <1>9 DEF ReloadI, mapVars, Side
<1>10. CASE ReloadD
  BY <1>2, <1>5, <1>10 DEF ReloadD, mapVars, Side
<1>11. CASE UNCHANGED vars
  BY <1>2, <1>11 DEF vars, mapVars
<1> QED
  BY <1>6, <1>7, <1>8, <1>9, <1>10, <1>11 DEF Next, Handler

(* The handler's place agrees with the mode. *)
LEMMA PlaceNext == TypeOK /\ PlaceInv /\ [Next]_vars => PlaceInv'
<1> SUFFICES ASSUME TypeOK, PlaceInv, [Next]_vars PROVE PlaceInv'
  OBVIOUS
<1> USE DEF PlaceInv, MaxBat, Translating
<1>1. UNCHANGED consoleType
  BY ConsoleFrame
<1>2. CASE Trap
  BY <1>1, <1>2 DEF Trap
<1>3. ASSUME Handler, Return PROVE PlaceInv'
  BY <1>1, <1>3, MaxBatType DEF Return
<1>4. CASE Fixups
  <2>1. CASE Return
    BY <1>3, <1>4, <2>1 DEF Handler
  <2>2. CASE StartReload /\ Translating(msr)
    BY <1>1, <1>4, <2>2, HandlerFrame, MaxBatType DEF StartReload, Handler
  <2>3. CASE Goto("physMem1") /\ ~Translating(msr)
    BY <1>1, <1>4, <2>3, HandlerFrame DEF Goto, locals, Handler
  <2> QED
    BY <1>4, <2>1, <2>2, <2>3 DEF Fixups, Die
<1>5. CASE PhysMem1 \/ PhysMem2
  <2>1. CASE Return
    BY <1>3, <1>5, <2>1 DEF Handler
  <2>2. CASE Goto("physMem2") /\ consoleType = "WII" /\ pc = "physMem1"
    BY <1>1, <1>5, <2>2, HandlerFrame DEF Goto, locals, Handler
  <2> QED
    BY <1>5, <2>1, <2>2 DEF PhysMem1, PhysMem2
<1>6. CASE ReloadI
  <2>1. CASE Return
    BY <1>3, <1>6, <2>1 DEF Handler
  <2>2. CASE pc' = "reloadD" /\ UNCHANGED idx
    BY <1>1, <1>6, <2>2, HandlerFrame DEF ReloadI, Handler
  <2> QED
    BY <1>6, <2>1, <2>2 DEF ReloadI, Die, Goto, locals
<1>7. CASE ReloadD
  <2>1. CASE Return
    BY <1>3, <1>7, <2>1 DEF Handler
  <2>2. CASE pc' = "reloadI" /\ idx' < MaxBat
    BY <1>1, <1>7, <2>2, HandlerFrame DEF ReloadD, Handler
  <2> QED
    BY <1>7, <2>1, <2>2 DEF ReloadD, Die, NextBat
<1>8. CASE UNCHANGED vars
  BY <1>8 DEF vars, locals, cpuVars
<1> QED
  BY <1>2, <1>4, <1>5, <1>6, <1>7, <1>8 DEF Next, Handler

LEMMA PlaceInit == Init => PlaceInv
<1> SUFFICES ASSUME Init PROVE PlaceInv
  OBVIOUS
<1>1. 0 < MaxBat
  BY InitType, MaxBatType
<1> QED
  BY <1>1 DEF Init, PlaceInv

(* Every address in the tables (other than the null address) is mapped, so *)
(* E_MemMapFixups and E_Cleanup unmap only what is there, and the searches *)
(* of E_MemReloadMap find only mappings that exist -- for every guest, one *)
(* that rewrites BATs while it translates and one that uses mtmsr too.     *)
THEOREM TrackedIsMappedHolds == Spec => []TrackedIsMapped
<1>1. Init => TrackedInv
  BY DEF Init, TrackedInv, TrackedIsMapped
<1>2. Init => PlaceInv
  BY PlaceInit
<1>3. TypeOK /\ PlaceInv /\ [Next]_vars => PlaceInv'
  BY PlaceNext
<1>4. TypeOK /\ PlaceInv /\ TrackedInv /\ [Next]_vars => TrackedInv'
  BY TrackedNext
<1>5. TrackedInv => TrackedIsMapped
  BY DEF TrackedInv
<1> QED
  BY <1>1, <1>2, <1>3, <1>4, <1>5, TypeCorrect, PTL DEF Spec

-----------------------------------------------------------------------------
(* How long a trap takes.                                                  *)
LEMMA StepsDown ==
    ASSUME TypeOK, PlaceInv, [Next]_vars, pc \notin {"guest", "bail"}, pc' # pc \/ idx' # idx
    PROVE  StepsLeft' \in Nat /\ StepsLeft' < StepsLeft
<1>1. /\ MaxBat \in Nat /\ idx \in Nat /\ idx < MaxBat /\ MaxBat' = MaxBat
      /\ pc \in PC \ {"guest", "bail"}
  <2>1. MaxBat' = MaxBat
    BY ConsoleFrame DEF MaxBat
  <2>2. idx \in BatIdx /\ pc \in PC
    BY DEF TypeOK, MapTypeOK
  <2> QED
    BY <2>1, <2>2, MaxBatType DEF PlaceInv, BatIdx
<1>2. StepsLeft \in Nat /\ StepsLeft >= 1
  BY <1>1 DEF StepsLeft, PC
<1>3. ASSUME Return PROVE StepsLeft' \in Nat /\ StepsLeft' < StepsLeft
  <2>1. StepsLeft' = 0
    BY <1>3 DEF Return, StepsLeft
  <2> QED
    BY <1>2, <2>1
<1>4. CASE Fixups
  <2>1. StepsLeft = 2 * MaxBat + 1
    BY <1>4 DEF Fixups, StepsLeft
  <2>2. CASE Goto("physMem1")
    BY <1>1, <2>1, <2>2 DEF Goto, StepsLeft
  <2>3. CASE StartReload
    <3>1. StepsLeft' = 2 * (MaxBat - 0)
      BY <1>1, <2>3 DEF StartReload, StepsLeft
    <3> QED
      BY <1>1, <2>1, <3>1
  <2> QED
    BY <1>3, <1>4, <2>2, <2>3 DEF Fixups, Die
<1>5. CASE PhysMem1
  <2>1. CASE Goto("physMem2")
    BY <1>5, <2>1 DEF PhysMem1, Goto, StepsLeft
  <2> QED
    BY <1>3, <1>5, <2>1 DEF PhysMem1
<1>6. CASE PhysMem2
  BY <1>3, <1>6 DEF PhysMem2
<1>7. CASE ReloadI
  <2>1. StepsLeft = 2 * (MaxBat - idx)
    BY <1>7 DEF ReloadI, StepsLeft
  <2>2. CASE pc' = "reloadD" /\ UNCHANGED idx
    <3>1. StepsLeft' = 2 * (MaxBat - idx) - 1
      BY <1>1, <2>2 DEF StepsLeft
    <3> QED
      BY <1>1, <2>1, <3>1
  <2> QED
    BY <1>3, <1>7, <2>2 DEF ReloadI, Die, Goto, locals
<1>8. CASE ReloadD
  <2>1. StepsLeft = 2 * (MaxBat - idx) - 1
    BY <1>8 DEF ReloadD, StepsLeft
  <2>2. CASE pc' = "reloadI" /\ idx' = idx + 1 /\ idx + 1 < MaxBat
    <3>1. StepsLeft' = 2 * (MaxBat - (idx + 1))
      BY <1>1, <2>2 DEF StepsLeft
    <3> QED
      BY <1>1, <2>1, <2>2, <3>1
  <2> QED
    BY <1>3, <1>8, <2>2 DEF ReloadD, Die, NextBat
<1>9. CASE Trap \/ UNCHANGED vars
  BY <1>9 DEF Trap, vars, locals
<1> QED
  BY <1>4, <1>5, <1>6, <1>7, <1>8, <1>9 DEF Next, Handler

(* Every step of a trap leaves fewer to make, for any number of BATs, any  *)
(* guest and any refusals of the kernel: the loop of E_MemReloadMap ends   *)
(* (mem.c:53, mem.c:469).                                                  *)
THEOREM TrapsRunOutHolds == Spec => TrapsRunOut
<1>1. Init => PlaceInv
  BY PlaceInit
<1>2. TypeOK /\ PlaceInv /\ [Next]_vars => PlaceInv'
  BY PlaceNext
<1>3. TypeOK /\ PlaceInv /\ [Next]_vars
      => [pc \notin {"guest", "bail"} => StepsLeft' \in Nat /\ StepsLeft' < StepsLeft]_vars
  <2> SUFFICES ASSUME TypeOK, PlaceInv, [Next]_vars, vars' # vars, pc \notin {"guest", "bail"}
               PROVE  StepsLeft' \in Nat /\ StepsLeft' < StepsLeft
    OBVIOUS
  <2>1. pc' # pc \/ idx' # idx
    <3>1. Handler
      BY DEF Next, Trap
    <3>2. CASE Return
      BY <3>2 DEF Return
    <3>3. CASE Fixups
      BY <3>2, <3>3 DEF Fixups, Die, Goto, StartReload
    <3>4. CASE PhysMem1 \/ PhysMem2
      BY <3>2, <3>4 DEF PhysMem1, PhysMem2, Goto
    <3>5. CASE ReloadI
      BY <3>2, <3>5 DEF ReloadI, Die, Goto
    <3>6. CASE ReloadD
      BY <3>2, <3>6 DEF ReloadD, Die, NextBat
    <3> QED
      BY <3>1, <3>3, <3>4, <3>5, <3>6 DEF Handler
  <2> QED
    BY <2>1, StepsDown
<1> QED
  BY <1>1, <1>2, <1>3, TypeCorrect, PTL DEF Spec, TrapsRunOut
=============================================================================
