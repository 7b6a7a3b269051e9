---------------------------- MODULE MemMapModes ----------------------------
(***************************************************************************)
(* Theorems about MemMap for a guest that changes the translation bits     *)
(* with rfi and writes BATs in real mode, the way the consoles' system     *)
(* software does: the address space is then exactly what the mode and the  *)
(* BATs say.  MapInv (MemMap) is the inductive invariant.                  *)
(***************************************************************************)
EXTENDS MemMapProofs

-----------------------------------------------------------------------------
(* Frames.                                                                 *)

(* What is read of the BATs stays while they do. *)
LEMMA BatFrame ==
    ASSUME UNCHANGED <<bat, consoleType>>
    PROVE  /\ MaxBat' = MaxBat
           /\ \A s, i : Upper(s, i)' = Upper(s, i) /\ MemOf(s, i)' = MemOf(s, i)
           /\ \A s, i : Empty(s, i)' <=> Empty(s, i)
           /\ \A a : Conflict(a)' <=> Conflict(a)
BY DEF MaxBat, Upper, MemOf, Lower, Empty, Conflict

LEMMA HoldsFrame ==
    ASSUME UNCHANGED <<bat, consoleType, map>>
    PROVE  \A mem, s, j, a : Holds(mem, s, j, a) => Holds(mem, s, j, a)'
BY DEF Holds, Upper, MemOf, Lower, Empty

(* The guest's own instructions: mode and BATs change together with the    *)
(* request for an update, the maps never.                                  *)
LEMMA TrapEffect ==
    ASSUME RfiSwitches, RealModeBats, Trap
    PROVE  /\ UNCHANGED <<map, space, idx, consoleType>>
           /\ Translating(msr) => UNCHANGED bat
           /\ pc' \in {"guest", "fixups", "bail"}
           /\ pc' = "fixups" => oldMsr' = msr
           /\ pc' = "guest" => (Translating(msr') <=> Translating(msr))
<1>1. UNCHANGED <<map, space, idx, consoleType>>
  BY ConsoleFrame DEF Trap, mapVars, Next
<1>2. Translating(msr) => UNCHANGED bat
  BY DEF Trap, Emulate, MtsprSrr1, MtsprHid0, MtsprHid4, Mtmsr, Rfi, MfsprHigh, Refused, Stored, cpuVars
<1>3. pc' \in {"guest", "fixups", "bail"} /\ (pc' = "fixups" => oldMsr' = msr)
  BY DEF Trap
<1>4. pc' = "guest" => ~needsMemMapUpdate'
  BY DEF Trap
<1>5. ~needsMemMapUpdate' => (Translating(msr') <=> Translating(msr))
  <2>1. ASSUME NEW w \in BatWrites, MtsprBat(w) PROVE UNCHANGED msr
    BY <2>1 DEF MtsprBat
  <2>2. ASSUME NEW val \in Srr1, MtsprSrr1(val) PROVE UNCHANGED msr
    BY <2>2 DEF MtsprSrr1
  <2>3. ASSUME NEW low \in BOOLEAN, MtsprHid0(low) PROVE UNCHANGED msr
    BY <2>3 DEF MtsprHid0
  <2>4. ASSUME NEW val \in BOOLEAN, MtsprHid4(val) PROVE UNCHANGED msr
    BY <2>4 DEF MtsprHid4
  <2>5. ASSUME NEW val \in MsrVals, val.ir = msr.ir, val.dr = msr.dr, Mtmsr(val)
        PROVE  Translating(msr') <=> Translating(msr)
    BY <2>5 DEF Mtmsr, Translating
  <2>6. ASSUME Rfi PROVE needsMemMapUpdate'
    BY <2>6 DEF Rfi
  <2>7. ASSUME MfsprHigh \/ Refused \/ Stored PROVE UNCHANGED msr
    BY <2>7 DEF MfsprHigh, Refused, Stored, cpuVars
  <2> QED
    BY <2>1, <2>2, <2>3, <2>4, <2>5, <2>6, <2>7 DEF Trap, Emulate
<1> QED
  BY <1>1, <1>2, <1>3, <1>4, <1>5

-----------------------------------------------------------------------------
(* Steps that change the address space.                                    *)

LEMMA LimitNext == TypeOK /\ LimitInv /\ [Next]_vars => LimitInv'
<1> SUFFICES ASSUME TypeOK, LimitInv, [Next]_vars PROVE LimitInv'
  OBVIOUS
<1>1. ASSUME NEW m \in Mem, NEW a \in Granule, NEW ok \in BOOLEAN, Mmap(m, a, ok)
      PROVE  LimitInv'
  BY <1>1 DEF Mmap, TypeOK, MapTypeOK, LimitInv
<1>2. CASE UNCHANGED space
  BY <1>2 DEF LimitInv
<1>3. CASE UnmapAll
  BY <1>3 DEF UnmapAll, LimitInv
<1>4. ASSUME NEW s \in Side, MemOf(s, idx) # "none", NEW ok \in BOOLEAN, NEW fatal,
             MapBat(s, Upper(s, idx).addr, ok, fatal)
      PROVE  LimitInv'
  BY <1>1, <1>4, BatTarget DEF MapBat
<1>5. CASE Trap
  BY <1>2, <1>5 DEF Trap, mapVars
<1>6. CASE Fixups
  BY <1>2, <1>3, <1>6 DEF Fixups, mapVars
<1>7. CASE PhysMem1 \/ PhysMem2
  <2>1. \E m \in Mem, a \in Granule, ok \in BOOLEAN : Mmap(m, a, ok)
    <3>1. PhysMem1 => \E ok \in BOOLEAN : Mmap("MEM1", 0, ok)
      BY DEF PhysMem1, MapPhysical
    <3>2. PhysMem2 => \E ok \in BOOLEAN : Mmap("MEM2", 1, ok)
      BY DEF PhysMem2, MapPhysical
    <3> QED
      BY <1>7, <3>1, <3>2 DEF Mem, Granule
  <2> QED
    BY <1>1, <2>1
<1>8. CASE ReloadI
  BY <1>2, <1>4, <1>8 DEF ReloadI, mapVars, Side
<1>9. CASE ReloadD
  BY <1>2, <1>4, <1>9 DEF ReloadD, mapVars, Side
<1>10. CASE UNCHANGED vars
  BY <1>2, <1>10 DEF vars, mapVars
<1> QED
  BY <1>5, <1>6, <1>7, <1>8, <1>9, <1>10 DEF Next, Handler

(* Leaving translated mode unmaps everything. *)
LEMMA UnmapTranslated ==
    ASSUME TypeOK, BackedInv, TablesTranslated, UnmapAll
    PROVE  \A a \in Granule : space'[a] = "none"
<1> SUFFICES ASSUME NEW a \in Granule, space[a] # "none" PROVE space'[a] = "none"
  BY DEF UnmapAll
<1>1. PICK s \in Side, j \in 0 .. MaxBat - 1 : Holds(space[a], s, j, a)
  BY DEF BackedInv
<1>2. space[a] \in Mem /\ (space[a] = "MEM1" \/ consoleType = "WII")
  BY <1>1 DEF Holds, MemOf, TypeOK, MapTypeOK, Mem
<1>3. Unmapped(a)
  BY <1>1, <1>2 DEF Unmapped, Holds
<1> QED
  BY <1>3 DEF UnmapAll

(* Leaving real mode unmaps everything too. *)
LEMMA UnmapReal ==
    ASSUME TypeOK, RealInv, TablesReal, UnmapAll
    PROVE  \A a \in Granule : space'[a] = "none"
<1> SUFFICES ASSUME NEW a \in Granule, space[a] # "none" PROVE space'[a] = "none"
  BY DEF UnmapAll
<1>1. 0 \in 0 .. MaxBat - 1
  BY MaxBatType
<1>2. consoleType \in {"GCN", "WII"}
  BY DEF TypeOK, CpuTypeOK
<1>3. CASE a = 0
  <2>1. map["MEM1"]["I"][0] = a
    BY <1>3 DEF RealInv
  <2> QED
    BY <1>1, <2>1 DEF UnmapAll, Unmapped, Mem, Side
<1>4. CASE a = 1
  <2>1. consoleType = "WII" /\ map["MEM2"]["I"][0] = a
    BY <1>2, <1>4 DEF RealInv
  <2> QED
    BY <1>1, <2>1 DEF UnmapAll, Unmapped, Mem, Side
<1>5. CASE a \notin {0, 1}
  BY <1>5 DEF RealInv
<1> QED
  BY <1>3, <1>4, <1>5

(* One step of mmap for a BAT, as a change of one entry and one granule. *)
LEMMA MapBatEffect ==
    ASSUME TypeOK, NEW s \in Side, MemOf(s, idx) # "none", NEW ok \in BOOLEAN, NEW fatal,
           MapBat(s, Upper(s, idx).addr, ok, fatal)
    PROVE  LET m == MemOf(s, idx)
               a == Upper(s, idx).addr
           IN  /\ ok => a < Limit
               /\ \A n \in Mem, t \in Side, j \in BatIdx :
                     map'[n][t][j] = IF n = m /\ t = s /\ j = idx
                                     THEN (IF ok THEN a ELSE Failed) ELSE map[n][t][j]
               /\ \A b \in Granule : space'[b] = IF ok /\ b = a THEN m ELSE space[b]
<1> DEFINE m == MemOf(s, idx)
           a == Upper(s, idx).addr
           v == IF ok THEN a ELSE Failed
<1>1. m \in Mem /\ a \in Granule /\ idx \in BatIdx
  BY BatTarget
<1>2. /\ map' = [map EXCEPT ![m][s][idx] = v]
      /\ ok => a < Limit
      /\ space' = IF ok THEN [space EXCEPT ![a] = m] ELSE space
  BY DEF MapBat, Mmap
<1>3. map \in [Mem -> [Side -> [BatIdx -> Entry]]] /\ space \in [Granule -> Mem \cup {"none"}]
  BY DEF TypeOK, MapTypeOK
<1> HIDE DEF m, a, v
<1>4. \A n \in Mem, t \in Side, j \in BatIdx :
          map'[n][t][j] = IF n = m /\ t = s /\ j = idx THEN v ELSE map[n][t][j]
  BY <1>1, <1>2, <1>3
<1>5. \A b \in Granule : space'[b] = IF ok /\ b = a THEN m ELSE space[b]
  BY <1>1, <1>2, <1>3
<1> QED
  BY <1>2, <1>4, <1>5 DEF m, a, v

-----------------------------------------------------------------------------
(* Real mode.                                                              *)

LEMMA RealNext ==
    ASSUME RfiSwitches, RealModeBats, TypeOK, PlaceInv, RealInv, BackedInv, [Next]_vars
    PROVE  RealInv'
<1>1. CASE Trap
  <2>1. TablesReal' => TablesReal
    BY <1>1, TrapEffect DEF TablesReal, Trap
  <2>2. pc' \notin {"physMem1", "physMem2"} /\ UNCHANGED <<map, space, consoleType>>
    BY <1>1, TrapEffect
  <2> QED
    BY <2>1, <2>2 DEF RealInv
<1>2. ASSUME Handler, Return, Translating(msr) \/ fatalError' PROVE RealInv'
  <2>1. pc' \in {"guest", "bail"} /\ (pc' = "guest" => Translating(msr'))
    BY <1>2, HandlerFrame DEF Return
  <2> QED
    BY <2>1 DEF RealInv, TablesReal
<1>3. CASE Fixups
  <2>1. UNCHANGED <<consoleType, msr>>
    BY <1>3, HandlerFrame DEF Handler
  <2>2. CASE Die
    BY <1>2, <1>3, <2>2 DEF Die, Handler
  <2>3. CASE UnmapAll /\ Goto("physMem1") /\ Translating(oldMsr)
    <3>1. TablesTranslated
      BY <1>3, <2>3 DEF TablesTranslated, Fixups
    <3>2. \A a \in Granule : space'[a] = "none"
      BY <2>3, <3>1, UnmapTranslated
    <3>3. pc' = "physMem1"
      BY <2>3 DEF Goto
    <3> QED
      BY <3>2, <3>3 DEF RealInv, TablesReal
  <2>4. CASE StartReload
    BY <2>4 DEF StartReload, RealInv, TablesReal
  <2>5. CASE Return /\ UNCHANGED mapVars /\ ~Translating(oldMsr)
    <3>1. TablesReal
      BY <1>3, <2>5 DEF TablesReal, Fixups
    <3>2. pc' \in {"guest", "bail"} /\ UNCHANGED <<map, space>>
      BY <2>5 DEF Return, mapVars
    <3> QED
      BY <2>1, <3>1, <3>2 DEF RealInv, TablesReal
  <2> QED
    BY <1>3, <2>2, <2>3, <2>4, <2>5 DEF Fixups
<1>4. ASSUME NEW m \in Mem, NEW a \in Granule, NEW ok \in BOOLEAN, MapPhysical(m, a, ok)
      PROVE  /\ ok => /\ map'[m]["I"][0] = a
                      /\ space'[a] = m
                      /\ \A n \in Mem \ {m} : map'[n]["I"][0] = map[n]["I"][0]
             /\ \A b \in Granule \ {a} : space'[b] = space[b]
             /\ ~ok => fatalError'
  <2>1. map \in [Mem -> [Side -> [BatIdx -> Entry]]] /\ space \in [Granule -> Mem \cup {"none"}]
    BY DEF TypeOK, MapTypeOK
  <2>2. 0 \in BatIdx
    BY NumLowAssumption DEF BatIdx
  <2>3. ok => /\ map'[m]["I"][0] = a
              /\ \A n \in Mem \ {m} : map'[n]["I"][0] = map[n]["I"][0]
    BY <1>4, <2>1, <2>2 DEF MapPhysical, Side
  <2>4. /\ ok => space'[a] = m
        /\ \A b \in Granule \ {a} : space'[b] = space[b]
    BY <1>4, <2>1 DEF MapPhysical, Mmap
  <2>5. ~ok => fatalError'
    BY <1>4 DEF MapPhysical
  <2> QED
    BY <2>3, <2>4, <2>5
<1>5. consoleType \in {"GCN", "WII"}
  BY DEF TypeOK, CpuTypeOK
<1>6. CASE PhysMem1
  <2>1. PICK ok \in BOOLEAN : /\ MapPhysical("MEM1", 0, ok)
                              /\ IF ok /\ consoleType = "WII" THEN Goto("physMem2") ELSE Return
    BY <1>6 DEF PhysMem1
  <2>2. UNCHANGED <<consoleType, msr>> /\ ~Translating(msr)
    BY <1>6, HandlerFrame DEF Handler, PlaceInv, PhysMem1
  <2>3. /\ ok => map'["MEM1"]["I"][0] = 0 /\ space'[0] = "MEM1"
        /\ \A b \in Granule \ {0} : space'[b] = "none"
        /\ ~ok => fatalError'
    BY <1>4, <1>6, <2>1 DEF RealInv, PhysMem1, Mem, Granule
  <2>4. CASE ~ok
    BY <1>2, <1>6, <2>1, <2>3, <2>4 DEF Handler
  <2>5. CASE ok /\ consoleType = "WII"
    <3>1. pc' = "physMem2"
      BY <2>1, <2>5 DEF Goto
    <3> QED
      BY <2>2, <2>3, <2>5, <3>1 DEF RealInv, TablesReal
  <2>6. CASE ok /\ consoleType = "GCN"
    <3>1. pc' \in {"guest", "bail"}
      BY <2>1, <2>6 DEF Return
    <3>2. space'[1] = "none" /\ \A b \in Granule \ {0, 1} : space'[b] = "none"
      BY <2>3 DEF Granule
    <3> QED
      BY <2>2, <2>3, <2>6, <3>1, <3>2 DEF RealInv, TablesReal
  <2> QED
    BY <1>5, <2>4, <2>5, <2>6
<1>7. CASE PhysMem2
  <2>1. PICK ok \in BOOLEAN : MapPhysical("MEM2", 1, ok)
    BY <1>7 DEF PhysMem2
  <2>2. UNCHANGED <<consoleType, msr>> /\ consoleType = "WII" /\ pc = "physMem2" /\ Return
    BY <1>7, HandlerFrame DEF Handler, PlaceInv, PhysMem2
  <2>3. CASE ~ok
    BY <1>2, <1>4, <1>7, <2>1, <2>2, <2>3 DEF Handler, Mem, Granule
  <2>4. CASE ok
    <3>1. /\ map'["MEM2"]["I"][0] = 1 /\ space'[1] = "MEM2"
          /\ map'["MEM1"]["I"][0] = map["MEM1"]["I"][0]
          /\ \A b \in Granule \ {1} : space'[b] = space[b]
      <4>1. "MEM2" \in Mem /\ "MEM1" \in Mem \ {"MEM2"} /\ 1 \in Granule
        BY DEF Mem, Granule
      <4> QED
        BY <1>4, <2>1, <2>4, <4>1
    <3>2. map["MEM1"]["I"][0] = 0 /\ space[0] = "MEM1"
          /\ \A b \in Granule \ {0} : space[b] = "none"
      BY <2>2 DEF RealInv
    <3>3. pc' \in {"guest", "bail"}
      BY <2>2 DEF Return
    <3>4. space'[0] = "MEM1" /\ \A b \in Granule \ {0, 1} : space'[b] = "none"
      BY <3>1, <3>2 DEF Granule
    <3> QED
      BY <2>2, <3>1, <3>2, <3>3, <3>4 DEF RealInv, TablesReal
  <2> QED
    BY <2>3, <2>4
<1>8. CASE ReloadI \/ ReloadD
  <2>1. Translating(msr) /\ UNCHANGED msr
    BY <1>8, HandlerFrame DEF PlaceInv, Handler, ReloadI, ReloadD
  <2>2. CASE Return
    BY <1>2, <1>8, <2>1, <2>2 DEF Handler
  <2>3. CASE pc' \in {"reloadI", "reloadD"}
    BY <2>3 DEF RealInv, TablesReal
  <2> QED
    BY <1>8, <2>2, <2>3 DEF ReloadI, ReloadD, Die, NextBat, Goto
<1>9. CASE UNCHANGED vars
  BY <1>9 DEF vars, cpuVars, mapVars, locals, RealInv, TablesReal
<1> QED
  BY <1>1, <1>3, <1>6, <1>7, <1>8, <1>9 DEF Next, Handler

-----------------------------------------------------------------------------
(* Translated mode.                                                        *)

(* A default DBAT with the null address is an empty one. *)
LEMMA DefaultNotNull ==
    ASSUME NEW i \in BatIdx, bat = DefaultBat(consoleType), Upper("D", i).addr = Null
    PROVE  Empty("D", i)
<1> DEFINE wii == consoleType = "WII"
           upperI == [k \in BatIdx |-> CASE k = 0 -> Reg(8)
                                         [] k = NumLow /\ wii -> Reg(9)
                                         [] OTHER -> Zero]
           upperD == [k \in BatIdx |-> CASE k = 1 -> Reg(12)
                                         [] k = NumLow + 1 /\ wii -> Reg(13)
                                         [] OTHER -> upperI[k]]
           lower(u) == [k \in BatIdx |-> IF u[k] = Zero THEN Zero
                                         ELSE IF k < NumLow THEN Reg(0) ELSE Reg(1)]
<1>1. Upper("D", i) = upperD[i] /\ Lower("D", i) = lower(upperD)[i]
  BY DEF DefaultBat, Upper, Lower, Side, Half
<1>2. upperD[i] \in {Reg(8), Reg(9), Reg(12), Reg(13), Zero}
  OBVIOUS
<1>3. Reg(8).addr # 0 /\ Reg(9).addr # 0 /\ Reg(12).addr # 0 /\ Reg(13).addr # 0
  BY DEF Reg
<1> HIDE DEF upperI, upperD
<1>4. upperD[i] = Zero
  BY <1>1, <1>2, <1>3 DEF Null
<1> QED
  BY <1>1, <1>4 DEF Empty

LEMMA TranslatedTrap ==
    ASSUME RfiSwitches, RealModeBats, Trap, TablesTranslated'
    PROVE  TablesTranslated /\ Translating(msr)
           /\ UNCHANGED <<map, space, consoleType, bat>>
<1>1. pc = "guest"
  BY DEF Trap
<1>2. Translating(msr)
  BY TrapEffect DEF TablesTranslated
<1> QED
  BY <1>1, <1>2, TrapEffect DEF TablesTranslated

(* Only the reload loop and the guest in translated mode are left after a  *)
(* step of a handler.                                                      *)
LEMMA TranslatedHandler ==
    ASSUME TypeOK, PlaceInv, Handler, TablesTranslated'
    PROVE  Translating(msr) /\ ~(PhysMem1 \/ PhysMem2) /\ ~Die
           /\ (Fixups => StartReload)
<1>1. UNCHANGED msr
  BY HandlerFrame
<1>2. pc' # "fixups"
  BY DEF Handler, Fixups, PhysMem1, PhysMem2, ReloadI, ReloadD, Return, Die, Goto, NextBat,
         StartReload
<1>3. ASSUME Return PROVE pc' = "guest" /\ ~fatalError' /\ Translating(msr)
  BY <1>1, <1>2, <1>3 DEF Return, TablesTranslated
<1>4. ~Die
  BY <1>3 DEF Die
<1>5. ~(PhysMem1 \/ PhysMem2)
  <2>1. ASSUME PhysMem1 \/ PhysMem2 PROVE FALSE
    <3>1. ~Translating(msr) /\ (Return \/ pc' = "physMem2")
      BY <2>1 DEF PhysMem1, PhysMem2, PlaceInv, Goto
    <3> QED
      BY <1>1, <1>3, <3>1 DEF TablesTranslated
  <2> QED
    BY <2>1
<1>6. Fixups => StartReload
  <2>1. ASSUME Goto("physMem1") PROVE FALSE
    BY <2>1, <1>2 DEF Goto, TablesTranslated
  <2>2. ASSUME Return, ~Translating(msr) PROVE FALSE
    BY <1>3, <2>2
  <2> QED
    BY <1>4, <2>1, <2>2 DEF Fixups
<1>7. Translating(msr)
  <2>1. pc' \in {"reloadI", "reloadD"} => Translating(msr)
    <3>1. Fixups /\ StartReload /\ ~Die => Translating(msr)
      BY DEF Fixups, Goto, Return, StartReload
    <3>2. ReloadI \/ ReloadD => Translating(msr)
      BY DEF ReloadI, ReloadD, PlaceInv
    <3> QED
      BY <1>4, <1>5, <1>6, <3>1, <3>2 DEF Handler
  <2> QED
    BY <1>1, <1>2, <2>1 DEF TablesTranslated
<1> QED
  BY <1>4, <1>5, <1>6, <1>7

(* The steps of the reload loop that map a BAT without dying. *)
LEMMA BackedMapBat ==
    ASSUME TypeOK, PlaceInv, LimitInv, BackedInv, EntryInv, TablesTranslated,
           UNCHANGED <<bat, consoleType>>,
           NEW s \in Side, MemOf(s, idx) # "none", ~Empty(s, idx), NEW ok \in BOOLEAN, NEW fatal,
           MapBat(s, Upper(s, idx).addr, ok, fatal),
           ~ok => ~(Upper(s, idx).addr < Limit)
    PROVE  BackedInv' /\ EntryInv'
<1> DEFINE m == MemOf(s, idx)
           a == Upper(s, idx).addr
<1>1. m \in Mem /\ a \in Granule /\ idx \in BatIdx /\ idx \in 0 .. MaxBat - 1
  BY BatTarget, MaxBatType DEF PlaceInv, BatIdx
<1>2. /\ ok => a < Limit
      /\ \A n \in Mem, t \in Side, j \in BatIdx :
            map'[n][t][j] = IF n = m /\ t = s /\ j = idx
                            THEN (IF ok THEN a ELSE Failed) ELSE map[n][t][j]
      /\ \A b \in Granule : space'[b] = IF ok /\ b = a THEN m ELSE space[b]
  BY MapBatEffect
<1>3. /\ MaxBat' = MaxBat
      /\ \A t, j : Upper(t, j)' = Upper(t, j) /\ MemOf(t, j)' = MemOf(t, j)
      /\ \A t, j : Empty(t, j)' <=> Empty(t, j)
  BY BatFrame
<1>4. \A j \in 0 .. MaxBat - 1 : j \in BatIdx
  BY NumLowAssumption, MaxBatType DEF BatIdx
<1>5. m # "none"
  BY <1>1 DEF Mem
<1>6. \A n, t, j, b : Holds(n, t, j, b)' <=> /\ map'[n][t][j] = b /\ ~Empty(t, j)
                                           /\ Upper(t, j).addr = b /\ MemOf(t, j) = n
  BY <1>3 DEF Holds
<1>7. ~Empty(s, idx) /\ Upper(s, idx).addr = a /\ MemOf(s, idx) = m
  OBVIOUS
<1> HIDE DEF m, a
<1>8. BackedInv'
  <2> SUFFICES ASSUME NEW b \in Granule, space'[b] # "none"
               PROVE  \E t \in Side, j \in 0 .. MaxBat - 1 : Holds(space[b], t, j, b)'
    BY <1>3 DEF BackedInv
  <2>1. CASE ok /\ b = a
    <3>1. PICK k \in 0 .. MaxBat - 1 : k = idx
      BY <1>1
    <3>2. map'[m][s][k] = a /\ space'[b] = m
      BY <1>1, <1>2, <2>1, <3>1
    <3>3. Holds(space[b], s, k, b)'
      BY <1>3, <1>7, <2>1, <3>1, <3>2 DEF Holds
    <3> QED
      BY <3>3
  <2>2. CASE ~(ok /\ b = a)
    <3>1. space'[b] = space[b] /\ space[b] # "none"
      BY <1>2, <2>2
    <3>2. PICK t \in Side, j \in 0 .. MaxBat - 1 : Holds(space[b], t, j, b)
      BY <3>1 DEF BackedInv
    <3>3. space[b] \in Mem /\ j \in BatIdx
      BY <1>4, <3>1 DEF TypeOK, MapTypeOK
    <3>4. ~(space[b] = m /\ t = s /\ j = idx)
      <4>1. ASSUME t = s, j = idx PROVE FALSE
        <5>1. b = a
          BY <1>7, <3>2, <4>1 DEF Holds
        <5>2. ~ok /\ ~(a < Limit)
          BY <1>7, <2>2, <5>1
        <5> QED
          BY <3>1, <5>1, <5>2 DEF LimitInv
      <4> QED
        BY <4>1
    <3>5. map'[space[b]][t][j] = b
      BY <1>2, <3>2, <3>3, <3>4 DEF Holds
    <3>6. Holds(space[b], t, j, b)'
      BY <1>6, <3>1, <3>2, <3>5 DEF Holds
    <3> QED
      BY <3>6
  <2> QED
    BY <2>1, <2>2
<1>9. EntryInv'
  <2> SUFFICES ASSUME NEW n \in Mem, NEW t \in Side, NEW j \in 0 .. MaxBat - 1,
                      map'[n][t][j] # Failed
               PROVE  \/ Holds(n, t, j, map[n][t][j])' /\ space'[map'[n][t][j]] # "none"
                      \/ map'[n][t][j] = Null /\ bat = DefaultBat(consoleType)
    BY <1>3 DEF EntryInv
  <2>1. CASE n = m /\ t = s /\ j = idx
    <3>1. map'[n][t][j] = a /\ ok
      BY <1>1, <1>2, <2>1
    <3>2. space'[a] # "none"
      BY <1>1, <1>2, <1>5, <3>1
    <3> QED
      BY <1>6, <1>7, <2>1, <3>1, <3>2
  <2>2. CASE ~(n = m /\ t = s /\ j = idx)
    <3>1. map'[n][t][j] = map[n][t][j]
      BY <1>2, <1>4, <2>2
    <3>2. CASE map[n][t][j] = Null /\ bat = DefaultBat(consoleType)
      BY <3>1, <3>2
    <3>3. CASE Holds(n, t, j, map[n][t][j]) /\ space[map[n][t][j]] # "none"
      <4>1. map[n][t][j] \in Granule
        BY <1>4, <3>1 DEF TypeOK, MapTypeOK, Entry
      <4>2. space'[map[n][t][j]] # "none"
        BY <1>2, <1>5, <3>3, <4>1
      <4> QED
        BY <1>6, <3>1, <3>3, <4>2 DEF Holds
    <3> QED
      BY <2>2, <3>1, <3>2, <3>3 DEF EntryInv
  <2> QED
    BY <2>1, <2>2
<1> QED
  BY <1>8, <1>9

(* A step that leaves the address space, the tables and the BATs alone. *)
LEMMA BackedFrame ==
    ASSUME BackedInv, EntryInv, TablesTranslated, UNCHANGED <<map, space, consoleType, bat>>
    PROVE  BackedInv' /\ EntryInv'
<1>1. /\ MaxBat' = MaxBat
      /\ \A n, t, j, b : Holds(n, t, j, b)' <=> Holds(n, t, j, b)
  BY DEF MaxBat, Holds, Upper, MemOf, Lower, Empty
<1>2. BackedInv'
  BY <1>1 DEF BackedInv, Holds, Upper, MemOf, Lower, Empty
<1>3. EntryInv'
  BY <1>1 DEF EntryInv, Holds, Upper, MemOf, Lower, Empty
<1> QED
  BY <1>2, <1>3

LEMMA BackedNext ==
    ASSUME RfiSwitches, RealModeBats, TypeOK, PlaceInv, LimitInv, RealInv, BackedInv, EntryInv,
           [Next]_vars
    PROVE  BackedInv' /\ EntryInv'
<1> SUFFICES ASSUME TablesTranslated' PROVE BackedInv' /\ EntryInv'
  BY DEF BackedInv, EntryInv
<1>1. CASE Trap
  BY <1>1, TranslatedTrap, BackedFrame
<1>2. CASE Fixups
  <2>1. StartReload /\ Translating(msr) /\ UNCHANGED <<bat, consoleType>>
    BY <1>2, TranslatedHandler, HandlerFrame DEF Handler
  <2>2. CASE UNCHANGED mapVars /\ Translating(oldMsr)
    <3>1. TablesTranslated
      BY <1>2, <2>2 DEF Fixups, TablesTranslated
    <3> QED
      BY <2>1, <2>2, <3>1, BackedFrame DEF mapVars
  <2>3. CASE UnmapAll /\ ~Translating(oldMsr)
    <3>1. TablesReal
      BY <1>2, <2>3 DEF Fixups, TablesReal
    <3>2. \A a \in Granule : space'[a] = "none"
      BY <2>3, <3>1, UnmapReal
    <3>3. \A n \in Mem, t \in Side, j \in 0 .. MaxBat - 1 : map'[n][t][j] = Failed
      BY <2>3, MaxBatType, NumLowAssumption DEF UnmapAll, BatIdx
    <3>4. MaxBat' = MaxBat
      BY <2>1 DEF MaxBat
    <3> QED
      BY <3>2, <3>3, <3>4 DEF BackedInv, EntryInv
  <2>4. ~Goto("physMem1")
    BY <2>1 DEF Goto, StartReload
  <2>5. ~Return
    BY <2>1 DEF Return, StartReload
  <2> QED
    BY <1>2, <2>1, <2>2, <2>3, <2>4, <2>5 DEF Fixups, Die
<1>3. PhysMem1 \/ PhysMem2 => FALSE
  BY TranslatedHandler DEF Handler
<1>4. ASSUME NEW s \in Side, MemOf(s, idx) # "none", ~Empty(s, idx), NEW ok \in BOOLEAN,
             NEW fatal, MapBat(s, Upper(s, idx).addr, ok, fatal),
             ~ok => ~(Upper(s, idx).addr < Limit), TablesTranslated, Handler
      PROVE  BackedInv' /\ EntryInv'
  BY <1>4, BackedMapBat, HandlerFrame
<1>5. CASE ReloadI
  <2>1. TablesTranslated /\ UNCHANGED <<bat, consoleType, msr>> /\ Translating(msr)
    BY <1>5, HandlerFrame DEF ReloadI, TablesTranslated, Handler, PlaceInv
  <2>2. CASE UNCHANGED mapVars
    BY <2>1, <2>2, BackedFrame DEF mapVars
  <2>3. ASSUME NEW ok \in BOOLEAN, NEW fatal, ~Empty("I", idx), MemOf("I", idx) # "none",
               MapBat("I", Upper("I", idx).addr, ok, fatal),
               fatal = (~ok /\ (consoleType = "GCN" \/ Upper("I", idx).addr < Limit)),
               fatal => Return
        PROVE  BackedInv' /\ EntryInv'
    <3>1. ~fatal
      <4>1. fatal => fatalError'
        BY <2>3 DEF MapBat
      <4> QED
        BY <2>3, <4>1 DEF Return, TablesTranslated
    <3> QED
      BY <1>4, <1>5, <2>1, <2>3, <3>1 DEF Handler, Side
  <2> QED
    BY <1>5, <2>2, <2>3 DEF ReloadI
<1>6. CASE ReloadD
  <2>1. TablesTranslated /\ UNCHANGED <<bat, consoleType, msr>> /\ Translating(msr)
    BY <1>6, HandlerFrame DEF ReloadD, TablesTranslated, Handler, PlaceInv
  <2>2. CASE UNCHANGED mapVars
    BY <2>1, <2>2, BackedFrame DEF mapVars
  <2>3. ASSUME NEW ok \in BOOLEAN, NEW fatal, ~Empty("D", idx), MemOf("D", idx) # "none",
               MapBat("D", Upper("D", idx).addr, ok, fatal),
               fatal = (~ok /\ Upper("D", idx).addr < Limit),
               fatal => Return
        PROVE  BackedInv' /\ EntryInv'
    <3>1. ~fatal
      <4>1. fatal => fatalError'
        BY <2>3 DEF MapBat
      <4> QED
        BY <2>3, <4>1 DEF Return, TablesTranslated
    <3> QED
      BY <1>4, <1>6, <2>1, <2>3, <3>1 DEF Handler, Side
  <2> QED
    BY <1>6, <2>2, <2>3 DEF ReloadD, mapVars
<1>7. CASE UNCHANGED vars
  <2>1. TablesTranslated /\ UNCHANGED <<map, space, consoleType, bat>>
    BY <1>7 DEF vars, cpuVars, mapVars, locals, TablesTranslated
  <2> QED
    BY <2>1, BackedFrame
<1> QED
  BY <1>1, <1>2, <1>3, <1>5, <1>6, <1>7 DEF Next, Handler

-----------------------------------------------------------------------------
(* The DBATs the loop has passed.                                          *)

(* A BAT of the same address that is mapped later cannot take it away:     *)
(* unless the two conflict, it names the same memory.                      *)
LEMMA HonouredKept ==
    ASSUME TypeOK, PlaceInv, UNCHANGED <<bat, consoleType>>,
           NEW i \in 0 .. MaxBat - 1, DbatHonoured(i),
           NEW s \in Side, MemOf(s, idx) # "none", ~Empty(s, idx), NEW ok \in BOOLEAN, NEW fatal,
           MapBat(s, Upper(s, idx).addr, ok, fatal)
    PROVE  DbatHonoured(i)'
<1> DEFINE b == Upper("D", i).addr
<1>1. /\ \A t, j : Upper(t, j)' = Upper(t, j) /\ MemOf(t, j)' = MemOf(t, j)
      /\ \A t, j : Empty(t, j)' <=> Empty(t, j)
      /\ \A c : Conflict(c)' <=> Conflict(c)
  BY BatFrame
<1>2. SUFFICES ASSUME ~Empty("D", i), b < Limit, ~Conflict(b)
               PROVE  space'[b] = MemOf("D", i)
  BY <1>1 DEF DbatHonoured, Upper, Conflict, Empty, MemOf, Lower, MaxBat
<1>3. space[b] = MemOf("D", i)
  BY <1>2 DEF DbatHonoured
<1>4. i \in BatIdx /\ idx \in 0 .. MaxBat - 1 /\ "D" \in Side
  BY MaxBatType, NumLowAssumption DEF BatIdx, PlaceInv, TypeOK, MapTypeOK, Side
<1>5. b \in Granule
  BY <1>4 DEF Upper, TypeOK, CpuTypeOK, Half, BatReg
<1>6. space'[b] = IF ok /\ b = Upper(s, idx).addr THEN MemOf(s, idx) ELSE space[b]
  BY <1>5, MapBatEffect
<1>7. b = Upper(s, idx).addr => MemOf(s, idx) = MemOf("D", i)
  BY <1>2, <1>4 DEF Conflict
<1> QED
  BY <1>3, <1>6, <1>7

(* The search that makes the loop skip a DBAT finds it already honoured. *)
LEMMA TakenHonoured ==
    ASSUME TypeOK, PlaceInv, BackedInv, EntryInv, TablesTranslated, MemOf("D", idx) # "none",
           NEW t \in Side, Tracked(MemOf("D", idx), t, Upper("D", idx).addr)
    PROVE  DbatHonoured(idx)
<1> DEFINE m == MemOf("D", idx)
           a == Upper("D", idx).addr
<1>1. m \in Mem /\ a \in Granule /\ idx \in BatIdx /\ idx \in 0 .. MaxBat - 1 /\ "D" \in Side
  BY BatTarget, MaxBatType DEF PlaceInv, BatIdx, Side
<1>2. SUFFICES ASSUME ~Empty("D", idx), ~Conflict(a) PROVE space[a] = m
  BY DEF DbatHonoured
<1>3. PICK j \in 0 .. MaxBat - 1 : map[m][t][j] = a
  BY DEF Tracked
<1>4. a # Failed
  BY <1>1 DEF Granule, Failed
<1>5. ~(a = Null /\ bat = DefaultBat(consoleType))
  BY <1>1, <1>2, DefaultNotNull
<1>6. space[a] # "none"
  BY <1>1, <1>3, <1>4, <1>5 DEF EntryInv
<1>7. PICK s \in Side, k \in 0 .. MaxBat - 1 : Holds(space[a], s, k, a)
  BY <1>1, <1>6 DEF BackedInv
<1>8. MemOf(s, k) = space[a] /\ ~Empty(s, k) /\ Upper(s, k).addr = a
  BY <1>7 DEF Holds
<1> QED
  BY <1>1, <1>2, <1>8 DEF Conflict

LEMMA HonouredFrame ==
    ASSUME NEW i, DbatHonoured(i), UNCHANGED <<bat, consoleType, space>>
    PROVE  DbatHonoured(i)'
BY DEF DbatHonoured, Conflict, Upper, Lower, Empty, MemOf, MaxBat

LEMMA DoneNext ==
    ASSUME RfiSwitches, RealModeBats, TypeOK, PlaceInv, BackedInv, EntryInv, DoneInv, [Next]_vars
    PROVE  DoneInv'
<1> USE DEF DoneInv
<1>1. MaxBat' = MaxBat
  BY ConsoleFrame DEF MaxBat
<1> SUFFICES ASSUME NEW i \in 0 .. MaxBat - 1,
                    \/ pc' \in {"reloadI", "reloadD"} /\ i < idx'
                    \/ pc' = "guest" /\ Translating(msr')
             PROVE  DbatHonoured(i)'
  BY <1>1 DEF Translating
<1>2. TablesTranslated'
  BY DEF TablesTranslated, Translating
<1>3. i \in Nat /\ idx \in Nat /\ MaxBat \in Nat
  BY MaxBatType DEF TypeOK, MapTypeOK, BatIdx
<1>4. CASE Trap
  <2>1. pc = "guest" /\ Translating(msr) /\ UNCHANGED <<bat, consoleType, space>>
    BY <1>2, <1>4, TranslatedTrap DEF Trap
  <2> QED
    BY <2>1, HonouredFrame
<1>5. CASE Fixups
  <2>1. StartReload
    BY <1>2, <1>5, TranslatedHandler DEF Handler
  <2> QED
    BY <1>3, <2>1 DEF StartReload
<1>6. PhysMem1 \/ PhysMem2 => FALSE
  BY <1>2, TranslatedHandler DEF Handler
<1>7. ASSUME Handler, i < idx, TablesTranslated, pc \in {"reloadI", "reloadD"}
      PROVE  /\ UNCHANGED mapVars => DbatHonoured(i)'
             /\ \A s \in Side, ok \in BOOLEAN : \A fatal :
                   MemOf(s, idx) # "none" /\ ~Empty(s, idx) /\ MapBat(s, Upper(s, idx).addr, ok, fatal)
                   => DbatHonoured(i)'
  <2>1. DbatHonoured(i) /\ UNCHANGED <<bat, consoleType>>
    BY <1>7, HandlerFrame
  <2>2. UNCHANGED mapVars => DbatHonoured(i)'
    BY <2>1, HonouredFrame DEF mapVars
  <2> QED
    BY <2>1, <2>2, HonouredKept
<1>8. CASE ReloadI
  <2>1. TablesTranslated
    BY <1>8 DEF TablesTranslated, ReloadI
  <2>2. ~Return
    <3>1. ~Die
      BY <1>2, <1>8, TranslatedHandler DEF Handler
    <3>2. Return => fatalError'
      BY <1>8, <3>1 DEF ReloadI, MapBat, Return, Goto
    <3> QED
      BY <1>2, <3>2 DEF Return, TablesTranslated
  <2>3. pc' = "reloadD" /\ UNCHANGED idx
    BY <1>8, <2>2 DEF ReloadI, Goto, locals, Die
  <2>4. i < idx
    BY <2>3
  <2> QED
    BY <1>7, <1>8, <2>1, <2>4 DEF ReloadI, Handler, Side
<1>9. CASE ReloadD
  <2> DEFINE a == Upper("D", idx).addr
  <2>1. TablesTranslated /\ UNCHANGED <<bat, consoleType>>
    BY <1>9, HandlerFrame DEF TablesTranslated, ReloadD, Handler
  <2>2. ~Die
    BY <1>2, <1>9, TranslatedHandler DEF Handler
  <2>3. \E v : NextBat(v)
    <3>1. ASSUME NEW ok \in BOOLEAN, NEW fatal \in BOOLEAN, MapBat("D", a, ok, fatal), fatal, Return
          PROVE  FALSE
      BY <1>2, <3>1 DEF MapBat, Return, TablesTranslated
    <3> QED
      BY <1>9, <2>2, <3>1 DEF ReloadD
  <2>4. i < idx \/ i = idx
    <3>1. CASE idx + 1 < MaxBat
      BY <1>3, <2>3, <3>1 DEF NextBat
    <3>2. CASE ~(idx + 1 < MaxBat)
      BY <1>3, <3>2
    <3> QED
      BY <3>1, <3>2
  <2>5. CASE i < idx
    BY <1>7, <1>9, <2>1, <2>2, <2>5 DEF ReloadD, Handler, Side
  <2>6. CASE i = idx
    <3>1. CASE Empty("D", idx) /\ UNCHANGED mapVars
      <4>1. DbatHonoured(i)
        BY <2>6, <3>1 DEF DbatHonoured
      <4> QED
        BY <2>1, <3>1, <4>1, HonouredFrame DEF mapVars
    <3>2. CASE /\ MemOf("D", idx) # "none" /\ UNCHANGED mapVars
               /\ Tracked(MemOf("D", idx), "D", a) \/ Tracked(MemOf("D", idx), "I", a)
      <4>1. DbatHonoured(i)
        BY <2>1, <2>6, <3>2, TakenHonoured DEF Side
      <4> QED
        BY <2>1, <3>2, <4>1, HonouredFrame DEF mapVars
    <3>3. ASSUME MemOf("D", idx) # "none", NEW ok \in BOOLEAN, NEW fatal,
                 MapBat("D", a, ok, fatal), fatal = (~ok /\ a < Limit), fatal => Return
          PROVE  DbatHonoured(i)'
      <4>1. fatal => fatalError'
        BY <3>3 DEF MapBat
      <4>2. ok \/ ~(a < Limit)
        BY <1>2, <3>3, <4>1 DEF Return, TablesTranslated
      <4>3. a \in Granule /\ "D" \in Side
        BY <3>3, BatTarget DEF Side
      <4>4. ok => space'[a] = MemOf("D", idx)
        BY <3>3, <4>3, MapBatEffect
      <4>5. a < Limit => space'[a] = MemOf("D", i)
        BY <2>6, <4>2, <4>4
      <4>6. Upper("D", i)' = Upper("D", i) /\ MemOf("D", i)' = MemOf("D", i)
        BY <2>1, BatFrame
      <4> QED
        BY <2>6, <4>5, <4>6 DEF DbatHonoured
    <3> QED
      BY <1>9, <2>2, <3>1, <3>2, <3>3 DEF ReloadD
  <2> QED
    BY <2>4, <2>5, <2>6
<1>10. CASE UNCHANGED vars
  <2>1. UNCHANGED <<pc, msr, idx, bat, consoleType, space>>
    BY <1>10 DEF vars, cpuVars, mapVars, locals
  <2>2. DbatHonoured(i)
    BY <2>1
  <2> QED
    BY <2>1, <2>2, HonouredFrame
<1> QED
  BY <1>4, <1>5, <1>6, <1>8, <1>9, <1>10 DEF Next, Handler

-----------------------------------------------------------------------------
(* The theorems.                                                           *)

LEMMA MapInvInit == Init => MapInv
<1> SUFFICES ASSUME Init PROVE MapInv
  OBVIOUS
<1>1. PlaceInv
  BY PlaceInit
<1>2. LimitInv /\ RealInv /\ BackedInv /\ DoneInv
  BY DEF Init, CpuInit, LimitInv, RealInv, BackedInv, DoneInv, TablesReal, TablesTranslated,
         Translating
<1>3. EntryInv
  <2>1. \A n \in Mem, t \in Side, j \in 0 .. MaxBat - 1 : map[n][t][j] = Null
    BY InitType, MaxBatType, NumLowAssumption DEF Init, BatIdx
  <2> QED
    BY <2>1 DEF EntryInv, Init, CpuInit
<1> QED
  BY <1>1, <1>2, <1>3 DEF MapInv

(* What the tables, the address space and the mode have to do with each    *)
(* other at every point of a trap.                                         *)
THEOREM MapInvHolds ==
    ASSUME RfiSwitches, RealModeBats
    PROVE  Spec => []MapInv
<1>1. Init => MapInv
  BY MapInvInit
<1>2. TypeOK /\ MapInv /\ [Next]_vars => MapInv'
  BY PlaceNext, LimitNext, RealNext, BackedNext, DoneNext DEF MapInv
<1> QED
  BY <1>1, <1>2, TypeCorrect, PTL DEF Spec

(* A guest in real mode sees its memories at their physical addresses and  *)
(* nothing else: no mapping of a BAT survives the switch (mem.c, "going to *)
(* real mode, unmap all BATs").                                            *)
THEOREM RealModeIsPhysicalHolds ==
    ASSUME RfiSwitches, RealModeBats
    PROVE  Spec => []RealModeIsPhysical
<1>1. TypeOK /\ MapInv => RealModeIsPhysical
  <2> SUFFICES ASSUME TypeOK, MapInv, Running, ~Translating(msr), NEW a \in Granule
               PROVE  space[a] = CASE a = 0                        -> "MEM1"
                                   [] a = 1 /\ consoleType = "WII" -> "MEM2"
                                   [] OTHER                         -> "none"
    BY DEF RealModeIsPhysical
  <2>1. TablesReal /\ RealInv /\ consoleType \in {"GCN", "WII"}
    BY DEF TablesReal, Running, MapInv, TypeOK, CpuTypeOK
  <2> QED
    BY <2>1 DEF RealInv
<1> QED
  BY <1>1, TypeCorrect, MapInvHolds, PTL

(* A translating guest sees memory only where one of its BATs puts it.     *)
THEOREM OnlyWhatBatsSayHolds ==
    ASSUME RfiSwitches, RealModeBats
    PROVE  Spec => []OnlyWhatBatsSay
<1>1. MapInv => OnlyWhatBatsSay
  BY DEF MapInv, BackedInv, TablesTranslated, Running, OnlyWhatBatsSay, Holds
<1> QED
  BY <1>1, MapInvHolds, PTL

(* Every data BAT of a translating guest that is below the kernel's limit  *)
(* and does not contradict another BAT is mapped to the memory it names,   *)
(* whatever the search with the stale address did to the instruction BATs. *)
THEOREM DbatsHonouredHolds ==
    ASSUME RfiSwitches, RealModeBats
    PROVE  Spec => []DbatsHonoured
<1>1. MapInv => DbatsHonoured
  BY DEF MapInv, DoneInv, Running, DbatsHonoured
<1> QED
  BY <1>1, MapInvHolds, PTL
=============================================================================
