-------------------------------- MODULE Cpu --------------------------------
(***************************************************************************)
(* The privileged register file of dol-run (cpu/*.c): what the emulated    *)
(* mtspr, mfspr, mtmsr and rfi do to the state the memory map depends on.  *)
(* The guest runs natively in user mode, so each of these instructions     *)
(* traps and is emulated by the host (E_SIGILL_Handler).                   *)
(*                                                                         *)
(* Addresses are 256 MB granules, the top hexadecimal digit of a 32-bit    *)
(* address: every BAT a console uses starts on one, and MEM1 (24 MB) and   *)
(* MEM2 (64 MB) fit in one.  A BAT register is its address field (BEPI or  *)
(* BPRN) and whether any of its other bits is set, which is all that the   *)
(* memory map reads of it (mem.c compares the raw register with 0).        *)
(***************************************************************************)
EXTENDS Naturals

CONSTANTS
    NumLow,         \* BATs of each side on Gekko; Broadway has twice as many (4 in the code)
    MsrVals,        \* the values the guest moves to the MSR
    BatWrites,      \* the mtspr instructions to BATs in the guest's code
    RfiSwitches,    \* TRUE: the guest changes MSR[IR] and MSR[DR] with rfi only
    RealModeBats    \* TRUE: the guest writes BATs only while it is not translating

Granule == 0 .. 15
Side    == {"I", "D"}
Half    == {"U", "L"}
BatIdx  == 0 .. 2 * NumLow - 1
BatReg  == [addr : Granule, bits : BOOLEAN]
Msr     == [ir : BOOLEAN, dr : BOOLEAN, pow : BOOLEAN]
Srr1    == [ir : BOOLEAN, dr : BOOLEAN]
BatWrite == [side : Side, half : Half, i : BatIdx, val : BatReg]

ASSUME NumLowAssumption    == NumLow \in Nat \ {0, 1}
ASSUME MsrValsAssumption   == MsrVals \subseteq Msr
ASSUME BatWritesAssumption == BatWrites \subseteq BatWrite
ASSUME GuestAssumption     == RfiSwitches \in BOOLEAN /\ RealModeBats \in BOOLEAN

VARIABLES
    consoleType,        \* E_State.consoleType: "GCN" or "WII"
    msr,                \* E_State.cpu.msr: the bits IR, DR and POW
    srr1,               \* E_State.cpu.srr1: the bits IR and DR
    lowPower,           \* one of HID0[DOZE], HID0[NAP], HID0[SLEEP] is set
    sbe,                \* HID4[SBE]
    bat,                \* ibatu, ibatl, dbatu, dbatl
    fatalError,         \* E_State.fatalError
    needsMemMapUpdate   \* E_State.needsMemMapUpdate

cpuVars == <<consoleType, msr, srr1, lowPower, sbe, bat, fatalError, needsMemMapUpdate>>

CpuTypeOK ==
    /\ consoleType \in {"GCN", "WII"}
    /\ msr \in Msr
    /\ srr1 \in Srr1
    /\ lowPower \in BOOLEAN
    /\ sbe \in BOOLEAN
    /\ bat \in [Side -> [Half -> [BatIdx -> BatReg]]]
    /\ fatalError \in BOOLEAN
    /\ needsMemMapUpdate \in BOOLEAN

-----------------------------------------------------------------------------
Translating(m) == m.ir /\ m.dr

(* The state E_PPC_Validate_MSR accepts: no low-power mode with MSR[POW],  *)
(* and instruction and data translation switched together.                 *)
MsrLegal(m, low) == ~(m.pow /\ low) /\ m.ir = m.dr

(* E_PPC_Validate_HighBATAccess: BATs 4 to 7 need a Broadway and HID4[SBE] *)
HighBatsUsable == consoleType = "WII" /\ sbe

Zero    == [addr |-> 0, bits |-> FALSE]
Reg(a)  == [addr |-> a, bits |-> TRUE]

(* The BATs E_MemInit programs: MEM1 at 0x8 (and uncached at 0xC), on the  *)
(* Wii also MEM2 at 0x9 (and uncached at 0xD) in the high BATs.            *)
DefaultBat(console) ==
    LET wii == console = "WII"
        upperI == [i \in BatIdx |-> CASE i = 0 -> Reg(8)
                                      [] i = NumLow /\ wii -> Reg(9)
                                      [] OTHER -> Zero]
        upperD == [i \in BatIdx |-> CASE i = 1 -> Reg(12)
                                      [] i = NumLow + 1 /\ wii -> Reg(13)
                                      [] OTHER -> upperI[i]]
        lower(upper) == [i \in BatIdx |->
                            IF upper[i] = Zero THEN Zero
                            ELSE IF i < NumLow THEN Reg(0) ELSE Reg(1)]
    IN  [s \in Side |->
            LET upper == IF s = "I" THEN upperI ELSE upperD
            IN  [h \in Half |-> IF h = "U" THEN upper ELSE lower(upper)]]

CpuInit ==
    /\ consoleType \in {"GCN", "WII"}
    /\ msr = [ir |-> TRUE, dr |-> TRUE, pow |-> FALSE]
    /\ srr1 = [ir |-> FALSE, dr |-> FALSE]
    /\ lowPower = FALSE
    /\ sbe = FALSE
    /\ bat = DefaultBat(consoleType)
    /\ fatalError = FALSE
    /\ needsMemMapUpdate = FALSE

-----------------------------------------------------------------------------
(* mtspr to a BAT.  The update flag is raised before a high BAT is checked. *)
MtsprBat(w) ==
    /\ needsMemMapUpdate' = TRUE
    /\ IF w.i < NumLow \/ HighBatsUsable
       THEN /\ bat' = [bat EXCEPT ![w.side][w.half][w.i] = w.val]
            /\ UNCHANGED fatalError
       ELSE /\ fatalError' = TRUE
            /\ UNCHANGED bat
    /\ UNCHANGED <<consoleType, msr, srr1, lowPower, sbe>>

MtsprSrr1(val) ==
    /\ srr1' = val
    /\ UNCHANGED <<consoleType, msr, lowPower, sbe, bat, fatalError, needsMemMapUpdate>>

(* Mutant: the check for MSR[POW] is missing. *)
MtsprHid0Unchecked(low) ==
    /\ lowPower' = low
    /\ UNCHANGED <<consoleType, msr, srr1, sbe, bat, fatalError, needsMemMapUpdate>>

MtsprHid0(low) ==
    /\ lowPower' = low
    /\ fatalError' = (fatalError \/ (low /\ msr.pow))
    /\ UNCHANGED <<consoleType, msr, srr1, sbe, bat, needsMemMapUpdate>>

MtsprHid4(val) ==
    /\ sbe' = IF consoleType = "GCN" THEN sbe ELSE val
    /\ fatalError' = (fatalError \/ consoleType = "GCN")
    /\ UNCHANGED <<consoleType, msr, srr1, lowPower, bat, needsMemMapUpdate>>

(* Registers that nothing modelled depends on (DEC, the time base, SRR0,   *)
(* HID2, the SPRGs, L2CR, zeros to the performance counters, the segment   *)
(* registers), reads that need no check, and dcbi.                         *)
Stored == UNCHANGED cpuVars

(* Read-only registers, non-zero performance counters and unknown SPRs;    *)
(* also every instruction E_SIGILL_Handler does not know.                  *)
Refused ==
    /\ fatalError' = TRUE
    /\ UNCHANGED <<consoleType, msr, srr1, lowPower, sbe, bat, needsMemMapUpdate>>

(* mfspr of a BAT or of HID4: a read changes nothing unless it is refused. *)
MfsprHigh ==
    /\ fatalError' = (fatalError \/ ~HighBatsUsable)
    /\ UNCHANGED <<consoleType, msr, srr1, lowPower, sbe, bat, needsMemMapUpdate>>

(* E_PPC_Emulate_mtmsr does not ask for an update of the memory map. *)
Mtmsr(val) ==
    /\ msr' = val
    /\ fatalError' = (fatalError \/ ~MsrLegal(val, lowPower))
    /\ UNCHANGED <<consoleType, srr1, lowPower, sbe, bat, needsMemMapUpdate>>

(* Mutant: rfi does not ask for an update of the memory map either. *)
RfiNoUpdate ==
    /\ msr' = [ir |-> srr1.ir, dr |-> srr1.dr, pow |-> FALSE]
    /\ fatalError' = (fatalError \/ ~MsrLegal(msr', lowPower))
    /\ UNCHANGED <<consoleType, srr1, lowPower, sbe, bat, needsMemMapUpdate>>

(* E_PPC_Emulate_rfi takes IR and DR from SRR1 and clears POW. *)
Rfi ==
    /\ msr' = [ir |-> srr1.ir, dr |-> srr1.dr, pow |-> FALSE]
    /\ needsMemMapUpdate' = TRUE
    /\ fatalError' = (fatalError \/ ~MsrLegal(msr', lowPower))
    /\ UNCHANGED <<consoleType, srr1, lowPower, sbe, bat>>

(* The instruction that trapped.  The two constants restrict the guest,    *)
(* not the emulator.                                                       *)
Emulate ==
    \/ \E w \in BatWrites : (RealModeBats => ~Translating(msr)) /\ MtsprBat(w)
    \/ \E val \in Srr1 : MtsprSrr1(val)
    \/ \E low \in BOOLEAN : MtsprHid0(low)
    \/ \E val \in BOOLEAN : MtsprHid4(val)
    \/ \E val \in MsrVals :
          (RfiSwitches => val.ir = msr.ir /\ val.dr = msr.dr) /\ Mtmsr(val)
    \/ Rfi
    \/ MfsprHigh
    \/ Refused
    \/ Stored
=============================================================================
