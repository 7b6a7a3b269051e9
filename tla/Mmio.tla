-------------------------------- MODULE Mmio --------------------------------
(***************************************************************************)
(* What a load or a store of the guest does once the SIGSEGV handler has   *)
(* decided that it is for the chipset: the dispatch of the two buses       *)
(* (mmio/flipper.c, mmio/hollywood.c), the register blocks (mmio/pi.c,     *)
(* mi.c, ai.c, vi.c) and the hardware forwarded to (mmio/forward.c).       *)
(*                                                                         *)
(* A register is named, not addressed: a place is a bus, a block of it and *)
(* a register of that block.  The registers with storage are one function  *)
(* `dev`.  A word is a number below W * W, a half one below W.  An         *)
(* operator returns the set of what an access can do: the value loaded,    *)
(* the registers afterwards, whether a fatal error is reported, and        *)
(* whether the emulator itself faults.                                     *)
(***************************************************************************)
EXTENDS Naturals

CONSTANTS
    B,          \* 2^8
    W,          \* 2^16
    AiBits,     \* 2^12: what a store of 16 bits to AICR keeps
    HwVals      \* the values the hardware answers

Word == 0 .. W * W - 1
Half == 0 .. W - 1

ASSUME MmioAssumption ==
    /\ B \in Nat \ {0} /\ B % 2 = 0 /\ W = B * B
    /\ AiBits \in 1 .. W
    /\ HwVals \subseteq Word /\ HwVals # {}

PIRegs  == {"intsr", "intmr", "fifo_bs", "fifo_be", "fifo_wp"}
MIRegs  == {"protType", "intMask", "unk_20"}
Storage == PIRegs \cup MIRegs \cup {"aicr", "viclk"}

(* The width of an access: that of lwz is whatever the handler finds on    *)
(* its stack, Odd if that is none of 1, 2 and 4.                           *)
Odd    == 0
Widths == {1, 2, 4, Odd}

Does(v, d)  == [val |-> v, dev |-> d, fatal |-> FALSE, fault |-> FALSE]
Reports(d)  == {[val |-> 0, dev |-> d, fatal |-> TRUE, fault |-> FALSE]}
Answers(d)  == {Does(v, d) : v \in HwVals}
Store(d, r, v) == {Does(v, [d EXCEPT ![r] = v])}

-----------------------------------------------------------------------------
(* The blocks.  Each knows some registers by one width, and reports any    *)
(* other access; an access of no width at all falls off the end, and what  *)
(* a read then returns is left over in a register.                         *)
E_MMIO_PI_Read(d, reg, w) ==
    CASE w = Odd                    -> Answers(d)
      [] w = 4 /\ reg \in PIRegs    -> {Does(d[reg], d)}
      [] w = 4 /\ reg = "hwver"     -> Answers(d)
      [] OTHER                      -> Reports(d)

E_MMIO_PI_Write(d, reg, v, w) ==
    CASE w = 4 /\ reg \in PIRegs    -> Store(d, reg, v)
      [] w = 4 /\ reg = "hwver"     -> {Does(v, d)}
      [] OTHER                      -> Reports(d)

(* The default label of the 16-bit reads stands before that of protType,   *)
(* so a register the block does not know reads as protType.                *)
E_MMIO_MI_Read(d, reg, w) ==
    CASE w = Odd                    -> Answers(d)
      [] w = 2                      -> {Does(IF reg \in MIRegs THEN d[reg] ELSE d["protType"], d)}
      [] OTHER                      -> Reports(d)

E_MMIO_MI_Write(d, reg, v, w) ==
    IF w = 2 /\ reg \in MIRegs THEN Store(d, reg, v % W) ELSE Reports(d)

E_MMIO_AI_Read(d, reg, w) ==
    CASE w = Odd                    -> Answers(d)
      [] w = 4 /\ reg = "aicr"      -> {Does(d["aicr"], d)}
      [] w = 2 /\ reg = "aicr"      -> {Does(d["aicr"] % W, d)}
      [] OTHER                      -> Reports(d)

E_MMIO_AI_Write(d, reg, v, w) ==
    CASE w = 4 /\ reg = "aicr"      -> Store(d, "aicr", v)
      [] w = 2 /\ reg = "aicr"      -> Store(d, "aicr", (d["aicr"] \div W) * W + (v % AiBits))
      [] OTHER                      -> Reports(d)

(* Nothing ever writes VI's one register.                                  *)
E_MMIO_VI_Read(d, reg, w) ==
    CASE w = Odd                    -> Answers(d)
      [] w = 2 /\ reg = "viclk"     -> {Does(d["viclk"], d)}
      [] OTHER                      -> Reports(d)

E_MMIO_VI_Write(d, reg, v, w) == Reports(d)

(* The DSP's registers are module Dsp's: here an access is one it accepts  *)
(* or one it reports.                                                      *)
E_MMIO_DSP_Access(d) == Answers(d) \cup Reports(d)

(* The hardware's own registers, through the mapping of /dev/mem.  On a    *)
(* GameCube the one for Hollywood was never made and its base is NULL:     *)
(* the access faults, or meets the guest's low memory.                     *)
E_MMIO_Forwarded(d, bus, w, host) ==
    Answers(d) \cup
    IF bus = "hollywood" /\ host = "GameCube" /\ w # Odd
    THEN {[val |-> 0, dev |-> d, fatal |-> FALSE, fault |-> TRUE]} ELSE {}

-----------------------------------------------------------------------------
(* The dispatch.  The gaps between the blocks of page 6 read as zero and   *)
(* swallow what is written.                                                *)
E_MMIO_Flipper_Read(d, place, w, host) ==
    CASE place.block \in {"CP", "PE", "SI", "EXI"} -> E_MMIO_Forwarded(d, "flipper", w, host)
      [] place.block = "VI"  -> E_MMIO_VI_Read(d, place.reg, w)
      [] place.block = "PI"  -> E_MMIO_PI_Read(d, place.reg, w)
      [] place.block = "MI"  -> E_MMIO_MI_Read(d, place.reg, w)
      [] place.block = "DSP" -> E_MMIO_DSP_Access(d)
      [] place.block = "AI"  -> E_MMIO_AI_Read(d, place.reg, w)
      [] place.block = "gap" -> {Does(0, d)}
      [] OTHER               -> Reports(d)

E_MMIO_Flipper_Write(d, place, v, w, host) ==
    CASE place.block \in {"CP", "PE", "SI", "EXI"} -> E_MMIO_Forwarded(d, "flipper", w, host)
      [] place.block = "VI"  -> E_MMIO_VI_Write(d, place.reg, v, w)
      [] place.block = "PI"  -> E_MMIO_PI_Write(d, place.reg, v, w)
      [] place.block = "MI"  -> E_MMIO_MI_Write(d, place.reg, v, w)
      [] place.block = "DSP" -> E_MMIO_DSP_Access(d)
      [] place.block = "AI"  -> E_MMIO_AI_Write(d, place.reg, v, w)
      [] place.block = "gap" -> {Does(v, d)}
      [] OTHER               -> Reports(d)

E_MMIO_Hollywood_Read(d, place, w, host) ==
    CASE place.block \in {"SI", "EXI"} -> E_MMIO_Forwarded(d, "hollywood", w, host)
      [] place.block = "AI"  -> E_MMIO_AI_Read(d, place.reg, w)
      [] place.block = "gap" -> {Does(0, d)}
      [] OTHER               -> Reports(d)

E_MMIO_Hollywood_Write(d, place, v, w, host) ==
    CASE place.block \in {"SI", "EXI"} -> E_MMIO_Forwarded(d, "hollywood", w, host)
      [] place.block = "AI"  -> E_MMIO_AI_Write(d, place.reg, v, w)
      [] place.block = "gap" -> {Does(v, d)}
      [] OTHER               -> Reports(d)

Read(d, place, w, host) ==
    IF place.bus = "flipper" THEN E_MMIO_Flipper_Read(d, place, w, host)
                             ELSE E_MMIO_Hollywood_Read(d, place, w, host)

Write(d, place, v, w, host) ==
    IF place.bus = "flipper" THEN E_MMIO_Flipper_Write(d, place, v, w, host)
                             ELSE E_MMIO_Hollywood_Write(d, place, v, w, host)

(* Every block's registers are zero to begin with. *)
E_MMIO_Chipset_Init == [r \in Storage |-> 0]
=============================================================================
