---------------------------- MODULE BatTranslate ----------------------------
(***************************************************************************)
(* The address translation the emulator does in software (mem.c,           *)
(* E_MemVirtToPhys and E_MemPhysToVirt) and the way the SIGSEGV handler    *)
(* uses it (emu.c): 32-bit arithmetic over the BATs, first match wins.     *)
(*                                                                         *)
(* Addresses are numbers modulo ASize.  A BAT's address fields are         *)
(* multiples of Unit (128 KB), its length is a power of two of Units, the  *)
(* longest (256 MB) a sixteenth of the address space.                      *)
(***************************************************************************)
EXTENDS Naturals

CONSTANTS
    ASize,      \* 2^32
    Unit,       \* 128 KB
    Blocks,     \* {2^k : k \in 0 .. 11}: the lengths of a block, in Units
    Longest,    \* 2^11
    MaxBat,     \* 4 on Gekko, 8 on Broadway
    Writes      \* the BAT registers the guest may write, with their values

ASSUME SizesAssumption ==
    /\ Unit \in Nat \ {0}
    /\ Longest \in Blocks /\ ASize = 16 * (Longest * Unit)
    /\ Blocks \subseteq Nat \ {0} /\ \A n \in Blocks : ASize % (n * Unit) = 0
    /\ MaxBat \in Nat \ {0, 1}

Addr    == 0 .. ASize - 1
Side    == {"I", "D"}
BatIdx  == 0 .. MaxBat - 1
Upper   == [bepi : Addr, bl : Nat, valid : BOOLEAN]     \* valid: VS or VP
Lower   == [bprn : Addr, rw : BOOLEAN]                  \* rw: PP is read-write

ASSUME WritesAssumption ==
    \A w \in Writes : w.side \in Side /\ w.i \in BatIdx /\ (w.val \in Upper \/ w.val \in Lower)

VARIABLES
    upper,      \* ibatu, dbatu
    lower       \* ibatl, dbatl

vars == <<upper, lower>>

(* BATs are registers. *)
TypeOK ==
    /\ upper \in [Side -> [BatIdx -> Upper]]
    /\ lower \in [Side -> [BatIdx -> Lower]]

-----------------------------------------------------------------------------
(* E_MemPPCBlockLenToBytes: any length that is not 2^k - 1 is none. *)
Length(bl) == IF bl + 1 \in Blocks THEN (bl + 1) * Unit ELSE 0

Size(s, i) == Length(upper[s][i].bl)

(* Mutant: the address behind the block is taken for part of it. *)
WithinAndBehind(a, base, size) == a >= base /\ a <= (base + size) % ASize

(* a >= base && a < base + size, the sum taken modulo 2^32. *)
Within(a, base, size) == a >= base /\ a < (base + size) % ASize

(* Masking out the bits of an address below a power of two. *)
Floor(a, size) == a - (a % size)

NotMapped == [addr |-> 0, mapped |-> FALSE, writable |-> FALSE]

Least(S) == CHOOSE i \in S : \A j \in S : i <= j

E_MemVirtToPhys(a, s) ==
    LET hits == {i \in BatIdx : upper[s][i].valid /\ Within(a, upper[s][i].bepi, Size(s, i))}
        i    == Least(hits)
    IN  IF hits = {} THEN NotMapped
        ELSE [addr     |-> (Floor(lower[s][i].bprn, Size(s, i)) + (a - upper[s][i].bepi)) % ASize,
              mapped   |-> TRUE,
              writable |-> lower[s][i].rw]

E_MemPhysToVirt(p, s) ==
    LET hits == {i \in BatIdx : upper[s][i].valid /\ Within(p, lower[s][i].bprn, Size(s, i))}
        i    == Least(hits)
    IN  IF hits = {} THEN NotMapped
        ELSE [addr     |-> (upper[s][i].bepi + ((lower[s][i].bprn + Size(s, i)) - p)) % ASize,
              mapped   |-> TRUE,
              writable |-> lower[s][i].rw]

(* Mutant: the DBATs are not tried. *)
ResolveFetch(a) == E_MemVirtToPhys(a, "I")

(* What E_SIGSEGV_Handler makes of a faulting address while translating:   *)
(* every access, a load or a store, is tried in the IBATs first.           *)
Resolve(a) ==
    LET fetch == E_MemVirtToPhys(a, "I")
    IN  IF fetch.mapped THEN fetch ELSE E_MemVirtToPhys(a, "D")

-----------------------------------------------------------------------------
(* The default BATs of E_MemInit, of the longest length; MEM2 has the      *)
(* fifth BATs, which a Gekko does not have.                                *)
Segment == ASize \div 16
NoUpper == [bepi |-> 0, bl |-> 0, valid |-> FALSE]
NoLower == [bprn |-> 0, rw |-> FALSE]
At(n)   == [bepi |-> n * Segment, bl |-> Longest - 1, valid |-> TRUE]
To(n)   == [bprn |-> n * Segment, rw |-> TRUE]

Init ==
    /\ upper = [s \in Side |-> [i \in BatIdx |->
                   CASE i = 0             -> At(8)
                     [] i = 1 /\ s = "D"  -> At(12)
                     [] i = 4             -> At(9)
                     [] i = 5 /\ s = "D"  -> At(13)
                     [] OTHER             -> NoUpper]]
    /\ lower = [s \in Side |-> [i \in BatIdx |->
                   CASE i = 0 \/ (i = 1 /\ s = "D") -> To(0)
                     [] i = 4 \/ (i = 5 /\ s = "D") -> To(1)
                     [] OTHER                       -> NoLower]]

(* mtspr to an upper or to a lower half: the other half keeps its value    *)
(* until the guest gets to it.                                             *)
MtsprBatU(w) ==
    /\ w.val \in Upper
    /\ upper' = [upper EXCEPT ![w.side][w.i] = w.val]
    /\ UNCHANGED lower

(* Mutant: the wrong half is written. *)
MtsprBatLtoU(w) ==
    /\ w.val \in Lower
    /\ upper' = [upper EXCEPT ![w.side][w.i] = w.val]
    /\ UNCHANGED lower

MtsprBatL(w) ==
    /\ w.val \in Lower
    /\ lower' = [lower EXCEPT ![w.side][w.i] = w.val]
    /\ UNCHANGED upper

Next == \E w \in Writes : MtsprBatU(w) \/ MtsprBatL(w)

Spec == Init /\ [][Next]_vars

-----------------------------------------------------------------------------
(* The processor's own rule: a BAT matches an address when the two agree   *)
(* in the bits above the block length, and replaces those bits.            *)
Matches(a, s, i) ==
    /\ upper[s][i].valid
    /\ Size(s, i) # 0
    /\ Floor(a, Size(s, i)) = Floor(upper[s][i].bepi, Size(s, i))

Replaced(a, s, i) == Floor(lower[s][i].bprn, Size(s, i)) + (a % Size(s, i))

(* The programming the processor asks for: blocks start on a multiple of   *)
(* their length and two BATs of a side do not match one address.           *)
WellFormed(s) ==
    /\ \A i \in BatIdx : upper[s][i].valid /\ Size(s, i) # 0
                            => upper[s][i].bepi % Size(s, i) = 0
    /\ \A a \in Addr, i, j \in BatIdx : Matches(a, s, i) /\ Matches(a, s, j) => i = j

(* A block that ends where the address space ends. *)
EndsAtTop(s, i) == upper[s][i].bepi + Size(s, i) = ASize

(* Translation in software is the processor's, for every address and both  *)
(* sides, except that a block at the top of the address space is lost: its *)
(* end wraps to 0 (mem.c, vaddr < bepi + size).                            *)
TranslatesLikeHardware ==
    \A s \in Side : WellFormed(s) =>
        \A a \in Addr :
            LET r == E_MemVirtToPhys(a, s)
            IN  /\ r.mapped <=> \E i \in BatIdx : Matches(a, s, i) /\ ~EndsAtTop(s, i)
                /\ \A i \in BatIdx : Matches(a, s, i) /\ r.mapped => r.addr = Replaced(a, s, i)

(* The block of a data access is the data BAT's or, if there is one, the   *)
(* instruction BAT's: software that maps both sides alike gets what the    *)
(* processor would give it, and an address no BAT has is never resolved.   *)
DataResolvesLikeHardware ==
    WellFormed("I") /\ WellFormed("D") =>
        \A a \in Addr, d \in BatIdx :
            Matches(a, "D", d) /\ ~EndsAtTop("D", d)
            /\ (\A i \in BatIdx : Matches(a, "I", i) => Replaced(a, "I", i) = Replaced(a, "D", d))
            => Resolve(a).mapped /\ Resolve(a).addr = Replaced(a, "D", d)

(* mem.h, "Get a valid mapped address for a given physical address": the   *)
(* address that comes back translates to the one that was asked for.       *)
PhysToVirtIsInverse ==
    \A p \in Addr :
        LET v == E_MemPhysToVirt(p, "D")
        IN  v.mapped => /\ E_MemVirtToPhys(v.addr, "D").mapped
                        /\ E_MemVirtToPhys(v.addr, "D").addr = p
=============================================================================
