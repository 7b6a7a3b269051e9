------------------------------ MODULE DolFile ------------------------------
(***************************************************************************)
(* A DOL file: the header (common/types.h) and what dol-patch and dol-run  *)
(* share of it.  A word of the header is a pair of bytes on disk, most     *)
(* significant first, and a number below B * B in a program.  Positions,   *)
(* offsets and sizes are counted in words.                                 *)
(***************************************************************************)
EXTENDS Naturals

CONSTANTS
    B,          \* 2^16
    NText,      \* 7
    NData,      \* 11
    PadWords,   \* 7: the padding at the header's end, of no meaning
    Images      \* the files: [header, hid4, length]

VARIABLE file

Byte  == 0 .. B - 1
Value == 0 .. B * B - 1

ASSUME DolAssumption ==
    /\ B \in Nat \ {0}
    /\ NText \in Nat \ {0} /\ NData \in Nat \ {0} /\ PadWords \in Nat

(* DOL_Hdr_t: where each array and field begins, the words that mean       *)
(* something, and all of them.                                             *)
Sections == NText + NData
textOff  == 0
dataOff  == textOff + NText
textAddr == dataOff + NData
dataAddr == textAddr + NText
textSize == dataAddr + NData
dataSize == textSize + NText
bssAddr  == 3 * Sections
bssSize  == bssAddr + 1
entry    == bssSize + 1
HdrWords == entry + 1
HdrSize  == HdrWords + PadWords

File == [header : [0 .. HdrWords - 1 -> Byte \X Byte],
         hid4   : SUBSET Nat,       \* the words of it that write HID4
         length : Nat]

ASSUME ImagesAssumption == Images \subseteq File

(* Mutant: the high half is not cut off. *)
SwappedLow(v)   == (v % B) * B + v

(* The bytes a program of a host of either byte order stores for a word,   *)
(* what it loads from them, and the conversion htonl and ntohl make.       *)
Swapped(v)      == (v % B) * B + v \div B
Stores(o, v)    == IF o = "big" THEN <<v \div B, v % B>> ELSE <<v % B, v \div B>>
LoadsAs(o, b)   == IF o = "big" THEN b[1] * B + b[2] ELSE b[2] * B + b[1]
Htonl(o, v)     == IF o = "big" THEN v ELSE Swapped(v)

(* The words as a program of a big-endian host finds them. *)
Header(f) == [p \in 0 .. HdrWords - 1 |-> LoadsAs("big", f.header[p])]
=============================================================================
