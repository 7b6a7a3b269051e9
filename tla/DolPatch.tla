------------------------------ MODULE DolPatch ------------------------------
(***************************************************************************)
(* dol-patch (dol-patch/main.c): one word of the header, chosen by name,   *)
(* is written in place.  The host may have either byte order.  A name is   *)
(* a record [kind, index, part]; kind "other" stands for all that is not   *)
(* the name of a field.                                                    *)
(***************************************************************************)
EXTENDS DolFile

CONSTANTS
    Names,      \* the names of fields that are tried
    Texts,      \* the values: what is no hexadecimal number of 32 bits is not in Value
    Orders      \* of bytes, of the hosts dol-patch runs on

ASSUME NamesAssumption == \A n \in Names : n.index \in Nat

VARIABLES
    ppc,        \* "ready", "parsed", "open", "done" or "failed"
    order,      \* the byte order of its host
    arg,        \* the name and the value it was given
    offset,     \* offset
    before      \* history: the file it was given

patchVars == <<ppc, order, arg, offset, before>>

Bases(kind) ==
    IF kind = "text" THEN [addr |-> textAddr, size |-> textSize, off |-> textOff]
                     ELSE [addr |-> dataAddr, size |-> dataSize, off |-> dataOff]

Count(kind) == IF kind = "text" THEN NText ELSE NData

Single == [bss_addr |-> bssAddr, bss_size |-> bssSize, entry |-> entry]

(* Mutant: an index one too large is accepted. *)
IsFieldOnePast(n) == IF n.kind \in {"text", "data"} THEN n.index <= Count(n.kind) /\ n.part \in DOMAIN Bases(n.kind)
                                   ELSE n.kind \in DOMAIN Single

(* parseIndexedField and fieldOffset: whether there is such a field, and   *)
(* where it is.                                                            *)
Indexed(n)     == n.kind \in {"text", "data"}
IsField(n)     == IF Indexed(n) THEN n.index < Count(n.kind) /\ n.part \in DOMAIN Bases(n.kind)
                                ELSE n.kind \in DOMAIN Single
fieldOffset(n) == IF Indexed(n) THEN Bases(n.kind)[n.part] + n.index ELSE Single[n.kind]

PatchInit ==
    /\ ppc = "ready"
    /\ order \in Orders
    /\ arg \in [name : Names, text : Texts]
    /\ offset = 0
    /\ before = file

Fail == ppc' = "failed" /\ UNCHANGED <<file, order, arg, offset, before>>

PatchParse ==
    /\ ppc = "ready"
    /\ \/ /\ IsField(arg.name) /\ arg.text \in Value
          /\ offset' = fieldOffset(arg.name)
          /\ ppc' = "parsed"
          /\ UNCHANGED <<file, order, arg, before>>
       \/ ~(IsField(arg.name) /\ arg.text \in Value) /\ Fail

(* open and fstat may fail, and the file may be too small for a header.    *)
PatchOpen ==
    /\ ppc = "parsed"
    /\ \/ /\ file.length >= HdrSize
          /\ ppc' = "open"
          /\ UNCHANGED <<file, order, arg, offset, before>>
       \/ Fail

(* Mutant: the value is written as the host has it. *)
DiskValueHost(v) == Stores(order, v)

DiskValue(v) == Stores(order, Htonl(order, v))

(* pwrite writes all of the word, a part of it, or nothing; close may fail *)
(* after it.                                                               *)
PatchWrite ==
    /\ ppc = "open"
    /\ LET b == DiskValue(arg.text)
       IN  \/ /\ file' = [file EXCEPT !.header[offset] = b]
              /\ ppc' \in {"done", "failed"}
           \/ /\ file' = [file EXCEPT !.header[offset] = <<b[1], @[2]>>]
              /\ ppc' = "failed"
           \/ ppc' = "failed" /\ UNCHANGED file
    /\ UNCHANGED <<order, arg, offset, before>>

PatchNext == PatchParse \/ PatchOpen \/ PatchWrite

(* The field a name means, by README.md and the comments of types.h: what  *)
(* a loader would call it.                                                 *)
Means(n, p) ==
    \/ /\ Indexed(n) /\ n.index < Count(n.kind)
       /\ p = CASE n.part = "off"  -> (IF n.kind = "text" THEN 0 ELSE NText) + n.index
                [] n.part = "addr" -> Sections + (IF n.kind = "text" THEN 0 ELSE NText) + n.index
                [] n.part = "size" -> 2 * Sections + (IF n.kind = "text" THEN 0 ELSE NText) + n.index
    \/ n.kind = "bss_addr" /\ p = 3 * Sections
    \/ n.kind = "bss_size" /\ p = 3 * Sections + 1
    \/ n.kind = "entry"    /\ p = 3 * Sections + 2

(* dol-patch that succeeds has set the field it was asked for to the value *)
(* it was given, whatever the byte order of its host, and nothing else;    *)
(* one that fails has touched no other field either, and none if the name  *)
(* or the value was bad (dol-patch/main.c:124, main.c:151).                *)
PatchIsExact ==
    /\ ppc = "done" => \E p \in 0 .. HdrWords - 1 :
          Means(arg.name, p) /\ Header(file) = [Header(before) EXCEPT ![p] = arg.text]
    /\ \A p \in 0 .. HdrWords - 1 :
          file.header[p] # before.header[p] => Means(arg.name, p) /\ arg.text \in Value
    /\ file.hid4 = before.hid4 /\ file.length = before.length

(* What keeps it so: the file is untouched until the write, whose field    *)
(* has been looked up by then.                                             *)
PatchInv ==
    /\ ppc \in {"ready", "parsed", "open"} => file = before
    /\ ppc \in {"parsed", "open", "done"} =>
          IsField(arg.name) /\ arg.text \in Value /\ offset = fieldOffset(arg.name)
    /\ PatchIsExact
=============================================================================
