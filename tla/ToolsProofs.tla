---------------------------- MODULE ToolsProofs ----------------------------
(***************************************************************************)
(* Proofs about dol-patch and dol-run on one file.  One inductive          *)
(* invariant for both: PatchInv says what dol-patch has looked up and      *)
(* written at each place, LoadInv what main has prepared, found and copied *)
(* at each place, with the timer's signal anywhere.                        *)
(***************************************************************************)
EXTENDS Tools, TLAPS

ToolsInv == TypeOK /\ PatchInv /\ LoadInv

-----------------------------------------------------------------------------
(* The header's layout, and the bytes of its words.                        *)

LEMMA Layout ==
    /\ NText \in Nat /\ NText > 0 /\ NData \in Nat /\ NData > 0
    /\ Sections = NText + NData /\ HdrWords = 3 * (NText + NData) + 3
    /\ textOff = 0 /\ dataOff = NText
    /\ textAddr = NText + NData /\ dataAddr = NText + NData + NText
    /\ textSize = 2 * (NText + NData) /\ dataSize = 2 * (NText + NData) + NText
    /\ bssAddr = 3 * (NText + NData) /\ bssSize = bssAddr + 1 /\ entry = bssAddr + 2
BY DolAssumption DEF Sections, HdrWords, textOff, dataOff, textAddr, dataAddr, textSize, dataSize,
    bssAddr, bssSize, entry

LEMMA HalvesFit ==
    ASSUME NEW v \in Value
    PROVE  v \div B \in Byte /\ v % B \in Byte /\ v = (v \div B) * B + (v % B)
<1>1. B \in Nat /\ B > 0 /\ v \in Nat /\ v < B * B
  BY DolAssumption DEF Value
<1>2. v % B \in Byte /\ v \div B \in Nat
  BY <1>1 DEF Byte
<1>3. v = (v \div B) * B + (v % B)
  BY <1>1
<1>4. v \div B < B
  <2> SUFFICES ASSUME v \div B >= B PROVE FALSE
    BY <1>1, <1>2
  <2>1. (v \div B) * B >= B * B
    BY <1>1, <1>2
  <2> QED
    BY <1>1, <1>2, <1>3, <2>1 DEF Byte
<1> QED
  BY <1>1, <1>2, <1>3, <1>4 DEF Byte

LEMMA WordFits ==
    ASSUME NEW h \in Byte, NEW l \in Byte
    PROVE  h * B + l \in Value /\ (h * B + l) \div B = h /\ (h * B + l) % B = l
<1>1. B \in Nat /\ B > 0 /\ h \in Nat /\ l \in Nat /\ h <= B - 1 /\ l <= B - 1
  BY DolAssumption DEF Byte
<1>2. h * B <= (B - 1) * B /\ (B - 1) * B = B * B - B /\ h * B \in Nat
  BY <1>1
<1>3. h * B + l \in Value
  BY <1>1, <1>2 DEF Value
<1>4. (h * B + l) \div B = h /\ (h * B + l) % B = l
  BY <1>1
<1> QED
  BY <1>3, <1>4

(* What dol-patch writes is, on a big-endian host, the value it was given, *)
(* whatever its own byte order.                                            *)
LEMMA DiskWord ==
    ASSUME NEW v \in Value, NEW o
    PROVE  /\ Stores(o, Htonl(o, v)) = <<v \div B, v % B>>
           /\ Stores(o, Htonl(o, v)) \in Byte \X Byte
           /\ LoadsAs("big", Stores(o, Htonl(o, v))) = v
<1>1. v \div B \in Byte /\ v % B \in Byte /\ v = (v \div B) * B + (v % B)
  BY HalvesFit
<1>2. Stores(o, Htonl(o, v)) = <<v \div B, v % B>>
  <2>1. CASE o = "big"
    BY <2>1 DEF Stores, Htonl
  <2>2. CASE o # "big"
    <3>1. Swapped(v) % B = v \div B /\ Swapped(v) \div B = v % B
      BY <1>1, WordFits DEF Swapped
    <3> QED
      BY <2>2, <3>1 DEF Stores, Htonl
  <2> QED
    BY <2>1, <2>2
<1>3. <<v \div B, v % B>> \in Byte \X Byte
  BY <1>1
<1>4. LoadsAs("big", <<v \div B, v % B>>) = v
  BY <1>1 DEF LoadsAs
<1> QED
  BY <1>2, <1>3, <1>4

LEMMA HeaderWords ==
    ASSUME NEW f \in File
    PROVE  Header(f) \in [0 .. HdrWords - 1 -> Value]
<1>1. \A b \in Byte \X Byte : LoadsAs("big", b) \in Value
  BY WordFits DEF LoadsAs
<1> QED
  BY <1>1 DEF File, Header

-----------------------------------------------------------------------------
(* dol-patch.                                                              *)

(* The offset a name selects is the field it means. *)
LEMMA FieldMeant ==
    ASSUME NEW n \in Names, IsField(n)
    PROVE  fieldOffset(n) \in 0 .. HdrWords - 1 /\ Means(n, fieldOffset(n))
<1>1. n.index \in Nat
  BY NamesAssumption
<1>2. CASE Indexed(n)
  <2>1. n.index < Count(n.kind) /\ n.part \in {"addr", "size", "off"} /\ n.kind \in {"text", "data"}
    BY <1>2 DEF IsField, Indexed, Bases
  <2>2. fieldOffset(n) = Bases(n.kind)[n.part] + n.index
    BY <1>2 DEF fieldOffset
  <2>3. fieldOffset(n) = CASE n.part = "off"  -> (IF n.kind = "text" THEN 0 ELSE NText) + n.index
                           [] n.part = "addr" -> Sections + (IF n.kind = "text" THEN 0 ELSE NText) + n.index
                           [] n.part = "size" -> 2 * Sections + (IF n.kind = "text" THEN 0 ELSE NText) + n.index
    <3>1. CASE n.kind = "text"
      BY <1>1, <2>1, <2>2, <3>1, Layout DEF Bases
    <3>2. CASE n.kind = "data"
      BY <1>1, <2>1, <2>2, <3>2, Layout DEF Bases
    <3> QED
      BY <2>1, <3>1, <3>2
  <2>4. Means(n, fieldOffset(n))
    BY <1>2, <2>1, <2>3 DEF Means
  <2>5. fieldOffset(n) \in 0 .. HdrWords - 1
    <3>1. CASE n.kind = "text"
      BY <1>1, <2>1, <2>3, <3>1, Layout DEF Count
    <3>2. CASE n.kind = "data"
      BY <1>1, <2>1, <2>3, <3>2, Layout DEF Count
    <3> QED
      BY <2>1, <3>1, <3>2
  <2> QED
    BY <2>4, <2>5
<1>3. CASE ~Indexed(n)
  <2>1. n.kind \in {"bss_addr", "bss_size", "entry"} /\ fieldOffset(n) = Single[n.kind]
    BY <1>3 DEF IsField, fieldOffset, Single
  <2> QED
    BY <2>1, Layout DEF Means, Single
<1> QED
  BY <1>2, <1>3

LEMMA PatchTypes ==
    ASSUME ToolsInv, PatchNext
    PROVE  /\ file' \in File /\ file'.hid4 = file.hid4 /\ file'.length = file.length
           /\ ppc' \in {"ready", "parsed", "open", "done", "failed"}
           /\ UNCHANGED <<arg, order, before>> /\ offset' \in 0 .. HdrWords - 1
<1>1. /\ file \in File /\ arg.name \in Names /\ offset \in 0 .. HdrWords - 1
      /\ ppc \in {"ready", "parsed", "open", "done", "failed"}
  BY DEF ToolsInv, TypeOK
<1>2. CASE PatchParse
  BY <1>1, <1>2, FieldMeant DEF PatchParse, Fail
<1>3. CASE PatchOpen
  BY <1>1, <1>3 DEF PatchOpen, Fail
<1>4. CASE PatchWrite
  <2>1. arg.text \in Value
    BY <1>4 DEF PatchWrite, ToolsInv, PatchInv
  <2>2. DiskValue(arg.text) \in Byte \X Byte
    BY <2>1, DiskWord DEF DiskValue
  <2>3. file.header[offset] \in Byte \X Byte
    BY <1>1 DEF File
  <2>4. \/ file' = file
        \/ \E b \in Byte \X Byte : file' = [file EXCEPT !.header[offset] = b]
    BY <1>4, <2>2, <2>3 DEF PatchWrite
  <2>5. file' \in File /\ file'.hid4 = file.hid4 /\ file'.length = file.length
    <3>1. ASSUME NEW b \in Byte \X Byte
          PROVE  [file.header EXCEPT ![offset] = b] \in [0 .. HdrWords - 1 -> Byte \X Byte]
      BY <1>1 DEF File
    <3> QED
      BY <1>1, <2>4, <3>1 DEF File
  <2> QED
    BY <1>1, <1>4, <2>5 DEF PatchWrite
<1> QED
  BY <1>2, <1>3, <1>4 DEF PatchNext

LEMMA PatchKeeps ==
    ASSUME ToolsInv, PatchNext
    PROVE  PatchInv'
<1>1. file \in File /\ arg.name \in Names /\ PatchInv
  BY DEF ToolsInv, TypeOK
<1>2. CASE PatchParse
  BY <1>1, <1>2 DEF PatchParse, Fail, PatchInv, PatchIsExact
<1>3. CASE PatchOpen
  BY <1>1, <1>3 DEF PatchOpen, Fail, PatchInv, PatchIsExact
<1>4. CASE PatchWrite
  <2>1. file = before /\ IsField(arg.name) /\ arg.text \in Value /\ offset = fieldOffset(arg.name)
    BY <1>1, <1>4 DEF PatchWrite, PatchInv
  <2>2. offset \in 0 .. HdrWords - 1 /\ Means(arg.name, offset)
    BY <1>1, <2>1, FieldMeant
  <2>3. UNCHANGED <<order, arg, offset, before>> /\ ppc' \in {"done", "failed"}
    BY <1>4 DEF PatchWrite
  <2>4. \A p \in 0 .. HdrWords - 1 : file'.header[p] # before.header[p] => p = offset
    <3>1. ASSUME NEW b, NEW p \in 0 .. HdrWords - 1, p # offset
          PROVE  [file EXCEPT !.header[offset] = b].header[p] = file.header[p]
      BY <1>1, <3>1 DEF File
    <3>2. CASE file' = file
      BY <2>1, <3>2
    <3>3. CASE \E b : file' = [file EXCEPT !.header[offset] = b]
      BY <2>1, <3>1, <3>3
    <3> QED
      BY <1>4, <3>2, <3>3 DEF PatchWrite
  <2>5. file'.hid4 = before.hid4 /\ file'.length = before.length
    BY <1>4, <2>1, PatchTypes DEF PatchNext
  <2>6. ppc' = "done" => Header(file') = [Header(before) EXCEPT ![offset] = arg.text]
    <3> SUFFICES ASSUME ppc' = "done" PROVE Header(file') = [Header(before) EXCEPT ![offset] = arg.text]
      OBVIOUS
    <3>1. file'.header[offset] = DiskValue(arg.text)
      BY <1>1, <1>4, <2>2 DEF PatchWrite, File
    <3>2. LoadsAs("big", file'.header[offset]) = arg.text
      BY <2>1, <3>1, DiskWord DEF DiskValue
    <3>3. \A p \in 0 .. HdrWords - 1 : p # offset => file'.header[p] = before.header[p]
      BY <2>4
    <3> QED
      BY <2>2, <3>2, <3>3 DEF Header
  <2>7. PatchIsExact'
    BY <2>1, <2>2, <2>3, <2>4, <2>5, <2>6 DEF PatchIsExact
  <2> QED
    BY <2>1, <2>3, <2>7 DEF PatchInv
<1> QED
  BY <1>2, <1>3, <1>4 DEF PatchNext

-----------------------------------------------------------------------------
(* dol-run: types, and what its steps leave alone.                         *)

LEMMA SectionTypes ==
    ASSUME LoadTypeOK, NEW n \in 0 .. Sections - 1
    PROVE  Section(n).off \in Nat /\ Section(n).addr \in Nat /\ Section(n).size \in Nat
<1>1. \A p \in 0 .. HdrWords - 1 : hdr[p] \in Nat
  BY DolAssumption DEF LoadTypeOK, Value
<1>2. CASE n < NText
  <2>1. /\ textOff + n \in 0 .. HdrWords - 1 /\ textAddr + n \in 0 .. HdrWords - 1
        /\ textSize + n \in 0 .. HdrWords - 1
    BY <1>2, Layout
  <2> QED
    BY <1>1, <1>2, <2>1 DEF Section
<1>3. CASE ~(n < NText)
  <2>1. /\ dataOff + n - NText \in 0 .. HdrWords - 1 /\ dataAddr + n - NText \in 0 .. HdrWords - 1
        /\ dataSize + n - NText \in 0 .. HdrWords - 1
    BY <1>3, Layout
  <2> QED
    BY <1>1, <1>3, <2>1 DEF Section
<1> QED
  BY <1>2, <1>3

(* The sections the two loops copy, and those the scan looks at. *)
LEMMA TextSection ==
    ASSUME NEW n \in 0 .. NText - 1
    PROVE  /\ n \in 0 .. Sections - 1
           /\ Section(n) = [off |-> hdr[textOff + n], addr |-> hdr[textAddr + n], size |-> hdr[textSize + n]]
BY Layout DEF Section

LEMMA DataSection ==
    ASSUME NEW n \in 0 .. NData - 1
    PROVE  /\ NText + n \in 0 .. Sections - 1
           /\ Section(NText + n) =
                 [off |-> hdr[dataOff + n], addr |-> hdr[dataAddr + n], size |-> hdr[dataSize + n]]
<1>1. /\ NText + n \in 0 .. Sections - 1 /\ ~(NText + n < NText)
      /\ dataOff + (NText + n) - NText = dataOff + n
      /\ dataAddr + (NText + n) - NText = dataAddr + n
      /\ dataSize + (NText + n) - NText = dataSize + n
  BY Layout
<1> QED
  BY <1>1 DEF Section

LEMMA ScannedSection ==
    ASSUME NEW n \in 0 .. NText
    PROVE  Section(n).off = hdr[textOff + n] /\ Section(n).size = hdr[textSize + n]
<1>1. CASE n < NText
  BY <1>1 DEF Section
<1>2. CASE n = NText
  <2>1. /\ ~(n < NText) /\ dataOff + n - NText = textOff + n /\ dataSize + n - NText = textSize + n
    BY <1>2, Layout
  <2> QED
    BY <2>1 DEF Section
<1> QED
  BY <1>1, <1>2, Layout

(* A hook is stored by its part's place, and counted by the next. *)
HookStep ==
    \/ Prepare("vi", "chipset", "viStore") \/ StoreHook("vi", "viStore", "viCount")
    \/ CountHook("viCount", "dsp")
    \/ Prepare("dsp", "dsp", "dspStore") \/ StoreHook("dsp", "dspStore", "dspCount")
    \/ CountHook("dspCount", "forward")
    \/ Prepare("dec", "cpu", "decStore") \/ StoreHook("dec", "decStore", "decCount")
    \/ CountHook("decCount", IF fatal THEN "exit1" ELSE "guest")

PlainStep == Open \/ Byteswap \/ Scan \/ Start \/ MemInit \/ Forwarding \/ CopyText \/ CopyData
             \/ Handlers \/ Remap \/ Tick

LEMMA Steps == LoadStep \/ Tick <=> PlainStep \/ Timer \/ HookStep
BY DEF LoadStep, PlainStep, HookStep, Chipset, CpuInit

LEMMA HooksKeep ==
    ASSUME ToolsInv, LoadStep \/ Tick
    PROVE  /\ HooksInv' /\ hookIdx' \in 0 .. 3 /\ ready' \subseteq {"vi", "dsp", "dec"}
           /\ hooks' \in [1 .. 4 -> {None, "vi", "dsp", "dec"}]
<1>1. /\ HooksInv /\ hookIdx \in 0 .. 3 /\ ready \subseteq {"vi", "dsp", "dec"}
      /\ hooks \in [1 .. 4 -> {None, "vi", "dsp", "dec"}]
  BY DEF ToolsInv, LoadInv, TypeOK, LoadTypeOK
<1>2. CASE PlainStep
  <2>1. UNCHANGED <<hooks, hookIdx, ready>>
    BY <1>2 DEF PlainStep, Open, Byteswap, Scan, Start, MemInit, Forwarding, CopyText, CopyData,
        LoadSection, Handlers, Remap, Tick, timer
  <2>2. \/ lpc' \in {"exit1", "killed"} \/ lpc' = lpc
        \/ /\ lpc \in {"open", "swap", "scan", "start", "memInit"}
           /\ lpc' \in {"swap", "scan", "timer", "memInit", "chipset"}
        \/ /\ lpc \in {"forward", "text", "data", "handlers", "remap"}
           /\ lpc' \in {"text", "data", "handlers", "remap", "cpu"}
    BY <1>2 DEF PlainStep, Open, Byteswap, Scan, Start, MemInit, Forwarding, CopyText, CopyData,
        LoadSection, Copy, Handlers, Remap, Tick, Goto, ReturnOne
  <2> QED
    BY <1>1, <2>1, <2>2 DEF HooksInv, Added
<1>3. CASE Timer
  BY <1>1, <1>3 DEF Timer, Goto, HooksInv, Added, None
<1>4. CASE HookStep
  <2>1. CASE \/ Prepare("vi", "chipset", "viStore") \/ Prepare("dsp", "dsp", "dspStore")
             \/ Prepare("dec", "cpu", "decStore")
    BY <1>1, <2>1 DEF Prepare, Goto, HooksInv, Added
  <2>2. CASE \/ StoreHook("vi", "viStore", "viCount") \/ StoreHook("dsp", "dspStore", "dspCount")
             \/ StoreHook("dec", "decStore", "decCount")
    BY <1>1, <2>2 DEF StoreHook, Goto, HooksInv, Added
  <2>3. CASE \/ CountHook("viCount", "dsp") \/ CountHook("dspCount", "forward")
             \/ CountHook("decCount", IF fatal THEN "exit1" ELSE "guest")
    BY <1>1, <2>3 DEF CountHook, Goto, HooksInv, Added
  <2> QED
    BY <1>4, <2>1, <2>2, <2>3 DEF HookStep
<1> QED
  BY <1>2, <1>3, <1>4, Steps

LEMMA CopiedWords ==
    ASSUME LoadTypeOK, NEW off \in Nat, NEW addr, NEW size \in Nat, NEW next, Copy(off, addr, size, next)
    PROVE  mem' \in [Memory -> Nat]
<1>1. CASE UNCHANGED mem
  BY <1>1 DEF LoadTypeOK
<1>2. CASE mem' = [a \in Memory |->
                     IF \E k \in 0 .. size - 1 : a \in Reaches(addr + k)
                     THEN off + (CHOOSE k \in 0 .. size - 1 : a \in Reaches(addr + k)) ELSE mem[a]]
  <2>1. ASSUME NEW a, \E k \in 0 .. size - 1 : a \in Reaches(addr + k)
        PROVE  (CHOOSE k \in 0 .. size - 1 : a \in Reaches(addr + k)) \in 0 .. size - 1
    BY <2>1
  <2> QED
    BY <1>2, <2>1 DEF LoadTypeOK
<1> QED
  BY <1>1, <1>2 DEF Copy

LEMMA LoadTypes ==
    ASSUME ToolsInv, LoadStep \/ Tick
    PROVE  LoadTypeOK' /\ PlaceInv'
<1>1. LoadTypeOK /\ PlaceInv /\ file \in File
  BY DEF ToolsInv, LoadInv, TypeOK
<1>2. /\ hookIdx' \in 0 .. 3 /\ ready' \subseteq {"vi", "dsp", "dec"}
      /\ hooks' \in [1 .. 4 -> {None, "vi", "dsp", "dec"}]
  BY HooksKeep
<1>3. CASE Byteswap
  <2>1. hdr' = Header(file)
    BY <1>3 DEF Byteswap, Htonl, Header
  <2>2. hdr' \in [0 .. HdrWords - 1 -> Value]
    BY <1>1, <2>1, HeaderWords
  <2>3. /\ lpc = "swap" /\ lpc' = "scan" /\ consoleType' = "GameCube"
        /\ UNCHANGED <<usePhys, mapped, mem, i, fatal, armed, handlers>>
    BY <1>3 DEF Byteswap, Goto, memory, timer
  <2> QED
    BY <1>1, <1>2, <2>2, <2>3, Layout DEF LoadTypeOK, PlaceInv, LPC
<1>4. CASE CopyText
  <2>1. lpc = "text" /\ i \in 0 .. NText - 1
    BY <1>1, <1>4, Layout DEF CopyText, LoadSection, PlaceInv, LoadTypeOK
  <2>2. i \in 0 .. Sections - 1 /\ Section(i).off = hdr[textOff + i] /\ Section(i).size = hdr[textSize + i]
    BY <2>1, TextSection
  <2>3. hdr[textOff + i] \in Nat /\ hdr[textSize + i] \in Nat
    BY <1>1, <2>2, SectionTypes
  <2>4. mem' \in [Memory -> Nat]
    BY <1>1, <1>4, <2>3, CopiedWords DEF CopyText, LoadSection, LoadTypeOK
  <2>5. lpc' \in {"text", "data", "killed"} /\ i' = (IF i + 1 = NText THEN 0 ELSE i + 1)
        /\ (lpc' # "killed" => lpc' = IF i + 1 = NText THEN "data" ELSE "text")
    BY <1>4 DEF CopyText, LoadSection, Copy, Goto
  <2> QED
    BY <1>1, <1>2, <1>4, <2>1, <2>4, <2>5, Layout DEF CopyText, LoadSection, LoadTypeOK, PlaceInv, LPC,
        Ends, image, timer
<1>5. CASE CopyData
  <2>1. lpc = "data" /\ i \in 0 .. NData - 1
    BY <1>1, <1>5, Layout DEF CopyData, LoadSection, PlaceInv, LoadTypeOK
  <2>2. NText + i \in 0 .. Sections - 1 /\ Section(NText + i).off = hdr[dataOff + i]
        /\ Section(NText + i).size = hdr[dataSize + i]
    <3>1. /\ NText + i \in 0 .. Sections - 1
          /\ Section(NText + i) =
                [off |-> hdr[dataOff + i], addr |-> hdr[dataAddr + i], size |-> hdr[dataSize + i]]
      BY <2>1, DataSection
    <3> QED
      BY <3>1
  <2>3. hdr[dataOff + i] \in Nat /\ hdr[dataSize + i] \in Nat
    BY <1>1, <2>2, SectionTypes
  <2>4. mem' \in [Memory -> Nat]
    BY <1>1, <1>5, <2>3, CopiedWords DEF CopyData, LoadSection, LoadTypeOK
  <2>5. lpc' \in {"data", "handlers", "killed"} /\ i' = (IF i + 1 = NData THEN 0 ELSE i + 1)
        /\ (lpc' # "killed" => lpc' = IF i + 1 = NData THEN "handlers" ELSE "data")
    BY <1>5 DEF CopyData, LoadSection, Copy, Goto
  <2> QED
    BY <1>1, <1>2, <1>5, <2>1, <2>4, <2>5, Layout DEF CopyData, LoadSection, LoadTypeOK, PlaceInv, LPC,
        Ends, image, timer
<1>6. CASE Scan
  <2>1. /\ lpc = "scan" /\ UNCHANGED <<hdr, usePhys, memory, fatal, timer, handlers>>
        /\ consoleType' \in {consoleType, "Wii"}
        /\ \/ lpc' = "timer" /\ i' = 0
           \/ i < NText /\ i' = i + 1 /\ lpc' = "scan"
           \/ lpc' = "killed" /\ i' = i
    BY <1>6 DEF Scan, Goto
  <2> QED
    BY <1>1, <1>2, <2>1, Layout DEF LoadTypeOK, PlaceInv, LPC, Ends, memory, timer
<1>7. CASE Open \/ Timer \/ Start \/ MemInit \/ Forwarding
  <2>1. CASE Open
    BY <1>1, <1>2, <2>1 DEF Open, Goto, ReturnOne, LoadTypeOK, PlaceInv, LPC, Ends, image, memory, timer
  <2>2. CASE Timer
    BY <1>1, <1>2, <2>2 DEF Timer, Goto, ReturnOne, LoadTypeOK, PlaceInv, LPC, Ends, image, memory
  <2>3. CASE Start
    BY <1>1, <1>2, <2>3 DEF Start, Goto, ReturnOne, LoadTypeOK, PlaceInv, LPC, Ends, memory, timer
  <2>4. CASE MemInit
    BY <1>1, <1>2, <2>4 DEF MemInit, Goto, ReturnOne, LoadTypeOK, PlaceInv, LPC, Ends, image, timer
  <2>5. CASE Forwarding
    BY <1>1, <1>2, <2>5, Layout DEF Forwarding, Goto, ReturnOne, LoadTypeOK, PlaceInv, LPC, Ends, image, memory, timer
  <2> QED
    BY <1>7, <2>1, <2>2, <2>3, <2>4, <2>5
<1>8. CASE Handlers \/ Remap \/ Tick
  <2>1. CASE Handlers
    BY <1>1, <1>2, <2>1 DEF Handlers, Goto, ReturnOne, LoadTypeOK, PlaceInv, LPC, Ends, image, timer
  <2>2. CASE Remap
    BY <1>1, <1>2, <2>2 DEF Remap, Goto, ReturnOne, LoadTypeOK, PlaceInv, LPC, Ends, image, timer
  <2>3. CASE Tick
    BY <1>1, <1>2, <2>3 DEF Tick, Goto, ReturnOne, LoadTypeOK, PlaceInv, LPC, Ends, image, memory, timer
  <2> QED
    BY <1>8, <2>1, <2>2, <2>3
<1>9. CASE HookStep
  BY <1>1, <1>2, <1>9 DEF HookStep, Prepare, StoreHook, CountHook, Goto, LoadTypeOK, PlaceInv, LPC, Ends,
      image, memory
<1> QED
  BY <1>3, <1>4, <1>5, <1>6, <1>7, <1>8, <1>9, Steps DEF PlainStep

-----------------------------------------------------------------------------
(* The scan.                                                               *)

LEMMA ScanKeeps ==
    ASSUME ToolsInv, LoadStep \/ Tick, UNCHANGED file
    PROVE  ScanInv'
<1>1. LoadTypeOK /\ PlaceInv /\ ScanInv /\ file \in File
  BY DEF ToolsInv, LoadInv, TypeOK
<1>2. UNCHANGED hdr => \A n \in 0 .. NText : Hid4In(n)' <=> Hid4In(n)
  BY DEF Hid4In, Section
<1>3. CASE lpc \in {"open", "swap"}
  <2>1. Open \/ Byteswap \/ Tick
    BY <1>3 DEF LoadStep, Scan, Timer, Start, MemInit, Chipset, Prepare, StoreHook, CountHook,
        Forwarding, CopyText, CopyData, LoadSection, Handlers, Remap, CpuInit
  <2>2. lpc' \in {"open", "swap", "scan", "exit1", "killed"} /\ (lpc' = "scan" => consoleType' = "GameCube" /\ i' = 0)
    BY <1>1, <1>3, <2>1 DEF Open, Byteswap, Tick, Goto, ReturnOne, PlaceInv
  <2>3. \A n \in 0 .. NText : ~(n < 0)
    BY Layout
  <2> QED
    BY <2>2, <2>3 DEF ScanInv
<1>4. CASE Scan
  <2>1. lpc = "scan" /\ UNCHANGED hdr /\ i \in 0 .. NText
    BY <1>1, <1>4, Layout DEF Scan, PlaceInv, LoadTypeOK
  <2>2. Hid4In(i) <=> \E w \in Scans(i) : w < file.length /\ w \in file.hid4
    <3>1. Section(i).off = hdr[textOff + i] /\ Section(i).size = hdr[textSize + i]
      BY <2>1, ScannedSection
    <3> QED
      BY <3>1 DEF Hid4In, Scans
  <2>3. CASE \E w \in Scans(i) : w < file.length /\ w \in file.hid4
    <3>1. (consoleType' = "Wii" /\ lpc' = "timer") 
      BY <1>4, <2>3 DEF Scan, Goto
    <3> QED
      BY <1>2, <2>1, <2>2, <2>3, <3>1 DEF ScanInv
  <2>4. CASE ~\E w \in Scans(i) : w < file.length /\ w \in file.hid4
    <3>1. /\ UNCHANGED consoleType
          /\ \/ lpc' = "killed"
             \/ i < NText /\ i' = i + 1 /\ lpc' = lpc
             \/ ~(i < NText) /\ lpc' = "timer"
      BY <1>4, <2>4 DEF Scan, Goto
    <3>2. ~Hid4In(i) /\ consoleType = "GameCube" /\ \A n \in 0 .. NText : n < i => ~Hid4In(n)
      BY <1>1, <2>1, <2>2, <2>4 DEF ScanInv
    <3>3. CASE lpc' = "killed"
      BY <3>3 DEF ScanInv
    <3>4. CASE i < NText /\ i' = i + 1 /\ lpc' = lpc
      <4>1. \A n \in 0 .. NText : n < i + 1 => n < i \/ n = i
        BY <2>1
      <4> QED
        BY <1>2, <2>1, <3>1, <3>2, <3>4, <4>1 DEF ScanInv
    <3>5. CASE ~(i < NText) /\ lpc' = "timer"
      <4>1. \A n \in 0 .. NText : n < i \/ n = i
        BY <2>1, <3>5, Layout
      <4> QED
        BY <1>2, <2>1, <3>1, <3>2, <3>5, <4>1 DEF ScanInv
    <3> QED
      BY <3>1, <3>3, <3>4, <3>5
  <2> QED
    BY <2>3, <2>4
<1>5. CASE lpc \notin {"open", "swap"} /\ ~Scan
  <2>1. UNCHANGED <<hdr, consoleType>> /\ (lpc' \in {"open", "swap", "scan"} => lpc' = lpc /\ i' = i)
    BY <1>5 DEF LoadStep, Open, Byteswap, Timer, Start, MemInit, Chipset, Prepare, StoreHook,
        CountHook, Forwarding, CopyText, CopyData, LoadSection, Copy, Handlers, Remap, CpuInit, Tick, Goto,
        ReturnOne, image
  <2>2. lpc = "scan" => lpc' \in {"scan", "killed"}
    BY <1>5 DEF LoadStep, Open, Byteswap, Timer, Start, MemInit, Chipset, Prepare, StoreHook,
        CountHook, Forwarding, CopyText, CopyData, LoadSection, Handlers, Remap, CpuInit, Tick, Goto
  <2>3. lpc \in {"exit1", "killed"} => lpc' = lpc
    BY DEF LoadStep, Open, Byteswap, Scan, Timer, Start, MemInit, Chipset, Prepare, StoreHook,
        CountHook, Forwarding, CopyText, CopyData, LoadSection, Handlers, Remap, CpuInit, Tick, Ends
  <2> QED
    BY <1>1, <1>2, <1>5, <2>1, <2>2, <2>3 DEF ScanInv
<1> QED
  BY <1>3, <1>4, <1>5

-----------------------------------------------------------------------------
(* The sections.                                                           *)

(* While nothing is mapped for real mode an address is its own place. *)
LEMMA ReachesItself ==
    ASSUME mapped # "real", NEW a
    PROVE  Reaches(a) \subseteq {a} /\ (mapped = "none" => Reaches(a) \subseteq Hog)
BY DEF Reaches

(* What one section leaves in memory. *)
LEMMA OneSection ==
    ASSUME LoadTypeOK, mapped # "real", NEW off \in Nat, NEW addr \in Nat, NEW size \in Nat, NEW next,
           Copy(off, addr, size, next), lpc' # "killed", next # "killed", NEW a \in Memory
    PROVE  /\ a \in addr .. addr + size - 1 => mem'[a] = off + (a - addr)
           /\ a \notin addr .. addr + size - 1 => mem'[a] = mem[a]
<1>1. /\ \A k \in 0 .. size - 1 : Reaches(addr + k) # {}
      /\ mem' = [b \in Memory |->
                    IF \E k \in 0 .. size - 1 : b \in Reaches(addr + k)
                    THEN off + (CHOOSE k \in 0 .. size - 1 : b \in Reaches(addr + k)) ELSE mem[b]]
  BY DEF Copy, Goto
<1>2. \A k \in 0 .. size - 1 : Reaches(addr + k) = {addr + k}
  BY <1>1, ReachesItself
<1>3. a \in Nat
  BY AddressAssumption DEF Memory, Places, Places2
<1>4. CASE a \in addr .. addr + size - 1
  <2>1. a - addr \in 0 .. size - 1 /\ addr + (a - addr) = a
    BY <1>3, <1>4
  <2>2. a \in Reaches(addr + (a - addr))
    BY <1>2, <2>1
  <2>3. \A k \in 0 .. size - 1 : a \in Reaches(addr + k) => k = a - addr
    BY <1>2, <1>3
  <2> DEFINE c == CHOOSE k \in 0 .. size - 1 : a \in Reaches(addr + k)
  <2>4. c = a - addr
    BY <2>1, <2>2, <2>3
  <2> QED
    BY <1>1, <1>4, <2>1, <2>2, <2>4
<1>5. CASE a \notin addr .. addr + size - 1
  <2>1. ~\E k \in 0 .. size - 1 : a \in Reaches(addr + k)
    BY <1>2, <1>3, <1>5
  <2> QED
    BY <1>1, <1>5, <2>1
<1> QED
  BY <1>4, <1>5

(* The step that copies section g, or leaves it out, is right about it and *)
(* takes nothing back.                                                     *)
LEMMA SectionKeeps ==
    ASSUME ToolsInv, NEW g \in 0 .. Sections - 1, NEW next, next # "killed",
           ~usePhys, lpc \notin {"exit1", "killed"}, lpc' # "killed",
           UNCHANGED <<hdr, mapped>>,
           IF Section(g).size = 0 \/ Section(g).off = 0
           THEN UNCHANGED mem ELSE Copy(Section(g).off, Section(g).addr, Section(g).size, next),
           \A n \in 0 .. Sections - 1 : Copied(n) <=> n < g,
           \A n \in 0 .. Sections - 1 : Copied(n)' <=> n <= g
    PROVE  /\ mapped' # "real"
           /\ \A a \in Memory : Linked(a)'
           /\ mapped' = "none" =>
                \A n \in 0 .. Sections - 1, a \in Places \cup Places2 : Copied(n)' => ~Covers(n, a)'
<1>1. LoadTypeOK /\ MemoryInv
  BY DEF ToolsInv, LoadInv, TypeOK
<1>2. /\ mapped # "real" /\ \A a \in Memory : Linked(a)
      /\ mapped = "none" =>
            \A n \in 0 .. Sections - 1, a \in Places \cup Places2 : Copied(n) => ~Covers(n, a)
  BY <1>1 DEF MemoryInv
<1>3. \A n \in 0 .. Sections - 1 : Section(n)' = Section(n) /\ \A a : Covers(n, a)' <=> Covers(n, a)
  BY DEF Section, Covers, Loadable
<1>4. Section(g).off \in Nat /\ Section(g).addr \in Nat /\ Section(g).size \in Nat
  BY <1>1, SectionTypes
<1>5. ASSUME NEW a \in Memory
      PROVE  /\ Covers(g, a) => mem'[a] = Section(g).off + (a - Section(g).addr)
             /\ ~Covers(g, a) => mem'[a] = mem[a]
  <2>1. CASE Section(g).size = 0 \/ Section(g).off = 0
    BY <2>1 DEF Covers, Loadable
  <2>2. CASE ~(Section(g).size = 0 \/ Section(g).off = 0)
    BY <1>1, <1>2, <1>4, <2>2, OneSection DEF Covers, Loadable
  <2> QED
    BY <2>1, <2>2
<1>6. ASSUME NEW a \in Memory PROVE Linked(a)'
  <2>1. CASE Covers(g, a)
    <3>1. mem'[a] = Section(g)'.off + (a - Section(g)'.addr) /\ Covers(g, a)' /\ Copied(g)'
      BY <1>3, <1>5, <2>1
    <3>2. \A m \in g + 1 .. Sections - 1 : ~Copied(m)'
      <4>1. \A m \in g + 1 .. Sections - 1 : m \in 0 .. Sections - 1 /\ ~(m <= g)
        BY Layout
      <4> QED
        BY <4>1
    <3> QED
      BY <3>1, <3>2 DEF Linked
  <2>2. CASE ~Covers(g, a)
    <3>1. mem'[a] = mem[a] /\ ~Covers(g, a)'
      BY <1>3, <1>5, <2>2
    <3>2. \A n \in 0 .. Sections - 1 : Copied(n) => Copied(n)' 
      BY Layout
    <3>3. \A n \in 0 .. Sections - 1 : Copied(n)' => Copied(n) \/ n = g
      BY Layout
    <3>4. CASE mem[a] = Fresh /\ \A n \in 0 .. Sections - 1 : Copied(n) => ~Covers(n, a)
      BY <1>3, <3>1, <3>3, <3>4 DEF Linked
    <3>5. ASSUME NEW n \in 0 .. Sections - 1, Copied(n), Covers(n, a),
                 \A m \in n + 1 .. Sections - 1 : Copied(m) => ~Covers(m, a),
                 mem[a] = Section(n).off + (a - Section(n).addr)
          PROVE  Linked(a)'
      <4>1. Copied(n)' /\ Covers(n, a)' /\ mem'[a] = Section(n)'.off + (a - Section(n)'.addr)
        BY <1>3, <3>1, <3>2, <3>5
      <4>2. \A m \in n + 1 .. Sections - 1 : Copied(m)' => ~Covers(m, a)'
        <5>1. \A m \in n + 1 .. Sections - 1 : m \in 0 .. Sections - 1
          BY Layout
        <5> QED
          BY <1>3, <3>1, <3>3, <3>5, <5>1
      <4> QED
        BY <4>1, <4>2 DEF Linked
    <3> QED
      BY <1>2, <3>4, <3>5 DEF Linked
  <2> QED
    BY <2>1, <2>2
<1>7. ASSUME mapped' = "none", NEW n \in 0 .. Sections - 1, NEW a \in Places \cup Places2, Copied(n)'
      PROVE  ~Covers(n, a)'
  <2>1. CASE n < g
    BY <1>2, <1>3, <1>7, <2>1
  <2>2. CASE n = g
    <3> SUFFICES ASSUME Covers(g, a) PROVE FALSE
      BY <1>3, <2>2
    <3>1. /\ ~(Section(g).size = 0 \/ Section(g).off = 0)
          /\ a \in Section(g).addr .. Section(g).addr + Section(g).size - 1
      BY DEF Covers, Loadable
    <3>2. a \in Nat /\ a - Section(g).addr \in 0 .. Section(g).size - 1
          /\ Section(g).addr + (a - Section(g).addr) = a
      BY <1>4, <3>1, AddressAssumption DEF Places, Places2
    <3>3. \A k \in 0 .. Section(g).size - 1 : Reaches(Section(g).addr + k) # {}
      BY <3>1 DEF Copy, Goto
    <3>4. Reaches(a) # {}
      BY <3>2, <3>3
    <3>5. a \in Hog
      BY <1>2, <1>7, <3>4, ReachesItself
    <3> QED
      BY <3>5, AddressAssumption
  <2> QED
    BY <1>7, <2>1, <2>2, Layout
<1> QED
  BY <1>2, <1>6, <1>7

(* Steps that copy nothing: what is linked stays so when no other section  *)
(* counts as copied, and before the loops memory is fresh.                 *)
LEMMA NothingCopied ==
    ASSUME ToolsInv, ~usePhys', lpc' \notin {"exit1", "killed"},
           UNCHANGED <<hdr, mem, usePhys>>, lpc \notin {"exit1", "killed"},
           mapped' # "real", mapped' = "none" => mapped = "none",
           \A n \in 0 .. Sections - 1 : Copied(n)' <=> Copied(n)
    PROVE  MemoryInv'
<1>1. MemoryInv
  BY DEF ToolsInv, LoadInv
<1>2. \A n \in 0 .. Sections - 1 : Section(n)' = Section(n) /\ \A a : Covers(n, a)' <=> Covers(n, a)
  BY DEF Section, Covers, Loadable
<1>3. ASSUME NEW a \in Memory PROVE Linked(a)'
  <2>1. Linked(a) /\ mem'[a] = mem[a]
    BY <1>1 DEF MemoryInv
  <2>2. CASE mem[a] = Fresh /\ \A n \in 0 .. Sections - 1 : Copied(n) => ~Covers(n, a)
    BY <1>2, <2>1, <2>2 DEF Linked
  <2>3. ASSUME NEW n \in 0 .. Sections - 1, Copied(n), Covers(n, a),
               \A m \in n + 1 .. Sections - 1 : Copied(m) => ~Covers(m, a),
               mem[a] = Section(n).off + (a - Section(n).addr)
        PROVE  Linked(a)'
    <3>1. Copied(n)' /\ Covers(n, a)' /\ mem'[a] = Section(n)'.off + (a - Section(n)'.addr)
      BY <1>2, <2>1, <2>3
    <3>2. \A m \in n + 1 .. Sections - 1 : Copied(m)' => ~Covers(m, a)'
      <4>1. \A m \in n + 1 .. Sections - 1 : m \in 0 .. Sections - 1
        BY Layout
      <4> QED
        BY <1>2, <2>3, <4>1
    <3> QED
      BY <3>1, <3>2 DEF Linked
  <2> QED
    BY <2>1, <2>2, <2>3 DEF Linked
<1>4. ASSUME mapped' = "none", NEW n \in 0 .. Sections - 1, NEW a \in Places \cup Places2, Copied(n)'
      PROVE  ~Covers(n, a)'
  BY <1>1, <1>2, <1>4 DEF MemoryInv
<1> QED
  BY <1>3, <1>4 DEF MemoryInv

Early == {"open", "swap", "scan", "timer", "start", "memInit"}

LEMMA FreshKeeps ==
    ASSUME ToolsInv, lpc \in Early, ~usePhys, UNCHANGED mem, mapped' # "real",
           \A n \in 0 .. Sections - 1 : ~Copied(n)'
    PROVE  MemoryInv'
<1>1. \A n \in 0 .. Sections - 1 : ~Copied(n)
  BY DEF Early, Copied
<1>2. \A a \in Memory : mem[a] = Fresh
  BY <1>1 DEF ToolsInv, LoadInv, MemoryInv, Linked, Early
<1> QED
  BY <1>2 DEF MemoryInv, Linked

LEMMA MemoryKeeps ==
    ASSUME ToolsInv, LoadStep \/ Tick
    PROVE  MemoryInv'
<1> SUFFICES ASSUME ~usePhys', lpc' \notin {"exit1", "killed"} PROVE MemoryInv'
  BY DEF MemoryInv
<1>1. LoadTypeOK /\ PlaceInv /\ MemoryInv
  BY DEF ToolsInv, LoadInv, TypeOK
<1>2. CASE Tick
  <2>1. UNCHANGED <<lpc, hdr, mem, usePhys, mapped, i>> /\ lpc \notin {"exit1", "killed"}
    BY <1>2 DEF Tick, Goto, Ends, image, memory
  <2>2. \A n \in 0 .. Sections - 1 : Copied(n)' <=> Copied(n)
    BY <2>1 DEF Copied
  <2>3. mapped # "real"
    BY <1>1, <2>1 DEF MemoryInv
  <2> QED
    BY <2>1, <2>2, <2>3, NothingCopied
<1>3. CASE Open \/ Byteswap \/ Scan \/ Timer \/ Start \/ MemInit
  <2>1. /\ lpc \in Early /\ lpc' \in Early \cup {"chipset"} /\ UNCHANGED mem
        /\ mapped' = mapped \/ mapped' \in {"none", "translated"}
        /\ usePhys' = usePhys \/ lpc = "start"
    BY <1>3 DEF Open, Byteswap, Scan, Timer, Start, MemInit, Goto, ReturnOne, Early, image, memory
  <2>2. ~usePhys
    BY <1>1, <2>1 DEF PlaceInv
  <2>3. mapped' # "real"
    BY <1>1, <2>1, <2>2 DEF MemoryInv, Early
  <2>4. \A n \in 0 .. Sections - 1 : ~Copied(n)'
    BY <2>1 DEF Copied, Early
  <2> QED
    BY <2>1, <2>2, <2>3, <2>4, FreshKeeps
<1>4. CASE HookStep \/ Forwarding
  <2>1. /\ UNCHANGED <<hdr, mem, usePhys, mapped, i>> /\ lpc \notin {"exit1", "killed"}
        /\ \/ /\ lpc \in {"chipset", "viStore", "viCount", "dsp", "dspStore", "dspCount", "forward"}
              /\ lpc' \in {"viStore", "viCount", "dsp", "dspStore", "dspCount", "forward", "text"}
           \/ lpc \in {"cpu", "decStore", "decCount"} /\ lpc' \in {"decStore", "decCount", "guest"}
    BY <1>4 DEF HookStep, Prepare, StoreHook, CountHook, Forwarding, Goto, ReturnOne, image, memory
  <2>2. lpc' = "text" => i' = 0
    BY <1>1, <2>1 DEF PlaceInv
  <2>3. \A n \in 0 .. Sections - 1 : Copied(n)' <=> Copied(n)
    <3>1. \A n \in 0 .. Sections - 1 : ~(n < 0)
      BY Layout
    <3> QED
      BY <2>1, <2>2, <3>1 DEF Copied
  <2>4. mapped # "real"
    BY <1>1, <2>1 DEF MemoryInv
  <2> QED
    BY <2>1, <2>3, <2>4, NothingCopied
<1>5. CASE Handlers \/ Remap
  <2>1. /\ UNCHANGED <<hdr, mem, usePhys>> /\ lpc \in {"handlers", "remap"} /\ lpc' \in {"remap", "cpu"}
        /\ lpc = "handlers" => mapped' = mapped
    BY <1>5 DEF Handlers, Remap, Goto, ReturnOne, image
  <2>2. lpc = "handlers"
    BY <1>1, <1>5, <2>1 DEF PlaceInv
  <2>3. \A n \in 0 .. Sections - 1 : Copied(n)' <=> Copied(n)
    BY <2>1 DEF Copied
  <2>4. mapped # "real"
    BY <1>1, <2>1 DEF MemoryInv
  <2> QED
    BY <2>1, <2>2, <2>3, <2>4, NothingCopied
<1>6. CASE CopyText
  <2>1. lpc = "text" /\ i \in 0 .. NText - 1
    BY <1>1, <1>6, Layout DEF CopyText, LoadSection, PlaceInv, LoadTypeOK
  <2>2. i \in 0 .. Sections - 1
        /\ Section(i) = [off |-> hdr[textOff + i], addr |-> hdr[textAddr + i], size |-> hdr[textSize + i]]
    BY <2>1, TextSection
  <2> DEFINE next == IF i + 1 = NText THEN "data" ELSE "text"
  <2>3. /\ UNCHANGED <<hdr, mapped, usePhys>> /\ lpc' = next /\ i' = IF i + 1 = NText THEN 0 ELSE i + 1
        /\ IF hdr[textSize + i] = 0 \/ hdr[textOff + i] = 0
           THEN UNCHANGED mem ELSE Copy(hdr[textOff + i], hdr[textAddr + i], hdr[textSize + i], next)
    BY <1>6 DEF CopyText, LoadSection, Copy, Goto, image
  <2>4. IF Section(i).size = 0 \/ Section(i).off = 0
        THEN UNCHANGED mem ELSE Copy(Section(i).off, Section(i).addr, Section(i).size, next)
    BY <2>2, <2>3
  <2>5. \A n \in 0 .. Sections - 1 : Copied(n) <=> n < i
    BY <2>1 DEF Copied
  <2>6. \A n \in 0 .. Sections - 1 : Copied(n)' <=> n <= i
    <3>1. CASE i + 1 = NText
      BY <2>1, <2>3, <3>1, Layout DEF Copied
    <3>2. CASE i + 1 # NText
      BY <2>1, <2>3, <3>2, Layout DEF Copied
    <3> QED
      BY <3>1, <3>2
  <2>7. next # "killed" /\ ~usePhys /\ lpc \notin {"exit1", "killed"} /\ lpc' # "killed"
    BY <2>1, <2>3
  <2> HIDE DEF next
  <2> QED
    BY <2>2, <2>3, <2>4, <2>5, <2>6, <2>7, SectionKeeps DEF MemoryInv
<1>7. CASE CopyData
  <2>1. lpc = "data" /\ i \in 0 .. NData - 1
    BY <1>1, <1>7, Layout DEF CopyData, LoadSection, PlaceInv, LoadTypeOK
  <2>2. NText + i \in 0 .. Sections - 1
        /\ Section(NText + i) = [off |-> hdr[dataOff + i], addr |-> hdr[dataAddr + i], size |-> hdr[dataSize + i]]
    BY <2>1, DataSection
  <2> DEFINE next == IF i + 1 = NData THEN "handlers" ELSE "data"
             g    == NText + i
  <2>3. /\ UNCHANGED <<hdr, mapped, usePhys>> /\ lpc' = next /\ i' = IF i + 1 = NData THEN 0 ELSE i + 1
        /\ IF hdr[dataSize + i] = 0 \/ hdr[dataOff + i] = 0
           THEN UNCHANGED mem ELSE Copy(hdr[dataOff + i], hdr[dataAddr + i], hdr[dataSize + i], next)
    BY <1>7 DEF CopyData, LoadSection, Copy, Goto, image
  <2>4. IF Section(g).size = 0 \/ Section(g).off = 0
        THEN UNCHANGED mem ELSE Copy(Section(g).off, Section(g).addr, Section(g).size, next)
    BY <2>2, <2>3
  <2>5. \A n \in 0 .. Sections - 1 : Copied(n) <=> n < g
    BY <2>1 DEF Copied
  <2>6. \A n \in 0 .. Sections - 1 : Copied(n)' <=> n <= g
    <3>1. CASE i + 1 = NData
      BY <2>1, <2>3, <3>1, Layout DEF Copied
    <3>2. CASE i + 1 # NData
      BY <2>1, <2>3, <3>2, Layout DEF Copied
    <3> QED
      BY <3>1, <3>2
  <2>7. next # "killed" /\ ~usePhys /\ lpc \notin {"exit1", "killed"} /\ lpc' # "killed" /\ g \in 0 .. Sections - 1
    BY <2>1, <2>2, <2>3
  <2> HIDE DEF next, g
  <2> QED
    BY <2>3, <2>4, <2>5, <2>6, <2>7, SectionKeeps DEF MemoryInv
<1> QED
  BY <1>2, <1>3, <1>4, <1>5, <1>6, <1>7, Steps DEF PlainStep

-----------------------------------------------------------------------------
(* The two programs together.                                              *)

LEMMA StartsRight == Init => ToolsInv
<1> SUFFICES ASSUME Init PROVE ToolsInv
  OBVIOUS
<1>1. file \in File
  BY ImagesAssumption DEF Init
<1>2. \A p \in 0 .. HdrWords - 1 : 0 \in Value
  BY DolAssumption DEF Value
<1>3. LoadTypeOK
  <2>1. 0 \in Nat /\ 0 \in 0 .. Sections /\ Fresh \in Nat
    BY Layout DEF Fresh
  <2>2. hdr \in [0 .. HdrWords - 1 -> Value]
    BY <1>2 DEF Init, LoadInit
  <2>3. mem \in [Memory -> Nat]
    BY <2>1 DEF Init, LoadInit
  <2>4. hooks \in [1 .. 4 -> {None, "vi", "dsp", "dec"}]
    BY DEF Init, LoadInit
  <2>5. /\ lpc \in LPC /\ consoleType \in {"none", "GameCube", "Wii"}
        /\ mapped \in {"none", "translated", "real"}
    BY DEF Init, LoadInit, LPC
  <2>6. usePhys \in BOOLEAN /\ fatal \in BOOLEAN /\ armed \in BOOLEAN /\ handlers \in BOOLEAN
    BY DEF Init, LoadInit
  <2>7. i \in 0 .. Sections /\ hookIdx \in 0 .. 3
    BY <2>1 DEF Init, LoadInit
  <2>8. ready \subseteq {"vi", "dsp", "dec"}
    BY DEF Init, LoadInit
  <2> QED
    BY <2>2, <2>3, <2>4, <2>5, <2>6, <2>7, <2>8 DEF LoadTypeOK
<1>4. TypeOK
  BY <1>1, <1>3, Layout DEF Init, PatchInit, TypeOK
<1>5. PatchInv
  BY DEF Init, PatchInit, PatchInv, PatchIsExact
<1>6. LoadInv
  <2>1. HooksInv
    BY DEF Init, LoadInit, HooksInv, Added
  <2>2. MemoryInv
    BY DEF Init, LoadInit, MemoryInv, Linked, Copied
  <2>3. ScanInv /\ PlaceInv
    BY DEF Init, LoadInit, ScanInv, PlaceInv
  <2> QED
    BY <2>1, <2>2, <2>3 DEF LoadInv
<1> QED
  BY <1>4, <1>5, <1>6 DEF ToolsInv

(* A step of one program leaves the other's part of the invariant. *)
LEMMA LoadFrame ==
    ASSUME LoadTypeOK, LoadInv, UNCHANGED loadVars, file'.hid4 = file.hid4, file'.length = file.length
    PROVE  LoadTypeOK' /\ LoadInv'
<1>1. UNCHANGED <<lpc, hdr, consoleType, usePhys, mapped, mem, i, fatal, hooks, hookIdx, ready, armed, handlers>>
  BY DEF loadVars
<1>2. LoadTypeOK'
  BY <1>1 DEF LoadTypeOK
<1>3. HooksInv' /\ PlaceInv'
  BY <1>1 DEF LoadInv, HooksInv, Added, PlaceInv
<1>4. MemoryInv'
  BY <1>1 DEF LoadInv, MemoryInv, Linked, Copied, Covers, Loadable, Section
<1>5. \A n : Hid4In(n)' <=> Hid4In(n)
  BY <1>1 DEF Hid4In, Section
<1>6. ScanInv'
  BY <1>1, <1>5 DEF LoadInv, ScanInv
<1> QED
  BY <1>2, <1>3, <1>4, <1>6 DEF LoadInv

LEMMA PatchFrame ==
    ASSUME PatchInv, UNCHANGED <<file, patchVars>>
    PROVE  PatchInv'
<1>1. UNCHANGED <<file, ppc, order, arg, offset, before>>
  BY DEF patchVars
<1>2. PatchIsExact'
  BY <1>1 DEF PatchInv, PatchIsExact
<1> QED
  BY <1>1, <1>2 DEF PatchInv

LEMMA StepKeeps ==
    ASSUME ToolsInv, [Next]_vars
    PROVE  ToolsInv'
<1>1. TypeOK /\ LoadTypeOK /\ PatchInv /\ LoadInv
  BY DEF ToolsInv, TypeOK
<1>2. CASE PatchNext /\ UNCHANGED loadVars
  <2>1. /\ file' \in File /\ file'.hid4 = file.hid4 /\ file'.length = file.length
        /\ ppc' \in {"ready", "parsed", "open", "done", "failed"}
        /\ UNCHANGED <<arg, order, before>> /\ offset' \in 0 .. HdrWords - 1
    BY <1>2, PatchTypes
  <2>2. LoadTypeOK' /\ LoadInv'
    BY <1>1, <1>2, <2>1, LoadFrame
  <2>3. TypeOK'
    BY <1>1, <2>1, <2>2 DEF TypeOK
  <2> QED
    BY <1>2, <2>2, <2>3, PatchKeeps DEF ToolsInv
<1>3. CASE LoadNext /\ UNCHANGED patchVars
  <2>1. (LoadStep \/ Tick) /\ UNCHANGED file
    BY <1>3 DEF LoadNext
  <2>2. LoadTypeOK' /\ PlaceInv' /\ HooksInv' /\ MemoryInv' /\ ScanInv'
    BY <2>1, LoadTypes, HooksKeep, MemoryKeeps, ScanKeeps
  <2>3. PatchInv'
    BY <1>1, <1>3, <2>1, PatchFrame
  <2>4. TypeOK'
    BY <1>1, <1>3, <2>1, <2>2 DEF TypeOK, patchVars
  <2> QED
    BY <2>2, <2>3, <2>4 DEF ToolsInv, LoadInv
<1>4. CASE UNCHANGED vars
  <2>1. UNCHANGED <<file, patchVars>> /\ UNCHANGED loadVars
    BY <1>4 DEF vars
  <2>2. LoadTypeOK' /\ LoadInv' /\ PatchInv'
    BY <1>1, <2>1, LoadFrame, PatchFrame
  <2>3. TypeOK'
    BY <1>1, <2>1, <2>2 DEF TypeOK, patchVars
  <2> QED
    BY <2>2, <2>3 DEF ToolsInv
<1> QED
  BY <1>2, <1>3, <1>4 DEF Next

LEMMA Invariant == Spec => []ToolsInv
BY StartsRight, StepKeeps, PTL DEF Spec

(* Both programs keep their types: the header dol-patch writes is one any  *)
(* host can swap, and no loop of main leaves the tables it walks.          *)
THEOREM TypesHold == Spec => []TypeOK
<1>1. ToolsInv => TypeOK
  BY DEF ToolsInv
<1> QED
  BY <1>1, Invariant, PTL

(* dol-patch that succeeds has set the field it was asked for, whatever    *)
(* the byte order of its host, and one that fails no other field           *)
(* (dol-patch/main.c:124, main.c:151).                                     *)
THEOREM PatchIsExactHolds == Spec => []PatchIsExact
<1>1. ToolsInv => PatchIsExact
  BY DEF ToolsInv, PatchInv
<1> QED
  BY <1>1, Invariant, PTL

(* Wherever the timer's signal comes, the hooks it runs are there and are  *)
(* of parts whose state is initialised (timer.c:40, main.c:140).           *)
THEOREM HooksAreReadyHolds == Spec => []HooksAreReady
<1>1. ASSUME ToolsInv PROVE HooksAreReady
  <2>1. None \notin {"vi", "dsp", "dec"}
    BY DEF None
  <2>2. ready \subseteq {"vi", "dsp", "dec"} /\ \A n \in 1 .. hookIdx : hooks[n] \in ready
    BY <1>1 DEF ToolsInv, TypeOK, LoadTypeOK, LoadInv, HooksInv
  <2> QED
    BY <2>1, <2>2 DEF HooksAreReady
<1> QED
  BY <1>1, Invariant, PTL

(* When the guest begins, a word of memory is what the last section that   *)
(* covers it has there, whatever the image (main.c:179, main.c:191).       *)
THEOREM LoadedAsLinkedHolds == Spec => []LoadedAsLinked
<1>1. ASSUME ToolsInv PROVE LoadedAsLinked
  <2> SUFFICES ASSUME lpc = "guest", ~usePhys, NEW a \in Memory
               PROVE  \/ mem[a] = Fresh /\ \A n \in 0 .. Sections - 1 : ~Covers(n, a)
                      \/ \E n \in 0 .. Sections - 1 :
                            /\ Covers(n, a)
                            /\ \A m \in n + 1 .. Sections - 1 : ~Covers(m, a)
                            /\ mem[a] = Section(n).off + (a - Section(n).addr)
    BY DEF LoadedAsLinked
  <2>1. Linked(a)
    BY <1>1 DEF ToolsInv, LoadInv, MemoryInv
  <2>2. \A n \in 0 .. Sections - 1 : Copied(n)
    BY DEF Copied
  <2>3. \A n \in 0 .. Sections - 1 : \A m \in n + 1 .. Sections - 1 : Copied(m)
    BY DEF Copied
  <2> QED
    BY <2>1, <2>2, <2>3 DEF Linked
<1> QED
  BY <1>1, Invariant, PTL

(* No guest starts without the memory a section of its image is in,        *)
(* though nothing looks at what E_MemInit returned (main.c:163), nor       *)
(* without the handlers and the hooks, nor with a fatal error.             *)
THEOREM StartsPreparedHolds == Spec => []StartsPrepared
<1>1. ASSUME ToolsInv PROVE StartsPrepared
  <2> SUFFICES ASSUME lpc = "guest"
               PROVE  /\ handlers /\ ready = {"vi", "dsp", "dec"} /\ hookIdx = 3 /\ ~fatal
                      /\ usePhys \/ (\E n \in 0 .. Sections - 1, a \in Places \cup Places2 : Covers(n, a))
                            => mapped = IF usePhys THEN "real" ELSE "translated"
    BY DEF StartsPrepared
  <2>1. LoadTypeOK /\ HooksInv /\ MemoryInv /\ PlaceInv
    BY <1>1 DEF ToolsInv, TypeOK, LoadInv
  <2>2. handlers /\ ~fatal /\ (usePhys => mapped = "real")
    BY <2>1 DEF PlaceInv
  <2>3. hookIdx = 3 /\ ready = {"vi", "dsp", "dec"}
    BY <2>1 DEF HooksInv, Added, LoadTypeOK
  <2>4. ASSUME ~usePhys, NEW n \in 0 .. Sections - 1, NEW a \in Places \cup Places2, Covers(n, a)
        PROVE  mapped = "translated"
    <3>1. Copied(n)
      BY DEF Copied
    <3> QED
      BY <2>1, <2>4, <3>1 DEF MemoryInv, LoadTypeOK
  <2> QED
    BY <2>2, <2>3, <2>4
<1> QED
  BY <1>1, Invariant, PTL

(* No guest whose text writes to HID4 is started as a GameCube's: the scan *)
(* goes through all of every text section, to the file's end (main.c:125). *)
THEOREM TextHid4IsWiiHolds == Spec => []TextHid4IsWii
<1>1. ASSUME ToolsInv, lpc = "guest", NEW n \in 0 .. NText - 1, Hid4In(n)
      PROVE  consoleType = "Wii"
  <2>1. n \in 0 .. NText
    BY DolAssumption
  <2> QED
    BY <1>1, <2>1 DEF ToolsInv, LoadInv, ScanInv
<1>2. ToolsInv => TextHid4IsWii
  BY <1>1 DEF TextHid4IsWii
<1> QED
  BY <1>2, Invariant, PTL

(* A field set before dol-run came to the header is what dol-run loads by  *)
(* (types.h, main.c:111).                                                  *)
THEOREM PatchIsLoadedHolds == Spec => PatchIsLoaded
<1>1. ASSUME ToolsInv, Byteswap, ppc = "done"
      PROVE  \E p \in 0 .. HdrWords - 1 : Means(arg.name, p) /\ hdr'[p] = arg.text
  <2>1. hdr' = Header(file)
    BY <1>1 DEF Byteswap, Htonl, Header
  <2>2. PICK p \in 0 .. HdrWords - 1 :
            Means(arg.name, p) /\ Header(file) = [Header(before) EXCEPT ![p] = arg.text]
    BY <1>1 DEF ToolsInv, PatchInv, PatchIsExact
  <2>3. Header(file)[p] = arg.text
    BY <2>2 DEF Header
  <2> QED
    BY <2>1, <2>2, <2>3
<1>2. ToolsInv /\ [Next]_vars =>
        [Byteswap /\ ppc = "done" =>
          \E p \in 0 .. HdrWords - 1 : Means(arg.name, p) /\ hdr'[p] = arg.text]_vars
  BY <1>1
<1> QED
  BY <1>2, Invariant, PTL DEF Spec, PatchIsLoaded
=============================================================================
