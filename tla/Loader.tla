------------------------------- MODULE Loader -------------------------------
(***************************************************************************)
(* dol-run from its start to the guest's first instruction (main.c): the   *)
(* console type is found by a scan of the image, the timer and the chipset *)
(* are set up, the guest's memory is made, the sections are copied into    *)
(* it, the signal handlers are installed.  Until then a fault kills the    *)
(* process.  The timer's signal may arrive from E_Timer_Init on.           *)
(*                                                                         *)
(* An address is a number: MEM1 is seen at V1 by a translating guest and   *)
(* at 0 in real mode, MEM2 at V2, and some words at Hog are the emulator's *)
(* own (dummyData.c), always there.  How the mappings are made is module   *)
(* MemMap's; here they are there or not.                                   *)
(***************************************************************************)
EXTENDS DolFile, Sequences

CONSTANTS
    V1, Mem1,   \* 0x80000000, the words of MEM1
    V2, Mem2,   \* 0x90000000, the words of MEM2
    Hog,        \* addresses
    BS1         \* 0x80003400

VARIABLES
    lpc,        \* where main is
    hdr,        \* the header, after DOL_Hdr_Byteswap
    consoleType,
    usePhys,
    mapped,     \* "none", "translated" or "real"
    mem,        \* the guest's memory: the place in the file each word is from
    i,          \* the section of the loop
    fatal,      \* E_State.fatalError
    hooks,      \* timersHooks up to hookIdx, and the entry after it
    hookIdx,
    ready,      \* the parts whose state is initialised
    armed,      \* SIGALRM is on
    handlers    \* SIGSEGV and SIGILL have their handlers

loadVars == <<lpc, hdr, consoleType, usePhys, mapped, mem, i, fatal, hooks, hookIdx,
              ready, armed, handlers>>

None    == "none"   \* an empty entry of the hook table
Fresh   == HdrWords \* a word of memory nobody has loaded: the header's end is no section's place
Ends    == {"guest", "exit1", "killed"}
Places  == V1 .. V1 + Mem1 - 1
Places2 == V2 .. V2 + Mem2 - 1
Memory  == Places \cup Places2 \cup Hog

ASSUME AddressAssumption ==
    /\ V1 \in Nat /\ V2 \in Nat /\ Mem1 \in Nat /\ Mem2 \in Nat /\ Hog \subseteq Nat
    /\ Hog \cap (Places \cup Places2) = {}

LPC == {"open", "swap", "scan", "timer", "start", "memInit", "chipset", "viStore", "viCount",
        "dsp", "dspStore", "dspCount", "forward", "text", "data", "handlers", "remap", "cpu",
        "decStore", "decCount"} \cup Ends

LoadTypeOK ==
    /\ lpc \in LPC
    /\ hdr \in [0 .. HdrWords - 1 -> Value]
    /\ consoleType \in {"none", "GameCube", "Wii"}
    /\ usePhys \in BOOLEAN /\ fatal \in BOOLEAN /\ armed \in BOOLEAN /\ handlers \in BOOLEAN
    /\ mapped \in {"none", "translated", "real"}
    /\ mem \in [Memory -> Nat]
    /\ i \in 0 .. Sections
    /\ hooks \in [1 .. 4 -> {None, "vi", "dsp", "dec"}] /\ hookIdx \in 0 .. 3
    /\ ready \subseteq {"vi", "dsp", "dec"}

LoadInit ==
    /\ lpc = "open"
    /\ hdr = [p \in 0 .. HdrWords - 1 |-> 0]
    /\ consoleType = "none" /\ usePhys = FALSE
    /\ mapped = "none"
    /\ mem = [a \in Memory |-> Fresh]
    /\ i = 0
    /\ fatal = FALSE
    /\ hooks = [n \in 1 .. 4 |-> None] /\ hookIdx = 0 /\ ready = {}
    /\ armed = FALSE /\ handlers = FALSE

image   == <<hdr, consoleType, usePhys>>
memory  == <<mapped, mem>>
timer   == <<hooks, hookIdx, ready, armed>>

Goto(where) == lpc' = where
ReturnOne   == lpc' = "exit1"

-----------------------------------------------------------------------------
(* The host's model, open, fstat, mmap: each may end it. *)
Open ==
    /\ lpc = "open"
    /\ Goto("swap") \/ ReturnOne
    /\ UNCHANGED <<image, memory, i, fatal, timer, handlers>>

Byteswap ==
    /\ lpc = "swap"
    /\ hdr' = [p \in 0 .. HdrWords - 1 |-> Htonl("big", LoadsAs("big", file.header[p]))]
    /\ consoleType' = "GameCube"
    /\ Goto("scan")
    /\ UNCHANGED <<usePhys, memory, i, fatal, timer, handlers>>

(* Mutant: the last word of a section is not looked at. *)
ScansShort(n) == {hdr[textOff + n] + j : j \in {k \in Value : k + 1 < hdr[textSize + n]}}

(* The words of the file that section n of the scan covers.  The arrays of *)
(* a header follow each other: what the scan takes for text section NText  *)
(* is data section 0.                                                      *)
Scans(n) == {hdr[textOff + n] + j : j \in {k \in Value : k < hdr[textSize + n]}}

(* One section of the scan for a write to HID4.  What is past the file's   *)
(* end is zero to the end of the page, and kills the process after it.     *)
Scan ==
    /\ lpc = "scan"
    /\ \/ /\ \E w \in Scans(i) : w < file.length /\ w \in file.hid4
          /\ consoleType' = "Wii" /\ i' = 0 /\ Goto("timer")
       \/ /\ \A w \in Scans(i) : w < file.length => w \notin file.hid4
          /\ UNCHANGED consoleType
          /\ IF i < NText THEN i' = i + 1 /\ UNCHANGED lpc ELSE i' = 0 /\ Goto("timer")
       \/ /\ \A w \in Scans(i) : w < file.length => w \notin file.hid4
          /\ \E w \in Scans(i) : w >= file.length
          /\ Goto("killed")
          /\ UNCHANGED <<consoleType, i>>
    /\ UNCHANGED <<hdr, usePhys, memory, fatal, timer, handlers>>

(* E_Timer_Init: the hooks are cleared, then the signal is on; setitimer   *)
(* may fail.                                                               *)
Timer ==
    /\ lpc = "timer"
    /\ hooks' = [n \in 1 .. 4 |-> None] /\ hookIdx' = 0
    /\ \/ armed' = TRUE /\ fatal' = FALSE
       \/ fatal' = TRUE /\ UNCHANGED armed
    /\ Goto("start")
    /\ UNCHANGED <<image, memory, i, ready, handlers>>

Start ==
    /\ lpc = "start"
    /\ usePhys' = (hdr[textAddr] = BS1)
    /\ Goto("memInit")
    /\ UNCHANGED <<hdr, consoleType, memory, i, fatal, timer, handlers>>

(* E_MemInit.  What it returns is not looked at: when the memory could not *)
(* be made nothing is mapped and no fatal error set.  When the mapping     *)
(* fails, a fatal error is set.  In real mode nothing is mapped yet.       *)
MemInit ==
    /\ lpc = "memInit"
    /\ \/ mapped' = "none" /\ UNCHANGED fatal
       \/ ~usePhys /\ mapped' = "translated" /\ UNCHANGED fatal
       \/ ~usePhys /\ mapped' = "none" /\ fatal' = TRUE
    /\ IF fatal' THEN ReturnOne ELSE Goto("chipset")
    /\ UNCHANGED <<image, mem, i, timer, handlers>>

-----------------------------------------------------------------------------
(* The parts of the chipset with a hook, and the decrementer's: the state, *)
(* then E_Timer_AddHook.                                                   *)
Prepare(part, at, next) ==
    /\ lpc = at
    /\ ready' = ready \cup {part}
    /\ Goto(next)
    /\ UNCHANGED <<image, memory, i, fatal, hooks, hookIdx, armed, handlers>>

(* Mutant: the entry is counted before it is set. *)
StoreHookLate(part, at, next) ==
    /\ lpc = at
    /\ hookIdx' = hookIdx + 1
    /\ Goto(next)
    /\ UNCHANGED <<image, memory, i, fatal, hooks, ready, armed, handlers>>

StoreHook(part, at, next) ==
    /\ lpc = at
    /\ hooks' = [hooks EXCEPT ![hookIdx + 1] = part]
    /\ Goto(next)
    /\ UNCHANGED <<image, memory, i, fatal, hookIdx, ready, armed, handlers>>

CountHook(at, next) ==
    /\ lpc = at
    /\ hookIdx' = hookIdx + 1
    /\ Goto(next)
    /\ UNCHANGED <<image, memory, i, fatal, hooks, ready, armed, handlers>>

(* E_MMIO_Chipset_Init; the blocks without hooks have no place of their    *)
(* own here.                                                               *)
Chipset ==
    \/ Prepare("vi", "chipset", "viStore") \/ StoreHook("vi", "viStore", "viCount")
    \/ CountHook("viCount", "dsp")
    \/ Prepare("dsp", "dsp", "dspStore") \/ StoreHook("dsp", "dspStore", "dspCount")
    \/ CountHook("dspCount", "forward")

(* E_MMIO_Forwarding_Init. *)
Forwarding ==
    /\ lpc = "forward"
    /\ \/ Goto("text") /\ UNCHANGED fatal
       \/ ReturnOne /\ fatal' = TRUE
    /\ UNCHANGED <<image, memory, i, timer, handlers>>

-----------------------------------------------------------------------------
(* The place in memory an address is at, in the mode that is mapped. *)
Reaches(a) ==
    CASE a \in Hog                                        -> {a}
      [] mapped = "translated" /\ a \in Places            -> {a}
      [] mapped = "translated" /\ a \in Places2
            /\ consoleType = "Wii"                        -> {a}
      [] mapped = "real" /\ a < Mem1                      -> {V1 + a}
      [] OTHER                                            -> {}

(* memcpy of a section: it ends the process where nothing is mapped, and   *)
(* past the file's last page.                                              *)
Copy(off, addr, size, next) ==
    \/ /\ \A k \in 0 .. size - 1 : Reaches(addr + k) # {}
       /\ mem' = [a \in Memory |->
                    IF \E k \in 0 .. size - 1 : a \in Reaches(addr + k)
                    THEN off + (CHOOSE k \in 0 .. size - 1 : a \in Reaches(addr + k)) ELSE mem[a]]
       /\ Goto(next)
    \/ /\ \/ \E k \in 0 .. size - 1 : Reaches(addr + k) = {}
          \/ off + size > file.length
       /\ Goto("killed")
       /\ UNCHANGED mem

(* One section of a loop: its number, and where the loop's end leads.      *)
LoadSection(here, n, count, off, addr, size, next) ==
    /\ lpc = here
    /\ LET last == n + 1 = count
           then == IF last THEN next ELSE here
       IN  /\ IF size = 0 \/ off = 0 THEN Goto(then) /\ UNCHANGED mem
                                     ELSE Copy(off, addr, size, then)
           /\ i' = IF last THEN 0 ELSE n + 1
    /\ UNCHANGED <<image, mapped, fatal, timer, handlers>>

(* Mutant: data sections are read from the offsets of text sections. *)
CopyDataTextOff ==
    LoadSection("data", i, NData, hdr[textOff + i], hdr[dataAddr + i], hdr[dataSize + i], "handlers")

CopyText ==
    LoadSection("text", i, NText, hdr[textOff + i], hdr[textAddr + i], hdr[textSize + i], "data")

CopyData ==
    LoadSection("data", i, NData, hdr[dataOff + i], hdr[dataAddr + i], hdr[dataSize + i], "handlers")

-----------------------------------------------------------------------------
(* sigaltstack and sigaction; on failure E_Cleanup unmaps the guest's      *)
(* memory.                                                                 *)
Handlers ==
    /\ lpc = "handlers"
    /\ \/ handlers' = TRUE /\ Goto(IF usePhys THEN "remap" ELSE "cpu") /\ UNCHANGED mapped
       \/ mapped' = "none" /\ ReturnOne /\ UNCHANGED handlers
    /\ UNCHANGED <<image, mem, i, fatal, timer>>

(* Mutant: memories that could not be mapped are no error. *)
RemapSilent ==
    /\ lpc = "remap"
    /\ mapped' \in {"real", "none"}
    /\ Goto("cpu")
    /\ UNCHANGED <<image, mem, i, fatal, timer, handlers>>

(* E_MemMapFixups to real mode; it is only after E_CPU_Init that its fatal *)
(* error is looked at.                                                     *)
Remap ==
    /\ lpc = "remap"
    /\ \/ mapped' = "real" /\ UNCHANGED fatal
       \/ mapped' = "none" /\ fatal' = TRUE
    /\ Goto("cpu")
    /\ UNCHANGED <<image, mem, i, timer, handlers>>

(* E_CPU_Init, the last look at fatalError, and entry(). *)
CpuInit ==
    \/ Prepare("dec", "cpu", "decStore") \/ StoreHook("dec", "decStore", "decCount")
    \/ CountHook("decCount", IF fatal THEN "exit1" ELSE "guest")

(* E_SIGALRM_Handler.  The hooks find nothing to do yet, but one that is   *)
(* not there ends the process.                                             *)
Tick ==
    /\ armed /\ lpc \notin Ends
    /\ IF \E n \in 1 .. hookIdx : hooks[n] = None THEN Goto("killed") ELSE UNCHANGED lpc
    /\ UNCHANGED <<image, memory, i, fatal, timer, handlers>>

LoadStep ==
    \/ Open \/ Byteswap \/ Scan \/ Timer \/ Start \/ MemInit \/ Chipset \/ Forwarding
    \/ CopyText \/ CopyData \/ Handlers \/ Remap \/ CpuInit

LoadNext == (LoadStep \/ Tick) /\ UNCHANGED file

-----------------------------------------------------------------------------
(* The sections as the header gives them, in the order they are copied.    *)
Section(n) ==
    IF n < NText
    THEN [off |-> hdr[textOff + n], addr |-> hdr[textAddr + n], size |-> hdr[textSize + n]]
    ELSE [off |-> hdr[dataOff + n - NText], addr |-> hdr[dataAddr + n - NText],
          size |-> hdr[dataSize + n - NText]]

Loadable(n)  == Section(n).size # 0 /\ Section(n).off # 0
Covers(n, a) == Loadable(n) /\ a \in Section(n).addr .. Section(n).addr + Section(n).size - 1

(* When the guest begins, every word of memory is what the last section    *)
(* that covers it has there, and fresh where none does (main.c:179,        *)
(* main.c:191).                                                            *)
LoadedAsLinked ==
    lpc = "guest" /\ ~usePhys => \A a \in Memory :
        \/ mem[a] = Fresh /\ \A n \in 0 .. Sections - 1 : ~Covers(n, a)
        \/ \E n \in 0 .. Sections - 1 :
              /\ Covers(n, a)
              /\ \A m \in n + 1 .. Sections - 1 : ~Covers(m, a)
              /\ mem[a] = Section(n).off + (a - Section(n).addr)

(* Though the result of E_MemInit is dropped (main.c:163), an image with a *)
(* section in the guest's memory never starts without that memory; and no  *)
(* guest starts without the handlers, the hooks, or with a fatal error.    *)
StartsPrepared ==
    lpc = "guest" =>
        /\ handlers /\ ready = {"vi", "dsp", "dec"} /\ hookIdx = 3 /\ ~fatal
        /\ usePhys \/ (\E n \in 0 .. Sections - 1, a \in Places \cup Places2 : Covers(n, a))
              => mapped = IF usePhys THEN "real" ELSE "translated"

(* Whenever the timer's signal comes, each hook it runs is there and is of *)
(* a part whose state has been initialised (timer.c:40, main.c:140).       *)
HooksAreReady == armed => \A n \in 1 .. hookIdx : hooks[n] # None /\ hooks[n] \in ready

Hid4In(n) == \E k \in Value : /\ k < Section(n).size /\ Section(n).off + k < file.length
                              /\ Section(n).off + k \in file.hid4

(* A write to HID4 in a text section is not missed, wherever in the file   *)
(* the section is and whatever the scan met before it: what is past the    *)
(* file's end does not end the search, nor an empty section (main.c:125).  *)
TextHid4IsWii ==
    lpc = "guest" /\ (\E n \in 0 .. NText - 1 : Hid4In(n)) => consoleType = "Wii"

(* main.c:115, "we loop over every text section that has a non-zero size": *)
(* the console is a Wii exactly when a text section writes to HID4.  The   *)
(* loop counts to 8 (main.c:125).                                          *)
WiiByHid4 ==
    lpc = "guest" => (consoleType = "Wii") = (\E n \in 0 .. NText - 1 : Hid4In(n))

(* What keeps these so.  The hooks that are counted at each place, and the *)
(* one that is about to be.                                                *)
Added ==
    CASE lpc \in {"dsp", "dspStore", "dspCount"} -> 1
      [] lpc \in {"forward", "text", "data", "handlers", "remap", "cpu", "decStore", "decCount"} -> 2
      [] lpc = "guest" -> 3
      [] OTHER -> 0
HooksInv ==
    /\ lpc \notin {"exit1", "killed"} => hookIdx = Added
    /\ Added >= 1 => "vi" \in ready
    /\ Added >= 2 => "dsp" \in ready
    /\ Added >= 3 => "dec" \in ready
    /\ lpc \in {"viStore", "viCount"} => "vi" \in ready
    /\ lpc \in {"dspStore", "dspCount"} => "dsp" \in ready
    /\ lpc \in {"decStore", "decCount"} => "dec" \in ready
    /\ lpc = "viCount" => hooks[1] = "vi"
    /\ lpc = "dspCount" => hooks[2] = "dsp"
    /\ lpc = "decCount" => hooks[3] = "dec"
    /\ \A n \in 1 .. hookIdx : hooks[n] \in ready

(* Of the sections, those the loops have copied; and what they have left,  *)
(* were they copied at all.                                                *)
Copied(n) ==
    CASE lpc = "text" -> n < i
      [] lpc = "data" -> n < NText + i
      [] OTHER        -> lpc \in {"handlers", "remap", "cpu", "decStore", "decCount", "guest"}
Linked(a) ==
    \/ mem[a] = Fresh /\ \A n \in 0 .. Sections - 1 : Copied(n) => ~Covers(n, a)
    \/ \E n \in 0 .. Sections - 1 :
          /\ Copied(n) /\ Covers(n, a)
          /\ \A m \in n + 1 .. Sections - 1 : Copied(m) => ~Covers(m, a)
          /\ mem[a] = Section(n).off + (a - Section(n).addr)
MemoryInv ==
    ~usePhys /\ lpc \notin {"exit1", "killed"} =>
        /\ mapped # "real"
        /\ \A a \in Memory : Linked(a)
        /\ mapped = "none" =>
              \A n \in 0 .. Sections - 1, a \in Places \cup Places2 : Copied(n) => ~Covers(n, a)

(* The scan as the code makes it, over data section 0 too.                 *)
ScanInv ==
    /\ lpc \in {"scan"} => consoleType = "GameCube" /\ \A n \in 0 .. NText : n < i => ~Hid4In(n)
    /\ lpc \notin {"open", "swap", "scan", "exit1", "killed"} =>
          (consoleType = "Wii" <=> \E n \in 0 .. NText : Hid4In(n))

(* Where the loops stand, and what the last steps have made sure of.       *)
PlaceInv ==
    /\ lpc = "scan" => i <= NText
    /\ lpc = "text" => i < NText
    /\ lpc = "data" => i < NData
    /\ lpc \notin {"scan", "text", "data", "killed"} => i = 0
    /\ lpc \in {"remap", "cpu", "decStore", "decCount", "guest"} => handlers
    /\ lpc \in {"cpu", "decStore", "decCount", "guest"} /\ usePhys => mapped = "real" \/ fatal
    /\ lpc = "guest" => ~fatal
    /\ lpc \in {"open", "swap", "scan", "timer", "start"} => ~usePhys
    /\ lpc = "remap" => usePhys

LoadInv == HooksInv /\ MemoryInv /\ ScanInv /\ PlaceInv

(* main.c:239, "if usePhys is set, swap back to physical mappings before   *)
(* we boot": an image that starts in real mode is loaded like any other.   *)
RealModeImagesLoad ==
    usePhys /\ (\A n \in 0 .. Sections - 1 : Loadable(n) =>
                   /\ Section(n).off + Section(n).size <= file.length
                   /\ \A k \in 0 .. Section(n).size - 1 : Section(n).addr + k \in Places)
    => lpc # "killed"
=============================================================================
