------------------------------- MODULE MemMap -------------------------------
(***************************************************************************)
(* The guest's address space (mem.c) as the traps of the guest change it.  *)
(* dol-run gives the guest its memory by mapping two memory files into the *)
(* process at the addresses the guest's BATs name, or at their physical    *)
(* addresses in real mode.  A trap emulates one instruction (Cpu) and, if  *)
(* that asked for it, runs E_MemMapFixups before the guest resumes.        *)
(*                                                                         *)
(* `space' is the kernel's truth, `map' the tables the code keeps of it;   *)
(* the code reads and forgets only what the tables say.                    *)
(***************************************************************************)
EXTENDS Cpu

VARIABLES
    map,        \* mem1_map_i, mem1_map_d, mem2_map_i, mem2_map_d
    space,      \* what the process has mapped at each granule
    pc,         \* where the trap is; "guest" while the guest's own code runs
    idx,        \* E_MemReloadMap: i
    vaddr,      \* E_MemReloadMap: vaddr, never initialised
    oldMsr      \* E_SIGILL_Handler: msr, the argument of E_MemMapFixups

mapVars == <<map, space>>
locals  == <<idx, vaddr, oldMsr>>
vars    == <<cpuVars, mapVars, pc, locals>>

Mem       == {"MEM1", "MEM2"}
Failed    == 16                 \* MAP_FAILED, (void *)-1: the address of no granule
Junk      == 17                 \* an uninitialised word no table entry equals
Limit     == 12                 \* MAX_ALLOWED_VADDR, 0xC0000000
Null      == 0                  \* a table entry nobody has set: the granule 0

Entry     == Granule \cup {Failed}
MaxBat    == IF consoleType = "GCN" THEN NumLow ELSE 2 * NumLow
PC        == {"guest", "fixups", "physMem1", "physMem2", "reloadI", "reloadD", "bail"}

MapTypeOK ==
    /\ map \in [Mem -> [Side -> [BatIdx -> Entry]]]
    /\ space \in [Granule -> Mem \cup {"none"}]
    /\ pc \in PC
    /\ idx \in BatIdx
    /\ vaddr \in Granule \cup {Failed, Junk}
    /\ oldMsr \in Msr

(* The registers, the tables and the handler's locals have their types. *)
TypeOK == CpuTypeOK /\ MapTypeOK

-----------------------------------------------------------------------------
Upper(s, i) == bat[s]["U"][i]
Lower(s, i) == bat[s]["L"][i]
Empty(s, i) == Upper(s, i) = Zero /\ Lower(s, i) = Zero

(* The memory a BAT's physical address selects; both BATs of a GameCube    *)
(* must point to MEM1.                                                     *)
MemOf(s, i) ==
    LET paddr == Lower(s, i).addr
    IN  CASE paddr = 0                         -> "MEM1"
          [] paddr = 1 /\ consoleType = "WII"  -> "MEM2"
          [] OTHER                             -> "none"

(* The search through one table for an address that is already mapped. *)
Tracked(mem, s, a) == \E j \in 0 .. MaxBat - 1 : map[mem][s][j] = a

(* mmap(MAP_FIXED): the kernel refuses addresses from Limit on, and may    *)
(* refuse any other.                                                       *)
Mmap(mem, a, ok) ==
    /\ ok => a < Limit
    /\ space' = IF ok THEN [space EXCEPT ![a] = mem] ELSE space

(* Mutant: the tables of MEM1 are forgotten. *)
UnmappedMem2(a) ==
    \E s \in Side, j \in 0 .. MaxBat - 1 : map["MEM2"][s][j] = a /\ consoleType = "WII"

(* munmap of every entry that is not MAP_FAILED.  A GameCube's mem2_size   *)
(* is 0, and munmap of nothing does nothing.                               *)
Unmapped(a) ==
    \E mem \in Mem, s \in Side, j \in 0 .. MaxBat - 1 :
        /\ map[mem][s][j] = a
        /\ mem = "MEM1" \/ consoleType = "WII"

(* Mutant: the tables keep what was unmapped. *)
UnmapAllKeep ==
    /\ space' = [a \in Granule |-> IF Unmapped(a) THEN "none" ELSE space[a]]
    /\ UNCHANGED map

UnmapAll ==
    /\ space' = [a \in Granule |-> IF Unmapped(a) THEN "none" ELSE space[a]]
    /\ map' = [mem \in Mem |-> [s \in Side |-> [j \in BatIdx |->
                  IF j < MaxBat THEN Failed ELSE map[mem][s][j]]]]

(* Mutant: the guest resumes whatever happened. *)
ReturnAnyway ==
    /\ pc' = "guest"
    /\ idx' = 0
    /\ vaddr' = Junk
    /\ oldMsr' = msr

(* The trap ends: the guest resumes, or the handler resumes the process in *)
(* emergencyBailOut.  The locals die here.                                 *)
Return ==
    /\ pc' = IF fatalError' THEN "bail" ELSE "guest"
    /\ idx' = 0
    /\ vaddr' = Junk
    /\ oldMsr' = msr

Goto(where) == pc' = where /\ UNCHANGED locals

Die == fatalError' = TRUE /\ Return
Keep == UNCHANGED <<consoleType, msr, srr1, lowPower, sbe, bat>>

-----------------------------------------------------------------------------
(* E_SIGILL_Handler up to E_MemMapFixups: the guest's instruction traps    *)
(* and is emulated.                                                        *)
Trap ==
    /\ pc = "guest"
    /\ Emulate
    /\ IF needsMemMapUpdate'
       THEN /\ pc' = "fixups"
            /\ oldMsr' = msr
       ELSE /\ pc' = IF fatalError' THEN "bail" ELSE "guest"
            /\ oldMsr' = msr'
    /\ UNCHANGED <<mapVars, idx, vaddr>>

(* The head of E_MemReloadMap.  Its vaddr holds whatever the stack held. *)
StartReload ==
    /\ pc' = "reloadI"
    /\ idx' = 0
    /\ vaddr' \in Granule \cup {Failed, Junk}
    /\ UNCHANGED oldMsr

(* E_MemMapFixups up to the first mmap. *)
Fixups ==
    /\ pc = "fixups"
    /\ needsMemMapUpdate' = FALSE
    /\ Keep
    /\ \/ /\ msr.ir # msr.dr
          /\ Die
          /\ UNCHANGED mapVars
       \/ /\ msr.ir = msr.dr
          /\ UNCHANGED fatalError
          /\ \/ /\ Translating(oldMsr) /\ ~Translating(msr)
                /\ UnmapAll
                /\ Goto("physMem1")
             \/ /\ ~Translating(oldMsr) /\ Translating(msr)
                /\ UnmapAll
                /\ StartReload
             \/ /\ Translating(oldMsr) /\ Translating(msr)
                /\ StartReload
                /\ UNCHANGED mapVars
             \/ /\ ~Translating(oldMsr) /\ ~Translating(msr)
                /\ Return
                /\ UNCHANGED mapVars

(* Mutant: only the data table learns of the mapping. *)
MapPhysicalData(mem, a, ok) ==
    /\ Mmap(mem, a, ok)
    /\ map' = [map EXCEPT ![mem]["D"][0] = IF ok THEN a ELSE Failed]
    /\ fatalError' = (fatalError \/ ~ok)
    /\ Keep
    /\ UNCHANGED needsMemMapUpdate

(* One physical mapping: both tables' entry 0 take the result of mmap. *)
MapPhysical(mem, a, ok) ==
    /\ Mmap(mem, a, ok)
    /\ map' = [map EXCEPT ![mem]["I"][0] = IF ok THEN a ELSE Failed,
                          ![mem]["D"][0] = IF ok THEN a ELSE Failed]
    /\ fatalError' = (fatalError \/ ~ok)
    /\ Keep
    /\ UNCHANGED needsMemMapUpdate

PhysMem1 ==
    /\ pc = "physMem1"
    /\ \E ok \in BOOLEAN :
          /\ MapPhysical("MEM1", 0, ok)
          /\ IF ok /\ consoleType = "WII" THEN Goto("physMem2") ELSE Return

PhysMem2 ==
    /\ pc = "physMem2"
    /\ \E ok \in BOOLEAN : MapPhysical("MEM2", 1, ok)
    /\ Return

(* One mapping of a BAT, into the entry of the table that has its number. *)
MapBat(s, a, ok, fatal) ==
    /\ Mmap(MemOf(s, idx), a, ok)
    /\ map' = [map EXCEPT ![MemOf(s, idx)][s][idx] = IF ok THEN a ELSE Failed]
    /\ fatalError' = (fatalError \/ fatal)

(* The first half of the loop's body.  The search is for the vaddr the     *)
(* DBAT before it left (or nobody set): this IBAT's own is assigned after. *)
ReloadI ==
    /\ pc = "reloadI"
    /\ Keep
    /\ UNCHANGED needsMemMapUpdate
    /\ LET mem == MemOf("I", idx)
           a   == Upper("I", idx).addr
       IN  \/ /\ Empty("I", idx) \/ (mem # "none" /\ Tracked(mem, "I", vaddr))
              /\ Goto("reloadD")
              /\ UNCHANGED <<mapVars, fatalError>>
           \/ /\ ~Empty("I", idx) /\ mem = "none"
              /\ Die
              /\ UNCHANGED mapVars
           \/ /\ ~Empty("I", idx) /\ mem # "none" /\ ~Tracked(mem, "I", vaddr)
              /\ \E ok \in BOOLEAN :
                    LET fatal == ~ok /\ (consoleType = "GCN" \/ a < Limit)
                    IN  /\ MapBat("I", a, ok, fatal)
                        /\ IF fatal
                           THEN Return
                           ELSE pc' = "reloadD" /\ vaddr' = a /\ UNCHANGED <<idx, oldMsr>>

(* Mutants: one BAT too many; the same BAT again. *)
NextBatPastEnd(a) ==
    IF idx + 1 <= MaxBat
    THEN pc' = "reloadI" /\ idx' = idx + 1 /\ vaddr' = a /\ UNCHANGED oldMsr
    ELSE Return

NextBatAgain(a) ==
    IF idx + 1 < MaxBat
    THEN pc' = "reloadI" /\ vaddr' = a /\ UNCHANGED <<idx, oldMsr>>
    ELSE Return

(* To the next BAT, with the vaddr this one leaves behind. *)
NextBat(a) ==
    IF idx + 1 < MaxBat
    THEN pc' = "reloadI" /\ idx' = idx + 1 /\ vaddr' = a /\ UNCHANGED oldMsr
    ELSE Return

(* The second half: a DBAT gives way to any mapping of its memory that the *)
(* tables have at its address.                                             *)
ReloadD ==
    /\ pc = "reloadD"
    /\ Keep
    /\ UNCHANGED needsMemMapUpdate
    /\ LET mem   == MemOf("D", idx)
           a     == Upper("D", idx).addr
           taken == Tracked(mem, "D", a) \/ Tracked(mem, "I", a)
       IN  \/ /\ Empty("D", idx)
              /\ UNCHANGED <<mapVars, fatalError>>
              /\ NextBat(vaddr)
           \/ /\ ~Empty("D", idx) /\ mem = "none"
              /\ Die
              /\ UNCHANGED mapVars
           \/ /\ ~Empty("D", idx) /\ mem # "none" /\ taken
              /\ UNCHANGED <<mapVars, fatalError>>
              /\ NextBat(a)
           \/ /\ ~Empty("D", idx) /\ mem # "none" /\ ~taken
              /\ \E ok \in BOOLEAN :
                    LET fatal == ~ok /\ a < Limit
                    IN  /\ MapBat("D", a, ok, fatal)
                        /\ IF fatal THEN Return ELSE NextBat(a)

-----------------------------------------------------------------------------
(* The call of E_MemMapFixups in E_MemInit, for an image that starts       *)
(* translating: all tables are zero, nothing is mapped, and the argument   *)
(* is the current MSR.  The guest starts when it returns.                  *)
Init ==
    /\ CpuInit
    /\ map = [mem \in Mem |-> [s \in Side |-> [j \in BatIdx |-> Null]]]
    /\ space = [a \in Granule |-> "none"]
    /\ pc = "fixups"
    /\ idx = 0
    /\ vaddr = Junk
    /\ oldMsr = msr

Handler == Fixups \/ PhysMem1 \/ PhysMem2 \/ ReloadI \/ ReloadD

Next == Trap \/ Handler

(* A handler is straight code with bounded loops: once entered it runs.    *)
(* Nothing obliges the guest to execute another privileged instruction.    *)
Spec     == Init /\ [][Next]_vars
FairSpec == Spec /\ WF_vars(Handler)

-----------------------------------------------------------------------------
Running == pc = "guest"

(* Every address the tables hold is really mapped, so that munmap never    *)
(* hits a hole and a search never finds a mapping that is gone.  Granule 0 *)
(* is left out: an entry that was never set looks the same.                *)
TrackedIsMapped ==
    \A mem \in Mem, s \in Side, j \in BatIdx :
        map[mem][s][j] \notin {Failed, Null} => space[map[mem][s][j]] # "none"

(* A guest that runs has the two translation bits equal and is not asleep; *)
(* no fatal error and no update of the memory map is left pending behind   *)
(* its back (emu.h: fatalError, needsMemMapUpdate).                        *)
NothingPending ==
    Running => /\ MsrLegal(msr, lowPower)
               /\ ~fatalError
               /\ ~needsMemMapUpdate

(* In real mode the guest sees its memories at their physical addresses,   *)
(* and nothing anywhere else: no mapping of its BATs survives the switch.  *)
RealModeIsPhysical ==
    (Running /\ ~Translating(msr)) =>
        \A a \in Granule :
            space[a] = CASE a = 0                        -> "MEM1"
                         [] a = 1 /\ consoleType = "WII" -> "MEM2"
                         [] OTHER                         -> "none"

(* A translating guest sees memory only where one of its BATs puts it, and *)
(* the memory that BAT names.                                              *)
OnlyWhatBatsSay ==
    (Running /\ Translating(msr)) =>
        \A a \in Granule : space[a] # "none" =>
            \E s \in Side, i \in 0 .. MaxBat - 1 :
                ~Empty(s, i) /\ Upper(s, i).addr = a /\ MemOf(s, i) = space[a]

(* Two BATs that put different memories at one address. *)
Conflict(a) ==
    \E s, t \in Side, i, j \in 0 .. MaxBat - 1 :
        /\ ~Empty(s, i) /\ Upper(s, i).addr = a
        /\ ~Empty(t, j) /\ Upper(t, j).addr = a
        /\ MemOf(s, i) # MemOf(t, j)

(* ... and a DBAT below the kernel's limit is always honoured, whatever    *)
(* the stale search did to the IBATs.                                      *)
DbatHonoured(i) ==
    LET a == Upper("D", i).addr
    IN  (~Empty("D", i) /\ a < Limit /\ ~Conflict(a)) => space[a] = MemOf("D", i)

DbatsHonoured ==
    (Running /\ Translating(msr)) => \A i \in 0 .. MaxBat - 1 : DbatHonoured(i)

(* mem.c, "For every BAT, determine if the BATs are still valid.  If they  *)
(* aren't, make them valid": the same of an IBAT.                          *)
IbatsHonoured ==
    (Running /\ Translating(msr)) =>
        \A i \in 0 .. MaxBat - 1 :
            LET a == Upper("I", i).addr
            IN  (~Empty("I", i) /\ a < Limit /\ ~Conflict(a)) => space[a] = MemOf("I", i)

-----------------------------------------------------------------------------
(* Why the properties above hold: what the tables mean in each mode.       *)

(* The tables describe BATs from the call of E_MemReloadMap until the next *)
(* switch to real mode has unmapped them, physical memory the rest of the  *)
(* time.                                                                   *)
TablesTranslated ==
    \/ pc \in {"reloadI", "reloadD"}
    \/ pc = "guest" /\ Translating(msr)
    \/ pc = "fixups" /\ Translating(oldMsr)

TablesReal ==
    \/ pc = "guest" /\ ~Translating(msr)
    \/ pc = "fixups" /\ ~Translating(oldMsr)

(* The entry of a BAT that is mapped where the BAT says. *)
Holds(mem, s, j, a) ==
    /\ map[mem][s][j] = a
    /\ ~Empty(s, j) /\ Upper(s, j).addr = a /\ MemOf(s, j) = mem

(* Which mode the handler's place belongs to. *)
PlaceInv ==
    /\ pc \in {"reloadI", "reloadD"} => Translating(msr)
    /\ pc \in {"physMem1", "physMem2"} => ~Translating(msr)
    /\ pc = "physMem2" => consoleType = "WII"
    /\ idx < MaxBat

(* The kernel maps nothing from Limit on. *)
LimitInv == \A a \in Granule : space[a] # "none" => a < Limit

(* Real mode: nothing but the physical mappings, which the tables have. *)
RealInv ==
    /\ pc = "physMem1" => \A a \in Granule : space[a] = "none"
    /\ pc = "physMem2" \/ TablesReal =>
          space[0] = "MEM1" /\ map["MEM1"]["I"][0] = 0
    /\ pc = "physMem2" => \A a \in Granule \ {0} : space[a] = "none"
    /\ TablesReal =>
          /\ consoleType = "WII" => space[1] = "MEM2" /\ map["MEM2"]["I"][0] = 1
          /\ consoleType = "GCN" => space[1] = "none"
          /\ \A a \in Granule \ {0, 1} : space[a] = "none"

(* Translated mode: whatever is mapped is an entry of a BAT, and every     *)
(* entry is one, except those that nobody has set since the process began; *)
(* until then the BATs are the default ones.                               *)
BackedInv ==
    TablesTranslated =>
        \A a \in Granule : space[a] # "none" =>
            \E s \in Side, j \in 0 .. MaxBat - 1 : Holds(space[a], s, j, a)

EntryInv ==
    TablesTranslated =>
        \A mem \in Mem, s \in Side, j \in 0 .. MaxBat - 1 :
            LET a == map[mem][s][j]
            IN  a # Failed => \/ Holds(mem, s, j, a) /\ space[a] # "none"
                              \/ a = Null /\ bat = DefaultBat(consoleType)

(* The DBATs the loop has passed are honoured. *)
DoneInv ==
    \A i \in 0 .. MaxBat - 1 :
        \/ pc \in {"reloadI", "reloadD"} /\ i < idx
        \/ pc = "guest" /\ Translating(msr)
        => DbatHonoured(i)

MapInv == PlaceInv /\ LimitInv /\ RealInv /\ BackedInv /\ EntryInv /\ DoneInv

(* The steps a trap has still to make, at most. *)
StepsLeft ==
    CASE pc = "fixups"   -> 2 * MaxBat + 1
      [] pc = "physMem1" -> 2
      [] pc = "physMem2" -> 1
      [] pc = "reloadI"  -> 2 * (MaxBat - idx)
      [] pc = "reloadD"  -> 2 * (MaxBat - idx) - 1
      [] OTHER           -> 0

(* Why every trap ends, whatever the kernel refuses and whatever vaddr     *)
(* holds: a step leaves fewer to make, so there are never more than two    *)
(* for each BAT and one (mem.c:53, mem.c:469).                             *)
TrapsRunOut ==
    [][pc \notin {"guest", "bail"} => StepsLeft' \in Nat /\ StepsLeft' < StepsLeft]_vars

(* Every trap ends, in the guest or in the bail-out. *)
TrapCompletes == (pc # "guest") ~> (pc \in {"guest", "bail"})
-----------------------------------------------------------------------------
(* The guest's side of it: between traps a view that nothing changes, in a *)
(* trap none.                                                              *)
G == INSTANCE GuestMemory WITH
        console     <- consoleType,
        translating <- Translating(msr),
        view        <- [a \in Granule |-> IF pc = "guest" THEN space[a] ELSE "none"],
        status      <- CASE pc = "guest" -> "runs"
                         [] pc = "bail"  -> "stopped"
                         [] OTHER        -> "trapped"

(* mem.c keeps the promise of GuestMemory to guests that switch with rfi   *)
(* and write BATs in real mode: only a trap changes what such a guest      *)
(* sees, and it resumes with what its mode and BATs say or not at all.     *)
ImplementsGuestMemory == G!Spec
=============================================================================
