# A specification of dol-tools

This directory holds TLA+ modules about dol-tools, TLC configurations that check
them and proofs that tlapm checks. The main subject is `dol-run`: it runs a
GameCube or Wii program natively on a Linux PowerPC host, and emulates what user
mode does not allow: privileged instructions trap as SIGILL, accesses to device
registers and unmapped memory as SIGSEGV. `dol-patch`, which edits the header of
the files `dol-run` loads, is modelled with its loader.

Paths below are relative to the repository's `src/` (`dol-run/...`, `dol-patch/...`).

## 1. The system

| component | state | operations | calls, callbacks, sharing |
|---|---|---|---|
| CPU register file, `cpu/` | `E_State.cpu`: MSR, SRR0/1, HIDs, BATs, ... | mtspr, mfspr, mtmsr, mfmsr, rfi, mtsr, mfsr | called by the SIGILL handler; raises `needsMemMapUpdate` and `fatalError` |
| guest address space, `mem.c` | four tables of mappings, two memory files, and the process's mappings themselves | `E_MemInit`, `E_MemMapFixups`, `E_MemReloadMap` | called by the loader and by the SIGILL handler if the flag is up; reads MSR and BATs |
| translation in software, `mem.c` | none (reads the BATs) | `E_MemVirtToPhys`, `E_MemPhysToVirt` | called by the SIGSEGV handler and by the DSP's hook |
| traps, `emu.c` | `borked`, `fatalError`, saved SDA pointers, the frames of the signals | `E_SIGSEGV_Handler`, `E_SIGILL_Handler`, `E_Cleanup`, the bail-out | interrupts the guest; interrupted by the timer, and by faults of the emulator's own code |
| timer, `timer.c`, `cpu/init.c` | the table of hooks, the decrementer | `E_Timer_Init`, `E_Timer_AddHook`, `E_SIGALRM_Handler`, the decrementer's hook | a signal every 16 ms, blocked by nobody |
| audio DSP, `mmio/dsp.c` | registers, halt, reset timer, DMA pointers | reads and writes of registers, `E_MMIO_DSP_TimerHook` | written in the SIGSEGV handler, worked on by the hook |
| chipset, `mmio/` | registers of PI, MI, AI, VI | dispatch by bus and block, reads and writes | called by the SIGSEGV handler; the rest goes to the real hardware |
| loader, `main.c` | the image, the console type, the mode it starts in | the start of the program | fills the memory the map provides, with the timer already on |
| `dol-patch` | a DOL file | set a header field | a program of its own; shares the file with `dol-run` |
| `dol-info` | none | print the header | a program of its own |

What makes each part correct:

- registers: a state of MSR and HID0 that the emulator cannot run must stop it
  before the guest runs on; a change the map depends on must reach the map;
- address space: the guest sees exactly the memory that its mode and its BATs
  give it, after any sequence of traps, with mappings the kernel may refuse;
- translation: the result is the processor's, at block boundaries too;
- traps: every trap ends, leaves the guest's registers as the processor would,
  and a fatal error is the guest's end;
- DSP: what the guest programs is what happens although the hook runs in
  between; what the guest waits for (the end of a reset or of a transfer) comes;
- loader, dol-patch: the right bytes at the right place, in either start mode,
  and nothing started that has not been prepared.

Hard behaviours: the address space has two copies of its state (the tables and
the kernel's) and code that keeps them together by order alone; BATs change half
by half; mode switches leave the previous mode's mappings to be found; three
signal handlers nest, each blocking only its own signal; the bail-out runs on a
stack it overwrites. `PROJECT.json` lists each hazard at its line with the
properties that would catch it.

## 2. Modules

| module | models | checked by |
|---|---|---|
| `Cpu` | one operator per emulated instruction | through `MemMap` |
| `MemMap` (EXTENDS `Cpu`) | the trap: emulate, then `E_MemMapFixups` and `E_MemReloadMap` in steps | `MCMemMap` |
| `MemMapProofs`, `MemMapModes` | typing, pending errors, tables against mappings, how long a trap takes; what the guest sees in each mode | tlapm |
| `GuestMemory` | abstract: what `MemMap` promises a guest | implemented by `MemMap` |
| `MemMapRefines` | the refinement mapping and its proof | `MCMemMap`, tlapm |
| `BatTranslate` | both translations, and the handler's use of them | `MCBatTranslate` |
| `BatTranslateProofs` | translation is the processor's | tlapm |
| `Dsp` | the register writes access by access, the timer's hook | `MCDsp` |
| `AramDma` | abstract: what `Dsp` promises of a transfer | implemented by `Dsp` |
| `DspProofs` | resets, halts, transfers, the refinement of `AramDma` | tlapm |
| `Mmio` | what an access to the chipset does: buses, blocks, registers, widths | through `Traps` |
| `Traps` (EXTENDS `Mmio`) | the three handlers as a stack of signals, the bail-out | `MCTraps` |
| `TrapsProofs` | the stack, that a fatal error is final, the DSP's program, the decrementer | tlapm |
| `GuestCpu` | abstract: what the handlers promise a guest about its instructions | implemented by `Traps` |
| `TrapsRefines` | the guest's registers across a trap, and the proof of the refinement | `MCTraps`, tlapm |
| `DolFile` | the header on disk and in memory | through `Tools` |
| `DolPatch`, `Loader` (EXTEND `DolFile`) | `dol-patch`; `main` of `dol-run` | through `Tools` |
| `Tools` (EXTENDS both) | the two programs on one file | `MCTools` |
| `ToolsProofs` | every safety property of `Tools` but the two violated ones | tlapm |

**MemMap.** Addresses are 256 MB granules: every BAT a console uses starts on
one, and MEM1 and MEM2 fit in one. A BAT register is its address and whether any
other bit is set, because `mem.c` compares raw registers with 0. `map` is the
four tables, `space` what the kernel has really mapped; `mmap` may fail at any
address and always fails from `MAX_ALLOWED_VADDR` on. `Trap` is the SIGILL
handler up to the call of `E_MemMapFixups`, with every instruction `Cpu` has;
`Fixups`, `PhysMem1`, `PhysMem2`, `ReloadI` and `ReloadD` are the pieces of
`mem.c` between two calls of the kernel. The local `vaddr` of `E_MemReloadMap`
is read before it is assigned: it starts with any value, among them one that
matches no entry. The GameCube and the Wii are two initial states. `Init` is the
call of `E_MemMapFixups` at the end of `E_MemInit` with all tables zero, which
is what the loops `i > 8` leave behind. It starts an image that translates; one
that starts in real mode (`usePhys`) belongs to `Loader`.

Two constants describe the guest, not the emulator: `RfiSwitches` (MSR[IR] and
MSR[DR] are changed with rfi only) and `RealModeBats` (BATs are written only
while the guest does not translate). They are how a console's start-up code
works, and both are needed for the mode properties: each of the runs
`memmap_mtmsr` and `memmap_leak` drops one of them. A guest that writes the
halves of a BAT while it translates, each with an update of the map in between
(`cpu/mtspr.c:164`), is therefore outside `memmap_os`: of it `memmap_any` says
that the tables name only what is mapped and that no error or update is pending.

**GuestMemory.** A guest that runs has a mode, BATs and a view, a function from
granules to memories; a trap hides the view, changes the mode or one BAT
register, and the guest resumes with a view that `Promised` allows, or never.
`MemMapRefines` maps `space` to the view when the guest runs, and to nothing
while a handler does; the handler's system calls are stutters.

**BatTranslate.** Addresses are numbers modulo `ASize`; the sum `bepi + size`
wraps. `Blocks` are the block lengths the code knows, in units of the smallest.
The reference is the processor's rule (compare and replace the bits above the
block length) for BATs the processor allows: aligned blocks that do not overlap.
Both BAT halves are written separately, so that half-written BATs occur.
The handler asks the instruction BATs first, for loads and stores too
(`emu.c:218`). `DataResolvesLikeHardware` is about addresses that no instruction
BAT maps differently; where one does, the processor would take the data BAT's.

**Dsp.** The guest's store to a register runs in the SIGSEGV handler; each access
to the DSP's state that the timer's hook could separate from the next is a step
(a read-modify-write is a load and a store). `Tick` is the hook and is atomic:
it interrupts the handler, never the reverse. The mailboxes and AR_SIZE have no
values: nothing but the guest's reads depends on them. The seed of the program (a
copy from guest memory) may succeed, find no address, or fault; a fault in the
hook ends the process if it interrupted the handler, whose signal is blocked, and
goes to the bail-out otherwise. Two history variables remember the transfer that
was programmed while the DSP was halted and whether CSR was ever written.

**AramDma.** A guest that halts the DSP, writes the address registers and
programs a transfer, each at one stroke; the transfer moves by blocks while the DSP
runs. `Dsp` maps to it the pointers and the length that the hook works on, as
long as the transfer was programmed under a halt.

**Mmio.** A register is named, not addressed: a place is a bus, a block and a
register. The operators return the set of what an access can do, because the
hardware behind `/dev/mem` answers anything. They keep, per register, the widths
accepted and what the others do: report a fatal error, fall through, or fault
(Hollywood's mapping on a GameCube).

**Traps.** The state is the stack of the signals being handled: each frame is its
code and where it stands, the bottom is the main thread. Signals are blocked as
`sigaction` says, without flags that matter: a handler blocks its own signal
only. So SIGALRM comes anywhere, SIGSEGV comes for faults of the emulator's own
code (`OwnFault`) except inside its own handler, where the kernel kills the
process. `ReturnTo` is what the handlers do to the interrupted context, which is
not always the guest's: when the fault was the bail-out's, it is the bail-out
again. Two history variables remember what the trapped instruction should leave
in the registers (`want`) and that a trap has met a fatal error (`doomed`: the
flag itself is overwritten by the bail-out). The width that `lwz` does not set is
a choice. A load that could not be decoded is written back all the same, through
a `regDest` and an `accessWidth` nobody has set (`emu.c:210`, `:269`): `SegvOut`
and `SegvStray` make that a choice of nothing, a register of the guest that
becomes 0, or a fault, which is blocked and kills the process. Of mfspr, mfmsr
and rfi the registers' values are abstracted: they advance the guest or stop it.
`E_State` after the bail-out has begun matters to nothing and is shown
as zero. What the privileged instructions and `E_MemMapFixups` do is `MemMap`'s,
what the DSP's hook does is `Dsp`'s; here they succeed, fail, or reach the copy.

**GuestCpu.** A guest that runs, traps at an instruction, and goes on with
registers that `Result` allows for it, or never: there are no signals, handlers
or devices in it. The refinement mapping is in `Traps`: `Status` (a trap is over
when its handler has returned, and lost with the error it has met), `Insn` (what
the second frame on the stack trapped at) and `Shown` (the registers, with what
the handler has already done to them undone). `want` says which registers one
execution should leave, `GuestCpu` that each trap takes effect exactly once
however its handler is interrupted.

**DolFile, DolPatch, Loader, Tools.** A header word is two bytes of size `B`;
positions and sizes are counted in words, and of the file's contents only the
words that write HID4 are kept, since the program's own words are only copied. The
header ends with padding that nothing reads, but which a file must have to be
patched (`PadWords`). `DolPatch` models `parseIndexedField`,
`fieldOffset`, `parseValue` and the write, on a host of either byte order.
`Loader` is `main`: every call that can fail is a step with both outcomes, and
the timer's signal may come between any two from `E_Timer_Init` on. `Tools`
interleaves the two on one file: `dol-run` maps it privately and sees writes
until it has swapped the header.

Operators called mutants (`RfiNoUpdate`, `UnmapAllKeep`, ...) are deliberate
mistakes. They are not part of any specification: substituted for the
definition that follows them they make the property named in `PROJECT.json` fail.

## 3. Runs

| run | shows |
|---|---|
| `memmap_os` | a guest that keeps to both assumptions: real mode is physical memory and nothing else, translated mode is what the BATs say, every data BAT is honoured, every trap ends, and `MemMap` implements `GuestMemory` |
| `memmap_any` | any guest: types, tables against mappings, no pending error or update; every step of a trap leaves fewer to make |
| `memmap_mtmsr` | violated: a switch with mtmsr keeps the translated mappings (`cpu/mtmsr_mfmsr.c:11`) |
| `memmap_ibat` | violated: an IBAT is skipped because of a stale address (`mem.c:86`, `:177`) |
| `memmap_leak` | violated: a moved BAT's old mapping is forgotten and survives into real mode (`mem.c:138`, `:236`) |
| `bat_translate` | translation is the processor's for every address, except for a block that ends at the top of the address space, which is never found (`mem.c:618`) |
| `phys_to_virt` | violated: the offset is counted from the wrong end (`mem.c:672`) |
| `dsp` | resets, halts and transfers with the hook anywhere; `Dsp` implements `AramDma` |
| `traps` | the handlers nested in every way: a fatal error is the guest's end, the guest goes on with the registers the processor would have left and with the DSP's program whole, the decrementer falls to zero, every handler ends, a fatal error stops a guest that goes on trapping, and `Traps` implements `GuestCpu` |
| `loader` | dol-patch changes the one field it was asked for; dol-run loads by it, never starts unprepared, never runs a hook that is not there, and never takes a Wii's program for a GameCube's |
| `loader_scan` | violated: the scan for the console type goes on into data section 0 (`main.c:125`), so that a GameCube's image can be taken for a Wii's |
| `loader_phys` | violated: an image that starts in real mode is copied before anything is mapped (`main.c:160`) |

A violated run shows that the code does not do what a comment of it says;
`findings` in `PROJECT.json` quotes the line.

### Bounds

- `MCMemMap`: two BATs of each side on the GameCube and four on the Wii instead
  of four and eight, so that the default BATs, an ordinary one, the high ones and
  the loop over all of them exist. The guests write a BAT that moves, one that is
  added, one that is dropped, one that names no memory, one at another's address.
  Nothing else is bounded: the state is finite.
- `MCBatTranslate`: 64 addresses, blocks of 2 and 4, a Gekko's BATs (and the
  fifth and sixth of the default programming), of which the first two of each
  side are written, with short and long blocks, adjacent, overlapping,
  misaligned, at the top, and of a length that is none.
- `MCDsp`: registers of four bits (halves of two), blocks of two bytes, transfers
  of up to three blocks with a pointer that wraps, one length that is not a
  multiple of the block, and ARAM address 0; four values of CSR.
- `MCTraps`: two machines (a GameCube image on a Wii and the reverse), words of
  four bits, one access of each kind the code tells apart (every load and store it
  decodes, registers with storage, forwarded ones, gaps, an address that is
  unmapped, a place that holds no instruction it knows, an access that is neither
  read nor write), three faults of the emulator's own code. The stack is bounded
  by the signals: three handlers over the main thread.
- `MCTools`: two text and two data sections instead of seven and eleven, words of
  six bits, one word of padding, six images: overlapping sections, one in MEM2,
  one that goes past the file's end, the write to HID4 in a text section, in data
  section 0 and nowhere, one that starts in real mode, ones
  that need no guest memory; names of every kind, in range, at the bound and
  unknown.

### Fairness

- `MemMap`: weak fairness of the handler, which is straight code with bounded
  loops; none of the guest.
- `Dsp`: weak fairness of the handler and of the timer, an interval timer that
  fires as long as the process lives; none of the guest, so the liveness
  properties say "unless the guest writes again".
- `Traps`: weak fairness of the alarm's own steps, and strong fairness of the
  others, which the alarm interrupts again and again: its hooks are short against
  the 16 ms between two signals, so what they interrupt goes on in between. None
  of the guest. `HandlersEnd` and `FatalStops` assume that the emulator's own
  code does not fault for ever (`FaultsEnd`): the code does not ensure it, since
  the bail-out of a fault that is neither read nor write is the bail-out.
  `FatalStops` also assumes a guest that goes on trapping: an error that a hook
  reports is seen by a trap only.
- `Loader`, `DolPatch`: none; their properties are safety properties.

Deadlock is not checked where the process may end (the bail-out, exit, the end
of a load).

`ExactTransfer` is about transfers that were programmed while the DSP was
halted. For a running DSP it does not hold: the hook can run inside the write of
AR_DMA_SIZE, count a block that the store then forgets, move a block with the
previous transfer's pointers, or leave the two pointers a block apart.

### Assumptions about what is outside

- The handlers' calls of libc do not fault, although they run with the guest's r2.
- The guest's stack pointer is good whenever SIGALRM builds its frame on it.
- What the processor says of a faulting access (read, write, or neither of the
  two alone) does not contradict the instruction that faulted.
- The write-back of a load that was not decoded hits nothing else of the modelled
  state, `fatalError` for one, which would let a lost guest go on.
- The address `E_MemPhysToVirt` gives the DSP's hook is no device register.
- Images do not overwrite dol-run's own code (the words at `Hog` are its dummy data),
  and the guest's memories are apart from those words.
- The program is compiled as its Makefile does, without optimisation: control
  that reaches `__builtin_unreachable` falls through.

## 4. Proofs

The theorems hold for every value of the constants that their modules' named
assumptions allow: every number of BATs from two low ones on, all accesses and
values, all sizes of registers and blocks.

- `MemMapProofs`: `TypeCorrect`, `NothingPendingHolds`, `TrackedIsMappedHolds`,
  `TrapsRunOutHolds` (any guest). The first needs `idx < MaxBat`, the second that an error or an
  update keeps the handler from returning to the guest. For the third the
  invariant is the property itself; the argument is that an address leaves
  `space` only in `UnmapAll`, which resets every entry that has it. The
  fourth is the part of `TrapCompletes` that needs no fairness: `StepsLeft`, at most
  two for each BAT and one, falls with every step.
- `MemMapModes`: `MapInvHolds`, `RealModeIsPhysicalHolds`,
  `OnlyWhatBatsSayHolds`, `DbatsHonouredHolds` (assuming `RfiSwitches` and
  `RealModeBats`). What the guest sees at the end of a trap depends on what the
  tables mean on the way, so the invariant says that: `PlaceInv` (which mode a
  place in the handler belongs to), `RealInv` (in real mode nothing but the
  physical mappings, all in the tables), `BackedInv` (in translated mode whatever
  is mapped is some BAT's entry), `EntryInv` (every entry is its BAT's mapping, or
  was never set, and then the BATs are still the default ones), `DoneInv` (the
  data BATs the loop has passed are honoured). Between a switch to real mode and
  the next the guest may write BATs: nothing in the tables refers to them then,
  which is why `RealModeBats` is needed.
- `MemMapRefines`: `ImplementsGuestMemoryHolds`. `Init` maps to `Init`; a trap maps
  to `Trap`, `Stop` or a stutter by the instruction, the handler's return to
  `Resume`, whose `Promised` is the three mode properties, and its other steps to
  stutters or `Stop`.
- `BatTranslateProofs`: `TypeCorrect`, `TranslatesLikeHardwareHolds`,
  `DataResolvesLikeHardwareHolds`. The arithmetic of a block whose length divides
  the address space: an aligned block that does not end at the top contains
  exactly the addresses with its upper part, and adding the offset is replacing
  that part. That lengths are powers of two is not needed, only that each divides
  the address space.
- `DspProofs`: `TypeCorrect`, `ResetArmedHolds`, `HaltShownHolds`,
  `ExactTransferHolds`, `ImplementsAramDmaHolds`. The invariant `DspInv` says what the handler has in hand at
  each of its steps: no transfer is remembered while the next is being written,
  and between the assignments of `E_MMIO_DSP_DMAStart` the hook of a halted DSP
  does nothing. For the refinement the writes of the length map to `Forget` and
  stutters, the last assignment of `E_MMIO_DSP_DMAStart` to `Program` if the DSP is
  halted, a block to `Move`.
- `TrapsProofs`: `TypeCorrect`, `FatalIsFinalHolds`, `SeedWholeHolds`,
  `DecrementerFallsHolds`. The first contains that each
  signal is on the stack at most once, which is what makes the stack bounded. The
  second is not inductive, because the bail-out overwrites `fatalError`:
  `TrapsInv` adds that only the bottom is ever the guest, that a handler's frame
  has its own signal, and that a doomed process has the bail-out on its stack, or
  `fatalError` set and a handler there that will look at it. For the third
  `TornInv` says that a program that is half copied has the hook that was copying
  it on the stack, or the bail-out that its fault led to; a guest runs under neither.
- `TrapsRefines`: `PreciseHolds`, `ImplementsGuestCpuHolds`. `Precise` is not
  inductive: a handler is between the access and the write of what it read, and
  on top of it there may be the timer's and a fault of that. `PreciseInv` says, as
  long as the bail-out has not begun, that SIGILL is only ever handled directly
  above the guest, and (`RegsInv`) that the registers are as they should be, but
  for a value which the handler above the guest has read and not yet put where it
  belongs; frames above that one never touch the registers, which is shown from
  the five shapes a step gives the stack. The refinement then goes by `Status`: a
  handler's steps undo to the same registers, its return is `Resume`, its fatal
  error, the bail-out and the end are `Stop`. That a handler with an error does not
  return takes `TrapsInv`.
- `ToolsProofs`: `TypesHold`, `PatchIsExactHolds`, `PatchIsLoadedHolds`,
  `HooksAreReadyHolds`, `LoadedAsLinkedHolds`, `StartsPreparedHolds`,
  `TextHid4IsWiiHolds`, for all numbers of sections, files and memories. `PatchInv`
  says that the file is untouched until the write, whose field has been looked up
  by then; that the bytes written are the value's in either byte order is
  arithmetic on half words. `LoadInv` has four parts: `HooksInv` ties the number
  of hooks to the place main is at, with the one about to be counted already
  stored; `ScanInv` says what the sections scanned so far do not contain;
  `MemoryInv` is `LoadedAsLinked` for the sections copied so far, and says that
  with no memory mapped none of those touches it (the copy would have killed the
  process); `PlaceInv` bounds the loops and keeps what earlier steps have ensured.

Only model-checked: the liveness properties, since fairness and ENABLED are
outside the prover. Every safety property of a passing run is a theorem.

## 5. Not modelled

- IPC (`mmio/hlwd-ipc.c`): no Makefile builds it and its initialisation is
  commented out.
- `dol-info`: prints a header; wording and layout only.
- The clean-up functions of the DSP and the forwarded hardware: nobody calls them.
- The values of the mailboxes, AR_SIZE and the privileged registers that are
  plain storage: stores to them are actions that change nothing modelled.
- The values the DSP's registers read as: a read changes nothing. One of them is
  wrong: the high half of AR_DMA_ARADDR reads as that of AR_DMA_MMADDR
  (`mmio/dsp.c:154`).
- Sizes and protections of mappings, caches, and what the forwarded hardware does.
- stdio inside a signal that interrupts stdio, and a hook's access to memory that
  `E_MemMapFixups` is replacing.

## 6. Plan

Done, in this order: `Cpu`, `MemMap` and its proofs, `BatTranslate`, `Dsp`,
`GuestMemory` and the refinement, `Mmio` and `Traps`, `DolFile`, `DolPatch`,
`Loader` and `Tools`, the proofs of `Traps`, `Dsp`, `BatTranslate` and `Tools`, `GuestCpu` and its
refinement, `AramDma` and its refinement.

Left:

1. The register numbers of mtspr and mfspr: that what is written to a register is
   what is read back.
