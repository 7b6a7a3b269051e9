------------------------------- MODULE Traps -------------------------------
(***************************************************************************)
(* The guest runs natively inside the emulator; the emulator is its signal *)
(* handlers (emu.c): SIGSEGV emulates a load or a store to the chipset,    *)
(* SIGILL a privileged instruction, SIGALRM runs the timer's hooks         *)
(* (timer.c).  The state is the stack of the signals being handled.  Each  *)
(* frame is what its code is and where it stands; the bottom is the main   *)
(* thread, the guest until a handler sends it to emergencyBailOut.         *)
(*                                                                         *)
(* A handler blocks its own signal only.  So the timer interrupts the two  *)
(* others anywhere, and SIGSEGV is delivered for faults of the emulator's  *)
(* own code, except inside its own handler: there the kernel kills the     *)
(* process.  MSR and the memory map are module MemMap's.                   *)
(***************************************************************************)
EXTENDS Mmio, Sequences, SequencesExt

CONSTANTS
    Machines,       \* pairs <<consoleType, hostType>>
    Accesses,       \* the guest's accesses that fault
    OwnAccesses,    \* and those of the emulator's code
    Vals,           \* what a register of the guest holds
    DecVals,        \* what it writes to DEC
    DecStep         \* what the hook takes off DEC, by consoleType

ASSUME TrapsAssumption ==
    /\ Machines \subseteq {"GameCube", "Wii"} \X {"GameCube", "Wii"}
    /\ Vals \subseteq Word
    /\ DecVals \subseteq Nat /\ DecStep \in [{"GameCube", "Wii"} -> Nat]

Loads   == {"lwz", "lhz", "lha"}
Stores  == {"stw", "sth", "sthu"}

(* The type is what the processor says of the faulting access, "other" if  *)
(* it says more than that it was a load or a store.  It is not mistaken.   *)
ASSUME AccessAssumption ==
    \A a \in Accesses : /\ a.type \in {"read", "write", "other"}
                        /\ a.op \in Loads  => a.type # "write"
                        /\ a.op \in Stores => a.type # "read"

VARIABLES
    consoleType, hostType,
    proc,           \* "alive", "exited" or "killed"
    stk,            \* the signals being handled, innermost last
    fatal,          \* E_State.fatalError
    borked,
    dev,            \* the registers of the chipset
    gpr,            \* the guest's rt (source or target), ra (base) and pc
    dec,            \* E_State.cpu.decrementer
    iram,           \* the DSP's program: "whole" or "torn"
    want,           \* history: gpr as the trapped instruction should leave it
    doomed          \* history: a trap has met a fatal error

machine == <<consoleType, hostType>>
errors  == <<fatal, borked>>
history == <<want, doomed>>
vars    == <<machine, proc, stk, errors, dev, gpr, dec, iram, history>>

Regs    == [rt : Word, ra : 0 .. 1, pc : 0 .. 1]
Nothing == [type |-> "none", op |-> "none", at |-> [bus |-> "none", block |-> "none", reg |-> "none"]]
Zeroed  == [rt |-> 0, ra |-> 0, pc |-> 0]

Frame(code, at, acc) == [sig |-> code, code |-> code, at |-> at, acc |-> acc, w |-> Odd, val |-> 0]
Guest   == [Frame("guest", "run", Nothing) EXCEPT !.sig = "none"]

Steps(code) ==
    CASE code = "guest" -> {"run"}
      [] code = "segv"  -> {"entry", "fetch", "device", "out", "exit", "hang"}
      [] code = "ill"   -> {"entry", "emulate", "fixups", "out", "exit", "hang"}
      [] code = "alrm"  -> {"dsp", "copy", "dec"}
      [] code = "bail"  -> {"start", "print", "exit"}

Frames == [sig  : {"none", "segv", "ill", "alrm"},
           code : {"guest", "segv", "ill", "alrm", "bail"},
           at   : {"run", "entry", "fetch", "device", "emulate", "fixups", "out", "exit", "hang",
                   "dsp", "copy", "dec", "start", "print"},
           acc  : Accesses \cup OwnAccesses \cup {Nothing},
           w    : Widths,
           val  : Word]

(* A frame stands at a step of its code; a signal is blocked while it is   *)
(* handled; the main thread is at the bottom.                              *)
StackOK(s) ==
    /\ s \in Seq(Frames) /\ s # <<>>
    /\ \A i \in DOMAIN s :
          /\ s[i].at \in Steps(s[i].code)
          /\ s[i].sig = "none" <=> i = 1
          /\ \A j \in DOMAIN s : s[i].sig = s[j].sig => i = j

TypeOK ==
    /\ <<consoleType, hostType>> \in Machines
    /\ proc \in {"alive", "exited", "killed"}
    /\ StackOK(stk)
    /\ fatal \in BOOLEAN /\ borked \in BOOLEAN /\ doomed \in BOOLEAN
    /\ dev \in [Storage -> Word]
    /\ gpr \in Regs /\ want \in Regs
    /\ dec \in Nat
    /\ iram \in {"whole", "torn"}

Init ==
    /\ \E m \in Machines : consoleType = m[1] /\ hostType = m[2]
    /\ proc = "alive"
    /\ stk = <<Guest>>
    /\ fatal = FALSE /\ borked = FALSE
    /\ dev = E_MMIO_Chipset_Init
    /\ gpr = Zeroed /\ want = Zeroed
    /\ dec = 0
    /\ iram = "whole"
    /\ doomed = FALSE

-----------------------------------------------------------------------------
Top             == Last(stk)
At(code, at)    == proc = "alive" /\ Top.code = code /\ Top.at = at
Handling(sig)   == \E i \in DOMAIN stk : stk[i].sig = sig
Goto(at)        == stk' = [stk EXCEPT ![Len(stk)].at = at]
GuestRuns       == At("guest", "run")
GuestTrapped    == stk[Len(stk) - 1].code = "guest"
Advance(r)      == [r EXCEPT !.pc = (@ + 1) % 2]
Rebase(r)       == [r EXCEPT !.ra = (@ + 1) % 2]

(* A handler's ordinary return, and its return to emergencyBailOut, on the *)
(* registers of whatever it interrupted.                                   *)
Return          == stk' = Front(stk)
ReturnTo(bail)  == stk' = [Front(stk) EXCEPT ![Len(stk) - 1] =
                              [bail EXCEPT !.sig = stk[Len(stk) - 1].sig]]
BailOut         == ReturnTo(Frame("bail", "start", Nothing))

(* Mutant: the handler's own signal is not blocked while it runs. *)
FaultNests(acc) ==
    /\ stk' = Append(stk, Frame("segv", "entry", acc))
    /\ doomed' = (doomed \/ fatal)
    /\ UNCHANGED <<machine, proc, errors, dev, gpr, dec, iram, want>>

(* A fault of the emulator's own code. *)
Fault(acc) ==
    /\ IF Handling("segv")
       THEN proc' = "killed" /\ UNCHANGED <<stk, doomed>>
       ELSE /\ stk' = Append(stk, Frame("segv", "entry", acc))
            /\ doomed' = (doomed \/ fatal)
            /\ UNCHANGED proc
    /\ UNCHANGED <<machine, errors, dev, gpr, dec, iram, want>>

-----------------------------------------------------------------------------
(* The guest.  Between two traps it sets its registers as it likes.        *)
GuestAccess ==
    /\ GuestRuns
    /\ \E a \in Accesses, v \in Vals :
          /\ stk' = Append(stk, Frame("segv", "entry", a))
          /\ gpr' = [gpr EXCEPT !.rt = v]
    /\ want' = gpr'
    /\ doomed' = (doomed \/ fatal)
    /\ UNCHANGED <<machine, proc, errors, dev, dec, iram>>

GuestPrivileged ==
    /\ GuestRuns
    /\ stk' = Append(stk, Frame("ill", "entry", Nothing))
    /\ doomed' = (doomed \/ fatal)
    /\ UNCHANGED <<machine, proc, errors, dev, gpr, dec, iram, want>>

-----------------------------------------------------------------------------
(* What both handlers begin with: the second fatal error exits, the third  *)
(* finds the emulator borked and waits for ever.                           *)
Proceed(at) ==
    \/ borked /\ Goto("hang") /\ UNCHANGED <<errors, doomed>>
    \/ /\ ~borked /\ fatal
       /\ borked' = TRUE /\ doomed' = TRUE /\ Goto("exit") /\ UNCHANGED fatal
    \/ ~borked /\ ~fatal /\ Goto(at) /\ UNCHANGED <<errors, doomed>>

(* E_SIGSEGV_Handler.  The type of the access is looked at before borked   *)
(* and fatalError are.                                                     *)
SegvEntry ==
    /\ At("segv", "entry")
    /\ \/ /\ Top.acc.type = "other"
          /\ fatal' = TRUE /\ doomed' = TRUE /\ Goto("out") /\ UNCHANGED borked
       \/ Top.acc.type # "other" /\ Proceed("fetch")
    /\ UNCHANGED <<machine, proc, dev, gpr, dec, iram, want>>

Bad(place) == \/ place.bus \in {"unmapped", "nonsense"}
              \/ place.bus = "hollywood" /\ consoleType = "GameCube"

(* lwz alone leaves accessWidth as it finds it.                            *)
WidthsOf(op) ==
    CASE op = "lwz" -> Widths
      [] op = "stw" -> {4}
      [] OTHER      -> {2}

(* The instruction is known: what its kind says of the access is set. *)
Decoded(at) ==
    \E w \in WidthsOf(Top.acc.op) :
        stk' = [stk EXCEPT ![Len(stk)] = [@ EXCEPT
                  !.at  = at,
                  !.w   = w,
                  !.val = CASE Top.acc.op = "stw" -> gpr.rt
                            [] Top.acc.op \in {"sth", "sthu"} -> gpr.rt % W
                            [] OTHER -> 0]]

(* The instruction is fetched from the guest's memory and decoded, and the *)
(* address resolved.  A fault of the fetch itself is blocked: the process  *)
(* is killed.                                                              *)
SegvFetch ==
    /\ At("segv", "fetch")
    /\ \/ /\ Top.acc.op = "unreadable"
          /\ proc' = "killed" /\ UNCHANGED <<stk, fatal, doomed>>
       \/ /\ Top.acc.op \notin Loads \cup Stores \cup {"unreadable"}
          /\ fatal' = TRUE /\ doomed' = TRUE /\ Goto("out") /\ UNCHANGED proc
       \/ /\ Top.acc.op \in Loads \cup Stores /\ Bad(Top.acc.at)
          /\ fatal' = TRUE /\ doomed' = TRUE /\ Decoded("out") /\ UNCHANGED proc
       \/ /\ Top.acc.op \in Loads \cup Stores /\ ~Bad(Top.acc.at)
          /\ Decoded("device") /\ UNCHANGED <<proc, fatal, doomed>>
    /\ UNCHANGED <<machine, borked, dev, gpr, dec, iram, want>>

(* What a load leaves in the register, by the processor's manual. *)
Extended(op, v) ==
    CASE op = "lha" /\ v % W >= W \div 2 -> (W - 1) * W + (v % W)
      [] op = "lha" /\ v % W < W \div 2  -> v % W
      [] op = "lhz"                      -> v % W
      [] OTHER                           -> v

(* Mutant: the base stays as it was. *)
SteppedNoBase(r, op) == Advance(r)

(* The instruction is stepped over, whether its access was accepted or not. *)
Stepped(r, op) == IF op = "sthu" THEN Advance(Rebase(r)) ELSE Advance(r)

(* The access itself.  A fault of the handler's own access is blocked.     *)
SegvDevice ==
    /\ At("segv", "device")
    /\ \E o \in IF Top.acc.type = "write" THEN Write(dev, Top.acc.at, Top.val, Top.w, hostType)
                                          ELSE Read(dev, Top.acc.at, Top.w, hostType) :
          IF o.fault
          THEN proc' = "killed" /\ UNCHANGED <<stk, fatal, dev, gpr, history>>
          ELSE /\ stk' = [stk EXCEPT ![Len(stk)] = [@ EXCEPT !.at = "out", !.val = o.val]]
               /\ dev' = o.dev
               /\ fatal' = (fatal \/ o.fatal)
               /\ doomed' = (doomed \/ o.fatal)
               /\ IF GuestTrapped
                  THEN /\ gpr' = Stepped(gpr, Top.acc.op)
                       /\ want' = [rt |-> IF Top.acc.type = "read" THEN Extended(Top.acc.op, o.val)
                                                                   ELSE want.rt,
                                   ra |-> IF Top.acc.op = "sthu" THEN 1 - want.ra ELSE want.ra,
                                   pc |-> 1 - want.pc]
                  ELSE UNCHANGED <<gpr, want>>
               /\ UNCHANGED proc
    /\ UNCHANGED <<machine, borked, dec, iram>>

(* Mutant: lha extends like lhz. *)
WriteBackNoSign(r, f) ==
    CASE f.w = 4 -> [r EXCEPT !.rt = f.val]
      [] f.w = 2 -> [r EXCEPT !.rt = f.val % W]
      [] f.w = 1 -> [r EXCEPT !.rt = f.val % B]
      [] OTHER   -> r

WriteBack(r, f) ==
    IF f.acc.op = "lha"
    THEN [r EXCEPT !.rt = IF f.val % W >= W \div 2 THEN (W - 1) * W + (f.val % W) ELSE f.val % W]
    ELSE CASE f.w = 4 -> [r EXCEPT !.rt = f.val]
           [] f.w = 2 -> [r EXCEPT !.rt = f.val % W]
           [] f.w = 1 -> [r EXCEPT !.rt = f.val % B]
           [] OTHER   -> r

(* Mutant: the fatal error is looked at on entry only. *)
ReturnOrBailOutReturns == Return

ReturnOrBailOut == IF fatal THEN BailOut ELSE Return

(* A load that was not decoded is written back all the same, with regDest  *)
(* and accessWidth as the stack has left them: nothing, a register of the  *)
(* guest set to zero, or a word that matters to nothing here.              *)
Undecoded == Top.acc.type = "read" /\ Top.acc.op \notin Loads \cup Stores
Astray(r) == {r, [r EXCEPT !.rt = 0], [r EXCEPT !.ra = 0]}

(* sigsegv_out.  The history asks nothing of lwz: with the width left to   *)
(* chance the register gets all of the value, a part of it, or nothing.    *)
SegvOut ==
    /\ At("segv", "out")
    /\ gpr' \in IF ~GuestTrapped \/ Top.acc.type # "read" THEN {gpr}
                ELSE IF Undecoded THEN Astray(gpr) ELSE {WriteBack(gpr, Top)}
    /\ want' = IF GuestTrapped /\ Top.acc.op = "lwz" THEN [want EXCEPT !.rt = gpr'.rt] ELSE want
    /\ ReturnOrBailOut
    /\ UNCHANGED <<machine, proc, errors, dev, dec, iram, doomed>>

(* The write that went astray may be a fault, which is blocked. *)
SegvStray ==
    /\ At("segv", "out")
    /\ Undecoded
    /\ proc' = "killed"
    /\ UNCHANGED <<machine, stk, errors, dev, gpr, dec, iram, history>>

-----------------------------------------------------------------------------
(* E_SIGILL_Handler. *)
IllEntry ==
    /\ At("ill", "entry")
    /\ Proceed("emulate")
    /\ UNCHANGED <<machine, proc, dev, gpr, dec, iram, want>>

(* The instruction: one that writes DEC, one that does not, or one that is *)
(* not allowed or not known.  Each may have asked for a new memory map.    *)
IllEmulate ==
    /\ At("ill", "emulate")
    /\ \/ /\ \/ dec' \in DecVals
             \/ UNCHANGED dec
          /\ gpr' = Advance(gpr)
          /\ want' = [want EXCEPT !.pc = 1 - @]
          /\ UNCHANGED <<fatal, doomed>>
       \/ /\ fatal' = TRUE /\ doomed' = TRUE
          /\ gpr' \in {gpr, Advance(gpr)}
          /\ UNCHANGED <<dec, want>>
    /\ Goto("fixups") \/ Goto("out")
    /\ UNCHANGED <<machine, proc, borked, dev, iram>>

(* Mutant: a map update that failed is tried again. *)
IllFixupsRetry ==
    /\ At("ill", "fixups")
    /\ fatal' \in {fatal, TRUE}
    /\ doomed' = (doomed \/ fatal' # fatal)
    /\ Goto(IF fatal' THEN "fixups" ELSE "out")
    /\ UNCHANGED <<machine, proc, borked, dev, gpr, dec, iram, want>>

(* E_MemMapFixups, which may fail (module MemMap). *)
IllFixups ==
    /\ At("ill", "fixups")
    /\ fatal' \in {fatal, TRUE}
    /\ doomed' = (doomed \/ fatal' # fatal)
    /\ Goto("out")
    /\ UNCHANGED <<machine, proc, borked, dev, gpr, dec, iram, want>>

IllOut ==
    /\ At("ill", "out")
    /\ ReturnOrBailOut
    /\ UNCHANGED <<machine, proc, errors, dev, gpr, dec, iram, history>>

(* exit(1), from a handler that met the second fatal error or from the     *)
(* bail-out.                                                               *)
Exit(code) ==
    /\ At(code, "exit")
    /\ proc' = "exited"
    /\ UNCHANGED <<machine, stk, errors, dev, gpr, dec, iram, history>>

-----------------------------------------------------------------------------
(* SIGALRM and the hooks in the order they were added: VI's does nothing.  *)
Alarm ==
    /\ proc = "alive" /\ ~Handling("alrm")
    /\ stk' = Append(stk, Frame("alrm", "dsp", Nothing))
    /\ UNCHANGED <<machine, proc, errors, dev, gpr, dec, iram, history>>

(* E_MMIO_DSP_TimerHook as module Dsp has it: no error, an error it        *)
(* reports, or the copy of the DSP's program from the guest's memory.      *)
AlrmDsp ==
    /\ At("alrm", "dsp")
    /\ \/ Goto("dec") /\ fatal' \in {fatal, TRUE} /\ UNCHANGED iram
       \/ Goto("copy") /\ iram' = "torn" /\ UNCHANGED fatal
    /\ UNCHANGED <<machine, proc, borked, dev, gpr, dec, history>>

(* Mutant: what is copied stops short. *)
AlrmCopyPart ==
    /\ At("alrm", "copy")
    /\ Goto("dec")
    /\ UNCHANGED <<machine, proc, errors, dev, gpr, dec, iram, history>>

AlrmCopy ==
    /\ At("alrm", "copy")
    /\ iram' = "whole"
    /\ Goto("dec")
    /\ UNCHANGED <<machine, proc, errors, dev, gpr, dec, history>>

(* Mutant: the rest is not cut off at zero (32 bits, here those of a word). *)
DecHookWraps(d) == (d + W * W - DecStep[consoleType]) % (W * W)

(* E_CPU_DecHook. *)
DecHook(d) == IF d < DecStep[consoleType] THEN 0 ELSE d - DecStep[consoleType]

AlrmDec ==
    /\ At("alrm", "dec")
    /\ dec' = DecHook(dec)
    /\ Return
    /\ UNCHANGED <<machine, proc, errors, dev, gpr, iram, history>>

-----------------------------------------------------------------------------
(* emergencyBailOut.  The stack it is given is the descriptor E_State      *)
(* keeps of the stack: its first store goes where fatalError is, printf's  *)
(* frames go over the rest of E_State.  The guest's registers are given up *)
(* with it, and what is in either matters no more: it is shown as zero.    *)
BailStart ==
    /\ At("bail", "start")
    /\ fatal' \in BOOLEAN
    /\ Goto("print")
    /\ dev' = E_MMIO_Chipset_Init
    /\ dec' = 0
    /\ gpr' = Zeroed /\ want' = Zeroed
    /\ UNCHANGED <<machine, proc, borked, iram, doomed>>

(* Mutant: it returns to where it was called from: itself. *)
BailPrintAgain ==
    /\ At("bail", "print")
    /\ Goto("start")
    /\ UNCHANGED <<machine, proc, errors, dev, gpr, dec, iram, history>>

BailPrint ==
    /\ At("bail", "print")
    /\ Goto("exit")
    /\ UNCHANGED <<machine, proc, errors, dev, gpr, dec, iram, history>>

(* Where the emulator's code runs on pointers it cannot trust: the copy    *)
(* reads where E_MemPhysToVirt points, which is no register; the bail-out  *)
(* and exit run on a thread pointer and a stack that are not theirs.       *)
OwnFault ==
    /\ \/ At("alrm", "copy") \/ At("bail", "print")
       \/ \E c \in {"segv", "ill", "bail"} : At(c, "exit")
    /\ \E a \in OwnAccesses :
          /\ a.at.bus \in {"nonsense", "unmapped"} \/ Top.code # "alrm"
          /\ Fault(a)

-----------------------------------------------------------------------------
SegvStep == SegvEntry \/ SegvFetch \/ SegvDevice \/ SegvOut \/ SegvStray \/ Exit("segv")
IllStep  == IllEntry \/ IllEmulate \/ IllFixups \/ IllOut \/ Exit("ill")
AlrmStep == AlrmDsp \/ AlrmCopy \/ AlrmDec
BailStep == BailStart \/ BailPrint \/ Exit("bail")

Next == GuestAccess \/ GuestPrivileged \/ Alarm \/ SegvStep \/ IllStep \/ AlrmStep \/ BailStep
        \/ OwnFault

(* The hooks are short against the 16 ms between two signals: the code     *)
(* they interrupt goes on in between, though it is stopped ever again.     *)
Spec     == Init /\ [][Next]_vars
FairSpec == Spec /\ WF_vars(AlrmStep) /\ SF_vars(SegvStep) /\ SF_vars(IllStep) /\ SF_vars(BailStep)

-----------------------------------------------------------------------------
(* A fatal error a trap has met is the guest's last: no handler, no hook   *)
(* and no fault inside them returns to it, though the bail-out overwrites  *)
(* the flag that says so (emu.c:299, emu.c:447, emu.c:301).                *)
FatalIsFinal == doomed => ~GuestRuns

(* What keeps it so: only the main thread is ever the guest, a handler has *)
(* its own signal, and a doomed process has the bail-out on its stack, or  *)
(* a handler that will look at fatalError.                                 *)
StackInv(s) ==
    \A i \in DOMAIN s : /\ s[i].code = "guest" => i = 1
                        /\ s[i].code \in {"segv", "ill", "alrm"} => s[i].sig = s[i].code
OnStack(codes, s) == \E i \in DOMAIN s : s[i].code \in codes
DoomedInv == doomed /\ proc = "alive" =>
                \/ OnStack({"bail"}, stk)
                \/ fatal /\ OnStack({"segv", "ill"}, stk)
TrapsInv == TypeOK /\ StackInv(stk) /\ DoomedInv

(* A program half copied is known by the copy that stands on the stack, or *)
(* by the bail-out its fault went to.                                      *)
Torn(s) == \E i \in DOMAIN s : s[i].code = "bail" \/ (s[i].code = "alrm" /\ s[i].at = "copy")
TornInv == iram = "torn" /\ proc = "alive" => Torn(stk)

(* When the guest goes on, a trapped load, store or privileged instruction *)
(* has left its registers as the processor would have: the value extended  *)
(* by its kind, the base updated, one instruction further, whatever ran in *)
(* between (emu.c:240, emu.c:281).                                         *)
Precise == GuestRuns => gpr = want

(* What keeps it so, until the guest is lost: only the handler that stands *)
(* on the guest changes its registers, and they are as they should be but  *)
(* for a value that has been read and not yet put where it belongs.        *)
TrapOf(code) == Len(stk) >= 2 /\ stk[2].code = code
Alive        == proc = "alive" /\ ~OnStack({"bail"}, stk)
Late(f)      == f.code = "segv" /\ f.at = "out" /\ f.acc.type = "read"
SegvInv(f) ==
    /\ f.acc \in Accesses
    /\ f.at # "entry" => f.acc.type # "other"
    /\ f.at \in {"device", "out"} => f.acc.op \in Loads \cup Stores /\ f.w \in WidthsOf(f.acc.op)
    /\ Late(f) => gpr.ra = want.ra /\ gpr.pc = want.pc /\ want.rt = Extended(f.acc.op, f.val)
RegsInv ==
    /\ TrapOf("segv") => SegvInv(stk[2])
    /\ ~(TrapOf("segv") /\ Late(stk[2])) => gpr = want
PreciseInv ==
    Alive => /\ \A n \in DOMAIN stk : stk[n].code = "ill" => n = 2
             /\ ~doomed => RegsInv

(* The guest never runs with the DSP's program half copied, though the     *)
(* copy faults (dsp.c:58) and the fault is a trap of its own.              *)
SeedWhole == GuestRuns => iram = "whole"

(* The guest's side of it.  A trap is over when it has returned; it is     *)
(* lost with the guest's thread, or with the error it has met.  Until then *)
(* the guest is before its instruction, what the handler has done undone.  *)
Trapped == TrapOf("segv") \/ TrapOf("ill")
Status  == IF Alive /\ ~Trapped THEN "runs" ELSE IF Alive /\ ~doomed THEN "traps" ELSE "stopped"
Insn    == CASE Status # "traps"                                  -> "none"
             [] Status = "traps" /\ stk[2].code = "ill"           -> "privileged"
             [] Status = "traps" /\ stk[2].code # "ill" ->
                   IF stk[2].acc.op \in Loads \cup Stores THEN stk[2].acc.op ELSE "other"
Rebases == stk[2].code = "segv" /\ stk[2].acc.op = "sthu"
Undone  == IF stk[2].at \in {"fixups", "out"}
           THEN [gpr EXCEPT !.pc = 1 - @, !.ra = IF Rebases THEN 1 - @ ELSE @]
           ELSE gpr
Shown   == CASE Status = "runs"    -> gpr
             [] Status = "traps"   -> Undone
             [] Status = "stopped" -> Zeroed

G == INSTANCE GuestCpu WITH status <- Status, insn <- Insn, r <- Shown

(* emu.c keeps the promise of GuestCpu: with the timer's hooks and faults  *)
(* of the emulator's own code anywhere in between, an instruction that     *)
(* traps takes effect once and whole, or the guest never goes on           *)
(* (emu.c:266, emu.c:447).                                                 *)
ImplementsGuestCpu == G!Spec

(* Between two writes the decrementer only falls, and stops at zero: the   *)
(* hook takes a step that need not divide it (cpu/init.c:26).              *)
DecrementerFalls == [][dec' <= dec \/ At("ill", "emulate")]_vars

(* Every handler ends, and so does the bail-out, unless the emulator's own *)
(* code faults for ever: they return, exit, are killed or come to the loop *)
(* that says it gives up (emu.c:117, emu.c:346).                           *)
Running(code) == OnStack({code}, stk)
GaveUp        == proc # "alive" \/ \E i \in DOMAIN stk : stk[i].at = "hang"
FaultsEnd     == <>[][~OwnFault]_vars
HandlersEnd   == FaultsEnd =>
                    \A c \in {"segv", "ill", "alrm", "bail"} : Running(c) ~> (~Running(c) \/ GaveUp)

(* A fatal error stops the emulator, also one a hook reports, which no     *)
(* handler is there to see (dsp.c:55, dsp.c:79): provided the guest goes   *)
(* on trapping.                                                            *)
FatalStops == FaultsEnd /\ SF_vars(GuestAccess \/ GuestPrivileged) => (fatal ~> GaveUp)
=============================================================================
