---------------------------- MODULE TrapsRefines ----------------------------
(***************************************************************************)
(* What a trap does to the guest's registers: they are as the processor    *)
(* would have left them when the guest goes on, and Traps implements       *)
(* GuestCpu.  First the stack: which frame a step touches, and that only   *)
(* the one that stands on the guest's touches its registers.               *)
(***************************************************************************)
EXTENDS TrapsProofs

(* The five things a step does to the stack, frame by frame. *)
Push(f)   == stk' = Append(stk, f)
Change(f) == stk' = [stk EXCEPT ![Len(stk)] = f] /\ f.code = Top.code
LEMMA Shapes ==
    ASSUME TrapsInv, [Next]_vars
    PROVE  \/ \E f : f.code \in Handlers /\ (f.code = "ill" => GuestPrivileged) /\ Push(f)
           \/ \E f : Change(f)
           \/ Return /\ Top.code \in Handlers
           \/ BailOut /\ Top.code \in {"segv", "ill"}
           \/ stk' = stk
<1>1. Top = stk[Len(stk)] /\ Top \in Frames
  BY TopFacts
<1>2. ASSUME NEW at, Goto(at) PROVE \E f : Change(f)
  <2>1. Change([Top EXCEPT !.at = at])
    BY <1>1, <1>2 DEF Goto, Change, Frames
  <2> QED
    BY <2>1
<1>3. ASSUME NEW code \in Handlers, NEW at, NEW acc, stk' = Append(stk, Frame(code, at, acc)),
             code = "ill" => GuestPrivileged
      PROVE  \E f : f.code \in Handlers /\ (f.code = "ill" => GuestPrivileged) /\ Push(f)
  <2>1. Frame(code, at, acc).code = code
    BY DEF Frame
  <2> QED
    BY <1>3, <2>1 DEF Push
<1>4. CASE GuestAccess \/ GuestPrivileged \/ Alarm
  <2>1. CASE GuestAccess
    BY <1>3, <2>1 DEF GuestAccess, Handlers
  <2>2. CASE GuestPrivileged
    BY <1>3, <2>2 DEF GuestPrivileged, Handlers
  <2>3. CASE Alarm
    BY <1>3, <2>3 DEF Alarm, Handlers
  <2> QED
    BY <1>4, <2>1, <2>2, <2>3
<1>5. CASE SegvEntry \/ IllEntry \/ IllEmulate \/ IllFixups \/ AlrmDsp \/ AlrmCopy \/ BailStart \/ BailPrint
  <2>1. \E at : Goto(at)
    BY <1>5 DEF SegvEntry, IllEntry, IllEmulate, IllFixups, AlrmDsp, AlrmCopy, BailStart, BailPrint, Proceed
  <2> QED
    BY <1>2, <2>1
<1>6. CASE SegvFetch
  <2>1. ASSUME NEW at, NEW w, NEW v, stk' = [stk EXCEPT ![Len(stk)] = [Top EXCEPT !.at = at, !.w = w, !.val = v]]
        PROVE  Change([Top EXCEPT !.at = at, !.w = w, !.val = v])
    BY <1>1, <2>1 DEF Change, Frames
  <2>2. Top.code = "segv" /\ (stk' = stk \/ Goto("out") \/ \E at \in {"device", "out"} : Decoded(at))
    BY <1>6 DEF SegvFetch, At
  <2>3. ASSUME NEW at \in {"device", "out"}, Decoded(at) PROVE \E f : Change(f)
    <3>1. PICK w, v : stk' = [stk EXCEPT ![Len(stk)] = [Top EXCEPT !.at = at, !.w = w, !.val = v]]
      BY <2>2, <2>3, DecodedFrame
    <3> QED
      BY <2>1, <3>1
  <2> QED
    BY <1>2, <2>2, <2>3
<1>7. CASE SegvDevice
  <2>1. ASSUME NEW v, stk' = [stk EXCEPT ![Len(stk)] = [@ EXCEPT !.at = "out", !.val = v]]
        PROVE  Change([Top EXCEPT !.at = "out", !.val = v])
    BY <1>1, <2>1 DEF Change, Frames
  <2>2. stk' = stk \/ \E v : stk' = [stk EXCEPT ![Len(stk)] = [@ EXCEPT !.at = "out", !.val = v]]
    BY <1>7 DEF SegvDevice
  <2> QED
    BY <2>1, <2>2
<1>8. CASE SegvOut \/ IllOut \/ AlrmDec
  BY <1>8 DEF SegvOut, IllOut, AlrmDec, At, ReturnOrBailOut, Handlers
<1>9. CASE SegvStray \/ \E code : Exit(code)
  BY <1>9 DEF Exit, SegvStray
<1>10. CASE OwnFault
  <2>1. PICK a : Fault(a)
    BY <1>10 DEF OwnFault
  <2>2. stk' = stk \/ stk' = Append(stk, Frame("segv", "entry", a))
    BY <2>1 DEF Fault
  <2> QED
    BY <1>3, <2>2 DEF Handlers
<1>11. CASE UNCHANGED vars
  BY <1>11 DEF vars
<1> QED
  BY <1>4, <1>5, <1>6, <1>7, <1>8, <1>9, <1>10, <1>11 DEF Next, SegvStep, IllStep, AlrmStep, BailStep

(* The same, as the frames below the innermost have it. *)
LEMMA Below ==
    ASSUME TrapsInv, [Next]_vars, Alive'
    PROVE  /\ Alive /\ Len(stk) \in Nat /\ Len(stk) >= 1 /\ Len(stk') \in Nat
           /\ Len(stk') >= Len(stk) - 1 /\ Len(stk') <= Len(stk) + 1 /\ Len(stk') >= 1
           /\ DOMAIN stk = 1 .. Len(stk) /\ DOMAIN stk' = 1 .. Len(stk')
           /\ \A i \in 1 .. Len(stk) - 1 : stk'[i] = stk[i]
           /\ Top = stk[Len(stk)] /\ Top.code # "bail"
           /\ Len(stk') = Len(stk) => stk'[Len(stk)].code = Top.code
           /\ Len(stk') > Len(stk) => stk'[Len(stk)] = Top
           /\ Len(stk') > Len(stk) /\ stk'[Len(stk')].code = "ill" => GuestPrivileged
           /\ Len(stk') < Len(stk) => stk' = Front(stk)
<1>1. /\ Good(stk) /\ Top = stk[Len(stk)] /\ Top = Last(stk) /\ stk \in Seq(Frames)
      /\ Len(stk) \in Nat /\ Len(stk) >= 1 /\ DOMAIN stk = 1 .. Len(stk)
  BY TopFacts, Grounded
<1> DEFINE n == Len(stk)
           m == Len(stk')
<1>0. n \in Nat /\ n >= 1
  BY <1>1
<1>2. proc' = "alive" => proc = "alive"
  BY DEF Next, GuestAccess, GuestPrivileged, Alarm, SegvStep, SegvEntry, SegvFetch, SegvDevice, SegvOut, SegvStray,
      IllStep, IllEntry, IllEmulate, IllFixups, IllOut, AlrmStep, AlrmDsp, AlrmCopy, AlrmDec, BailStep,
      BailStart, BailPrint, Exit, OwnFault, Fault, vars, GuestRuns, At
<1>3. ~OnStack({"bail"}, stk')
  BY DEF Alive
<1> DEFINE Goal == /\ ~OnStack({"bail"}, stk) /\ m \in Nat
                   /\ m >= n - 1 /\ m <= n + 1 /\ m >= 1
                   /\ DOMAIN stk' = 1 .. m
                   /\ \A i \in 1 .. n - 1 : stk'[i] = stk[i]
                   /\ m = n => stk'[n].code = Top.code
                   /\ m > n => stk'[n] = Top /\ (stk'[m].code = "ill" => GuestPrivileged)
                   /\ m < n => stk' = Front(stk)
<1>4. ASSUME NEW f, f.code = "ill" => GuestPrivileged, Push(f) PROVE Goal
  <2>1. Len(stk') = Len(stk) + 1 /\ DOMAIN stk' = 1 .. Len(stk) + 1
        /\ stk'[Len(stk) + 1] = f /\ \A i \in 1 .. Len(stk) : stk'[i] = stk[i]
    BY <1>1, <1>4 DEF Push
  <2>2. ~OnStack({"bail"}, stk)
    BY <1>1, <1>3, <2>1 DEF OnStack
  <2>3. m = n + 1 /\ DOMAIN stk' = 1 .. m /\ stk'[n] = Top
        /\ (stk'[m].code = "ill" => GuestPrivileged)
    <3>1. n \in 1 .. n /\ Top = stk[n]
      BY <1>0, <1>1
    <3>2. stk'[n] = Top
      BY <2>1, <3>1
    <3> QED
      BY <1>4, <2>1, <3>2
  <2>4. \A i \in 1 .. n - 1 : stk'[i] = stk[i]
    BY <1>0, <2>1
  <2> HIDE DEF n, m
  <2> QED
    BY <1>0, <2>2, <2>3, <2>4
<1>5. ASSUME NEW f, Change(f) PROVE Goal
  <2>1. Len(stk') = Len(stk) /\ DOMAIN stk' = 1 .. Len(stk) /\ stk'[Len(stk)] = f
        /\ f.code = Top.code /\ \A i \in 1 .. Len(stk) : i # Len(stk) => stk'[i] = stk[i]
    BY <1>1, <1>5 DEF Change
  <2>2. \A i \in 1 .. Len(stk) : stk'[i].code = stk[i].code
    BY <1>1, <2>1
  <2>3. ~OnStack({"bail"}, stk)
    BY <1>1, <1>3, <2>1, <2>2 DEF OnStack
  <2>4. m = n /\ DOMAIN stk' = 1 .. m /\ stk'[n].code = Top.code
    BY <1>0, <2>1
  <2>5. \A i \in 1 .. n - 1 : i \in 1 .. n /\ i # n
    BY <1>0
  <2>6. \A i \in 1 .. n - 1 : stk'[i] = stk[i]
    BY <2>1, <2>5
  <2> HIDE DEF n, m
  <2> QED
    BY <1>0, <2>3, <2>4, <2>6
<1>6. ASSUME Return, Top.code \in Handlers PROVE Goal
  <2>1. Len(stk) >= 2 /\ stk' = Front(stk) /\ stk' \in Seq(Frames) /\ Len(stk') = Len(stk) - 1
        /\ \A i \in 1 .. Len(stk) - 1 : stk'[i] = stk[i]
    BY <1>1, <1>6, Interrupts DEF Return
  <2>2. Top.code # "bail"
    BY <1>6 DEF Handlers
  <2>3. m = n - 1 /\ n >= 2 /\ DOMAIN stk' = 1 .. m /\ stk' = Front(stk)
        /\ \A i \in 1 .. n - 1 : stk'[i] = stk[i]
    BY <1>0, <2>1
  <2>4. DOMAIN stk = 1 .. n /\ stk[n].code # "bail"
    BY <1>1, <2>2
  <2> HIDE DEF n, m
  <2>5. ASSUME NEW i \in DOMAIN stk, stk[i].code \in {"bail"} PROVE FALSE
    <3>1. i \in 1 .. n /\ i # n
      BY <2>4, <2>5
    <3>2. i \in DOMAIN stk' /\ stk'[i] = stk[i]
      BY <1>0, <2>3, <3>1
    <3> QED
      BY <1>3, <2>5, <3>2 DEF OnStack
  <2>6. ~OnStack({"bail"}, stk)
    BY <2>5 DEF OnStack
  <2> QED
    BY <1>0, <2>3, <2>6
<1>7. ASSUME BailOut, Top.code \in {"segv", "ill"} PROVE Goal
  <2>1. OnStack({"bail"}, stk')
    BY <1>1, <1>7, BailedOut DEF BailOut, ReturnTo
  <2> QED
    BY <1>3, <2>1
<1>8. ASSUME stk' = stk PROVE Goal
  <2>1. m = n /\ DOMAIN stk' = 1 .. m /\ stk'[n].code = Top.code
        /\ \A i \in 1 .. n - 1 : stk'[i] = stk[i]
    BY <1>0, <1>1, <1>8
  <2>2. ~OnStack({"bail"}, stk)
    BY <1>3, <1>8
  <2> HIDE DEF n, m
  <2> QED
    BY <1>0, <2>1, <2>2
<1> HIDE DEF Goal
<1>9. Goal
  BY <1>4, <1>5, <1>6, <1>7, <1>8, Shapes
<1>10. ~OnStack({"bail"}, stk)
  BY <1>9 DEF Goal
<1>11. Top.code # "bail"
  BY <1>10, OnTop
<1>12. Alive
  BY <1>2, <1>10 DEF Alive
<1> QED
  BY <1>1, <1>9, <1>11, <1>12 DEF Goal

-----------------------------------------------------------------------------
(* Whose step it is: the guest's, the handler's that stands on the guest,  *)
(* or that of something above them or beside, which touches neither the    *)
(* guest's registers nor the frame of its trap.                            *)
Aside == UNCHANGED <<gpr, want>> /\ (Trapped' <=> Trapped) /\ (Trapped => stk'[2] = stk[2])

LEMMA Counts ==
    ASSUME NEW n \in Nat, NEW m \in Nat
    PROVE  /\ n >= 1 => n = 1 \/ n >= 2
           /\ n >= 2 => n = 2 \/ n >= 3
           /\ n >= 2 /\ m = n + 1 => n >= 3 \/ (n = 2 /\ m > 2)
           /\ n = 2 /\ (m = n \/ m = n - 1) => m <= 2
OBVIOUS

LEMMA Heights ==
    ASSUME TrapsInv, [Next]_vars, Alive'
    PROVE  /\ Alive /\ Len(stk) \in Nat /\ Len(stk) >= 1 /\ Len(stk') \in Nat /\ Len(stk') >= 1
           /\ Len(stk') >= Len(stk) - 1 /\ Len(stk') <= Len(stk) + 1
BY Below

LEMMA AboveTrap ==
    ASSUME TrapsInv, [Next]_vars, Alive', UNCHANGED <<gpr, want>>,
           Len(stk) >= 3 \/ (Len(stk) = 2 /\ Len(stk') > 2)
    PROVE  Aside
<1>1. /\ \A i \in 1 .. Len(stk) - 1 : stk'[i] = stk[i]
      /\ Top = stk[Len(stk)]
      /\ Len(stk') > Len(stk) => stk'[Len(stk)] = Top
  BY Below
<1>2. Len(stk) >= 2 /\ Len(stk') >= 2
  BY Heights
<1>3. stk'[2] = stk[2]
  <2>1. CASE Len(stk) >= 3
    BY <1>1, <2>1, Heights, 2 \in 1 .. Len(stk) - 1
  <2>2. CASE Len(stk) = 2 /\ Len(stk') > 2
    BY <1>1, <2>2
  <2> QED
    BY <2>1, <2>2
<1> QED
  BY <1>2, <1>3 DEF Aside, Trapped, TrapOf

LEMMA OnGuest ==
    ASSUME TrapsInv, Alive, Top.code \in Handlers
    PROVE  Len(stk) >= 2 /\ (GuestTrapped <=> Len(stk) = 2)
<1>1. Good(stk) /\ Top = Last(stk) /\ Len(stk) \in Nat /\ DOMAIN stk = 1 .. Len(stk)
      /\ \A i \in 1 .. Len(stk) : stk[i] \in Frames
  BY TopFacts, Grounded
<1>2. Len(stk) >= 2
  BY <1>1, Interrupts
<1>3. GuestTrapped => Len(stk) = 2
  BY <1>1, <1>2, Len(stk) - 1 \in 1 .. Len(stk) DEF GuestTrapped, Good, StackInv
<1>4. stk[1].code = "guest"
  <2>1. 1 \in DOMAIN stk /\ stk[1] \in Frames
    BY <1>1, <1>2
  <2>2. stk[1].sig = "none"
    BY <1>1, <2>1 DEF Good, StackOK
  <2>3. stk[1].code \notin {"segv", "ill", "alrm"}
    BY <1>1, <2>1, <2>2 DEF Good, StackInv
  <2>4. stk[1].code # "bail"
    BY <2>1 DEF Alive, OnStack
  <2> QED
    BY <2>1, <2>3, <2>4 DEF Frames
<1> QED
  BY <1>1, <1>2, <1>3, <1>4 DEF GuestTrapped

LEMMA GuestBelow ==
    ASSUME TrapsInv, Top.code = "guest"
    PROVE  Len(stk) = 1
<1>1. Good(stk) /\ Top = stk[Len(stk)] /\ Len(stk) \in DOMAIN stk
  BY TopFacts, Grounded
<1> QED
  BY <1>1 DEF Good, StackInv

LEMMA Whose ==
    ASSUME TrapsInv, PreciseInv, [Next]_vars, Alive'
    PROVE  \/ Len(stk) = 1 /\ (GuestAccess \/ GuestPrivileged)
           \/ Len(stk) = 2 /\ Top = stk[2] /\ GuestTrapped /\ (SegvStep \/ IllStep)
           \/ Aside
<1>1. /\ Alive /\ Len(stk) \in Nat /\ Len(stk) >= 1 /\ Len(stk') \in Nat
      /\ Top = stk[Len(stk)] /\ Top.code # "bail"
  BY Below
<1>0. Len(stk) \in Nat /\ Len(stk) >= 1 /\ Len(stk') \in Nat
  BY Heights
<1>2. CASE GuestAccess \/ GuestPrivileged
  <2>1. Top.code = "guest"
    BY <1>2 DEF GuestAccess, GuestPrivileged, GuestRuns, At
  <2>2. Len(stk) = 1
    BY <2>1, GuestBelow
  <2> QED
    BY <1>2, <2>2
<1>3. CASE Alarm
  <2>1. UNCHANGED <<gpr, want>>
    BY <1>3 DEF Alarm, history
  <2>2. stk \in Seq(Frames) /\ Len(stk') = Len(stk) + 1 /\ stk'[Len(stk) + 1].code = "alrm"
    BY <1>3, TopFacts, Grounded DEF Alarm, Frame
  <2>3. CASE Len(stk) = 1
    BY <2>1, <2>2, <2>3 DEF Aside, Trapped, TrapOf
  <2>4. CASE Len(stk) >= 2
    <3>1. Len(stk) >= 3 \/ (Len(stk) = 2 /\ Len(stk') > 2)
      BY <1>0, <2>2, <2>4, Counts, Zenon
    <3> QED
      BY <2>1, <3>1, AboveTrap
  <2>5. Len(stk) = 1 \/ Len(stk) >= 2
    BY <1>0, Counts, Zenon
  <2> QED
    BY <2>3, <2>4, <2>5
<1>4. CASE SegvStep \/ IllStep
  <2>1. Top.code \in Handlers /\ (Top.code = "segv" => SegvStep) /\ Top.code # "alrm"
        /\ Top.code \in {"segv", "ill"}
    BY <1>4 DEF SegvStep, SegvEntry, SegvFetch, SegvDevice, SegvOut, SegvStray, IllStep, IllEntry, IllEmulate,
        IllFixups, IllOut, Exit, At, Handlers
  <2>2. Len(stk) >= 2 /\ (GuestTrapped <=> Len(stk) = 2)
    BY <1>1, <2>1, OnGuest
  <2>3. CASE Len(stk) = 2
    BY <1>1, <1>4, <2>2, <2>3
  <2>4. CASE Len(stk) >= 3
    <3>1. Top.code = "segv"
      <4>1. Len(stk) \in DOMAIN stk
        BY <1>1, TopFacts, Grounded
      <4>2. Top.code # "ill"
        BY <1>1, <2>4, <4>1 DEF PreciseInv
      <4> QED
        BY <2>1, <4>2
    <3>2. UNCHANGED <<gpr, want>>
      <4>1. ~GuestTrapped
        BY <1>1, <2>2, <2>4
      <4> QED
        BY <2>1, <3>1, <4>1 DEF SegvStep, SegvEntry, SegvFetch, SegvDevice, SegvOut, SegvStray, Exit, history
    <3> QED
      BY <2>4, <3>2, AboveTrap
  <2>5. Len(stk) = 2 \/ Len(stk) >= 3
    BY <1>0, <2>2, Counts, Zenon
  <2> QED
    BY <2>3, <2>4, <2>5
<1>5. CASE AlrmStep
  <2>1. Top.code = "alrm" /\ Top.code \in Handlers /\ UNCHANGED <<gpr, want>>
    BY <1>5 DEF AlrmStep, AlrmDsp, AlrmCopy, AlrmDec, At, history, Handlers
  <2>2. Len(stk) >= 2
    BY <1>1, <2>1, OnGuest
  <2>3. CASE Len(stk) = 2
    <3>1. ~Trapped
      BY <1>1, <2>1, <2>3 DEF Trapped, TrapOf
    <3>2. Len(stk') <= 2
      <4>1. Return \/ \E at : Goto(at)
        BY <1>5 DEF AlrmStep, AlrmDsp, AlrmCopy, AlrmDec
      <4>2. stk \in Seq(Frames) /\ Good(stk) /\ Top = Last(stk)
        BY TopFacts, Grounded
      <4>3. \A at : Goto(at) => Len(stk') = Len(stk)
        BY <4>2 DEF Goto
      <4>4. Return => Len(stk') = Len(stk) - 1
        BY <2>1, <4>2, Interrupts DEF Return
      <4>5. Len(stk') = Len(stk) \/ Len(stk') = Len(stk) - 1
        BY <4>1, <4>3, <4>4
      <4> QED
        BY <1>0, <2>3, <4>5, Counts, Zenon
    <3>3. Len(stk') = 2 => stk'[2].code = "alrm"
      BY <1>1, <2>1, <2>3, Below
    <3>4. ~Trapped'
      BY <1>1, <3>2, <3>3 DEF Trapped, TrapOf
    <3> QED
      BY <2>1, <3>1, <3>4 DEF Aside
  <2>4. CASE Len(stk) >= 3
    BY <2>1, <2>4, AboveTrap
  <2>5. Len(stk) = 2 \/ Len(stk) >= 3
    BY <1>0, <2>2, Counts, Zenon
  <2> QED
    BY <2>3, <2>4, <2>5
<1>6. CASE BailStep
  <2>1. Top.code = "bail"
    BY <1>6 DEF BailStep, BailStart, BailPrint, Exit, At
  <2> QED
    BY <1>1, <2>1
<1>7. CASE OwnFault
  <2>1. Top.code \in Handlers /\ UNCHANGED <<gpr, want>>
    BY <1>1, <1>7 DEF OwnFault, At, Fault, Handlers
  <2>2. Len(stk) >= 2
    BY <1>1, <2>1, OnGuest
  <2>3. PICK a : Fault(a)
    BY <1>7 DEF OwnFault
  <2>4. CASE stk' = stk
    BY <2>1, <2>4 DEF Aside, Trapped, TrapOf
  <2>5. CASE stk' = Append(stk, Frame("segv", "entry", a))
    <3>1. Len(stk') = Len(stk) + 1
      BY <2>5, TopFacts, Grounded
    <3>2. Len(stk) >= 3 \/ (Len(stk) = 2 /\ Len(stk') > 2)
      BY <1>0, <2>2, <3>1, Counts, Zenon
    <3> QED
      BY <2>1, <3>2, AboveTrap
  <2> QED
    BY <2>3, <2>4, <2>5 DEF Fault
<1>8. CASE UNCHANGED vars
  BY <1>8 DEF vars, history, Aside, Trapped, TrapOf
<1> QED
  BY <1>2, <1>3, <1>4, <1>5, <1>6, <1>7, <1>8 DEF Next

-----------------------------------------------------------------------------
(* The guest's registers.  What is meant by them changes with the trap's   *)
(* own frame only, the second.                                             *)
LEMMA DoomStays ==
    ASSUME [Next]_vars, doomed
    PROVE  doomed'
BY DEF Next, GuestAccess, GuestPrivileged, Alarm, SegvStep, SegvEntry, SegvFetch, SegvDevice, SegvOut, SegvStray,
    IllStep, IllEntry, IllEmulate, IllFixups, IllOut, AlrmStep, AlrmDsp, AlrmCopy, AlrmDec, BailStep,
    BailStart, BailPrint, Exit, OwnFault, Fault, vars, history, Proceed

LEMMA IllSecond ==
    ASSUME TrapsInv, PreciseInv, [Next]_vars, Alive', NEW n \in DOMAIN stk', stk'[n].code = "ill"
    PROVE  n = 2
<1>1. n \in 1 .. Len(stk') /\ Len(stk) \in Nat /\ Len(stk') \in Nat /\ Len(stk') <= Len(stk) + 1
  BY Below
<1>2. /\ \A i \in 1 .. Len(stk) - 1 : stk'[i] = stk[i]
      /\ Top = stk[Len(stk)]
      /\ Len(stk') = Len(stk) => stk'[Len(stk)].code = Top.code
      /\ Len(stk') > Len(stk) => stk'[Len(stk)] = Top
      /\ Len(stk') > Len(stk) /\ stk'[Len(stk')].code = "ill" => GuestPrivileged
      /\ DOMAIN stk = 1 .. Len(stk)
  BY Below
<1>3. \A i \in DOMAIN stk : stk[i].code = "ill" => i = 2
  BY Heights DEF PreciseInv
<1>4. CASE n \in 1 .. Len(stk) - 1
  BY <1>1, <1>2, <1>3, <1>4
<1>5. CASE n = Len(stk)
  <2>1. stk'[n].code = Top.code
    BY <1>1, <1>2, <1>5
  <2>2. n \in 1 .. Len(stk)
    BY <1>1, <1>5
  <2> QED
    BY <1>2, <1>3, <1>5, <2>1, <2>2
<1>6. CASE n = Len(stk) + 1
  <2>1. GuestPrivileged
    BY <1>1, <1>2, <1>6
  <2>2. Top.code = "guest"
    BY <2>1 DEF GuestPrivileged, GuestRuns, At
  <2>3. Len(stk) = 1
    BY <2>2, GuestBelow
  <2> QED
    BY <1>6, <2>3
<1> QED
  BY <1>1, <1>4, <1>5, <1>6

(* A step beside the trap leaves what is said of it as it was. *)
LEMMA AsideKeeps ==
    ASSUME TrapsInv, [Next]_vars, Aside, Alive', RegsInv
    PROVE  RegsInv'
<1>1. gpr' = gpr /\ want' = want /\ (Trapped' <=> Trapped) /\ (Trapped => stk'[2] = stk[2])
  BY DEF Aside
<1>2. CASE Trapped
  <2>1. stk'[2] = stk[2] /\ (TrapOf("segv")' <=> TrapOf("segv"))
    BY <1>1, <1>2 DEF Trapped, TrapOf
  <2> QED
    BY <1>1, <2>1 DEF RegsInv, SegvInv, Late
<1>3. CASE ~Trapped
  BY <1>1, <1>3 DEF RegsInv, Trapped
<1> QED
  BY <1>2, <1>3

(* The trap's own frame after a step of its handler. *)
LEMMA SecondIs ==
    ASSUME TrapsInv, Len(stk) = 2, NEW f, stk' = [stk EXCEPT ![Len(stk)] = f]
    PROVE  Len(stk') = 2 /\ stk'[2] = f
<1>1. stk \in Seq(Frames)
  BY TopFacts, Grounded
<1> QED
  BY <1>1

LEMMA Extends ==
    ASSUME NEW S, NEW u \in Seq(S), NEW f
    PROVE  Len(Append(u, f)) = Len(u) + 1 /\ Append(u, f)[Len(u) + 1] = f
OBVIOUS

LEMMA SecondPushed ==
    ASSUME TrapsInv, Len(stk) = 1, NEW f, stk' = Append(stk, f)
    PROVE  Len(stk') = 2 /\ stk'[2] = f
<1>1. stk \in Seq(Frames)
  BY TopFacts, Grounded
<1>2. Len(stk') = Len(stk) + 1 /\ stk'[Len(stk) + 1] = f
  BY <1>1, Extends
<1> QED
  BY <1>2

LEMMA SecondGoes ==
    ASSUME TrapsInv, Len(stk) = 2, Top = stk[2], NEW at, Goto(at)
    PROVE  Len(stk') = 2 /\ stk'[2] = [Top EXCEPT !.at = at]
           /\ stk'[2].code = Top.code /\ stk'[2].acc = Top.acc /\ stk'[2].at = at
           /\ stk'[2].w = Top.w /\ stk'[2].val = Top.val
<1>1. stk' = [stk EXCEPT ![Len(stk)] = [Top EXCEPT !.at = at]]
  BY DEF Goto
<1>2. Len(stk') = 2 /\ stk'[2] = [Top EXCEPT !.at = at]
  BY <1>1, SecondIs
<1> QED
  BY <1>2, TopFacts DEF Frames

LEMMA GuestStepKeepsRegs ==
    ASSUME TrapsInv, RegsInv, Len(stk) = 1, GuestAccess \/ GuestPrivileged
    PROVE  RegsInv'
<1>1. gpr = want
  BY DEF RegsInv, TrapOf
<1>2. CASE GuestAccess
  <2>1. PICK a \in Accesses : stk' = Append(stk, Frame("segv", "entry", a))
    BY <1>2 DEF GuestAccess
  <2>2. stk'[2] = Frame("segv", "entry", a)
    BY <2>1, SecondPushed
  <2>3. stk'[2].acc \in Accesses /\ stk'[2].at = "entry" /\ want' = gpr'
    BY <1>2, <2>2 DEF Frame, GuestAccess
  <2> QED
    BY <2>3 DEF RegsInv, SegvInv, Late
<1>3. CASE GuestPrivileged
  <2>1. stk' = Append(stk, Frame("ill", "entry", Nothing))
    BY <1>3 DEF GuestPrivileged
  <2>2. stk'[2] = Frame("ill", "entry", Nothing)
    BY <2>1, SecondPushed
  <2>3. stk'[2].code = "ill"
    BY <2>2 DEF Frame
  <2> QED
    BY <1>1, <1>3, <2>3 DEF RegsInv, TrapOf, GuestPrivileged
<1> QED
  BY <1>2, <1>3

(* Before the access the registers are the guest's own. *)
LEMMA SegvEntryKeepsRegs ==
    ASSUME TrapsInv, RegsInv, Len(stk) = 2, Top = stk[2], SegvEntry, ~doomed'
    PROVE  RegsInv'
<1>1. Top.code = "segv" /\ Top.at = "entry" /\ gpr' = gpr /\ want' = want
  BY DEF SegvEntry, At
<1>2. Top.acc \in Accesses /\ gpr = want
  BY <1>1 DEF RegsInv, SegvInv, TrapOf, Late
<1>3. Top.acc.type # "other" /\ (Goto("hang") \/ Goto("fetch"))
  BY DEF SegvEntry, Proceed
<1>4. PICK at \in {"hang", "fetch"} : Goto(at)
  BY <1>3
<1>5. stk'[2].acc = Top.acc /\ stk'[2].at = at
  BY <1>4, SecondGoes
<1> QED
  BY <1>1, <1>2, <1>3, <1>5 DEF RegsInv, SegvInv, TrapOf, Late

LEMMA SegvFetchKeepsRegs ==
    ASSUME TrapsInv, RegsInv, Len(stk) = 2, Top = stk[2], SegvFetch, proc' = "alive", ~doomed'
    PROVE  RegsInv'
<1>1. Top.code = "segv" /\ Top.at = "fetch" /\ gpr' = gpr /\ want' = want
  BY DEF SegvFetch, At
<1>2. Top.acc \in Accesses /\ Top.acc.type # "other" /\ gpr = want
  BY <1>1 DEF RegsInv, SegvInv, TrapOf, Late
<1>3. Top.acc.op \in Loads \cup Stores /\ Decoded("device")
  <2>1. proc = "alive"
    BY DEF SegvFetch, At
  <2> QED
    BY <2>1 DEF SegvFetch
<1>4. PICK w \in WidthsOf(Top.acc.op), v \in Word :
            stk' = [stk EXCEPT ![Len(stk)] = [Top EXCEPT !.at = "device", !.w = w, !.val = v]]
  BY <1>1, <1>3, DecodedFrame
<1>6. stk'[2] = [Top EXCEPT !.at = "device", !.w = w, !.val = v]
  BY <1>4, SecondIs
<1>7. stk'[2].acc = Top.acc /\ stk'[2].at = "device" /\ stk'[2].w = w
  BY <1>6, TopFacts DEF Frames
<1> QED
  BY <1>1, <1>2, <1>3, <1>7 DEF RegsInv, SegvInv, TrapOf, Late

(* The access steps the registers on; what it read is still to come. *)
LEMMA Onwards ==
    ASSUME NEW r \in Regs, NEW op
    PROVE  Stepped(r, op) = [rt |-> r.rt, ra |-> IF op = "sthu" THEN 1 - r.ra ELSE r.ra, pc |-> 1 - r.pc]
           /\ Advance(r) = [r EXCEPT !.pc = 1 - @]
<1>1. r.rt \in Word /\ r.ra \in {0, 1} /\ r.pc \in {0, 1} /\ r = [rt |-> r.rt, ra |-> r.ra, pc |-> r.pc]
  BY DEF Regs
<1>2. (r.pc + 1) % 2 = 1 - r.pc /\ (r.ra + 1) % 2 = 1 - r.ra
  BY <1>1
<1>3. Advance(r) = [rt |-> r.rt, ra |-> r.ra, pc |-> 1 - r.pc]
  BY <1>1, <1>2 DEF Advance
<1>4. Rebase(r) = [rt |-> r.rt, ra |-> 1 - r.ra, pc |-> r.pc]
  BY <1>1, <1>2 DEF Rebase
<1>5. Advance(Rebase(r)) = [rt |-> r.rt, ra |-> 1 - r.ra, pc |-> 1 - r.pc]
  BY <1>2, <1>4 DEF Advance
<1>6. Advance(r) = [r EXCEPT !.pc = 1 - @]
  BY <1>1, <1>3
<1> QED
  BY <1>3, <1>5, <1>6 DEF Stepped

(* What SegvDevice does when the guest lives on. *)
LEMMA Accessed ==
    ASSUME TrapsInv, RegsInv, Len(stk) = 2, Top = stk[2], GuestTrapped, SegvDevice, proc' = "alive", ~doomed
    PROVE  /\ Top.acc \in Accesses /\ Top.acc.type # "other" /\ Top.acc.op \in Loads \cup Stores
           /\ Top.w \in WidthsOf(Top.acc.op) /\ gpr = want /\ Top.code = "segv" /\ Top.at = "device"
           /\ stk'[2].code = "segv" /\ stk'[2].at = "out" /\ stk'[2].acc = Top.acc /\ stk'[2].w = Top.w
           /\ Len(stk') = 2 /\ gpr' = Stepped(gpr, Top.acc.op)
           /\ want' = [rt |-> IF Top.acc.type = "read" THEN Extended(Top.acc.op, stk'[2].val) ELSE want.rt,
                       ra |-> IF Top.acc.op = "sthu" THEN 1 - want.ra ELSE want.ra, pc |-> 1 - want.pc]
<1>1. Top.code = "segv" /\ Top.at = "device" /\ proc = "alive"
  BY DEF SegvDevice, At
<1>2. SegvInv(Top) /\ gpr = want
  BY <1>1 DEF RegsInv, TrapOf, Late
<1>3. PICK o : /\ stk' = [stk EXCEPT ![Len(stk)] = [@ EXCEPT !.at = "out", !.val = o.val]]
               /\ gpr' = Stepped(gpr, Top.acc.op)
               /\ want' = [rt |-> IF Top.acc.type = "read" THEN Extended(Top.acc.op, o.val) ELSE want.rt,
                           ra |-> IF Top.acc.op = "sthu" THEN 1 - want.ra ELSE want.ra,
                           pc |-> 1 - want.pc]
  BY DEF SegvDevice
<1>4. stk' = [stk EXCEPT ![Len(stk)] = [Top EXCEPT !.at = "out", !.val = o.val]]
  BY <1>3
<1>5. Len(stk') = 2 /\ stk'[2] = [Top EXCEPT !.at = "out", !.val = o.val]
  BY <1>4, SecondIs
<1>6. stk'[2].code = "segv" /\ stk'[2].at = "out" /\ stk'[2].acc = Top.acc /\ stk'[2].w = Top.w
      /\ stk'[2].val = o.val
  BY <1>1, <1>5, TopFacts DEF Frames
<1> QED
  BY <1>1, <1>2, <1>3, <1>5, <1>6 DEF SegvInv

LEMMA SegvDeviceKeepsRegs ==
    ASSUME TrapsInv, RegsInv, Len(stk) = 2, Top = stk[2], GuestTrapped, SegvDevice, proc' = "alive", ~doomed
    PROVE  RegsInv'
<1>1. gpr = want /\ gpr' = Stepped(gpr, Top.acc.op) /\ gpr \in Regs
  BY Accessed DEF TrapsInv, TypeOK
<1>2. gpr' = [rt |-> want.rt, ra |-> IF Top.acc.op = "sthu" THEN 1 - want.ra ELSE want.ra, pc |-> 1 - want.pc]
  BY <1>1, Onwards
<1>3. want' = [rt |-> IF Top.acc.type = "read" THEN Extended(Top.acc.op, stk'[2].val) ELSE want.rt,
               ra |-> IF Top.acc.op = "sthu" THEN 1 - want.ra ELSE want.ra, pc |-> 1 - want.pc]
  BY Accessed
<1>4. gpr'.ra = want'.ra /\ gpr'.pc = want'.pc
  BY <1>2, <1>3
<1>5. CASE Top.acc.type = "read"
  <2>1. want'.rt = Extended(Top.acc.op, stk'[2].val)
    BY <1>3, <1>5
  <2>2. SegvInv(stk[2])'
    BY <1>4, <2>1, Accessed DEF SegvInv
  <2>3. TrapOf("segv")'
    <3>1. Len(stk') = 2 /\ stk'[2].code = "segv"
      BY Accessed
    <3> QED
      BY <3>1 DEF TrapOf
  <2>4. Late(stk[2])'
    BY <1>5, Accessed DEF Late
  <2> QED
    BY <2>2, <2>3, <2>4 DEF RegsInv
<1>6. CASE Top.acc.type # "read"
  <2>1. gpr' = want'
    BY <1>2, <1>3, <1>6
  <2>2. ~Late(stk[2])'
    BY <1>6, Accessed DEF Late
  <2>3. SegvInv(stk[2])'
    BY <2>2, Accessed DEF SegvInv
  <2> QED
    BY <2>1, <2>3, <2>2 DEF RegsInv
<1> QED
  BY <1>5, <1>6

(* At the end a value that was read is put where it belongs. *)
LEMMA LeftAlone ==
    ASSUME TrapsInv, Alive, Len(stk) = 2, Top.code \in {"segv", "ill"}, ReturnOrBailOut, Alive'
    PROVE  ~fatal /\ Len(stk') = 1
<1>1. Good(stk) /\ Top = Last(stk)
  BY TopFacts
<1>2. ~BailOut
  <2> SUFFICES ASSUME BailOut PROVE FALSE
    OBVIOUS
  <2>1. OnStack({"bail"}, stk')
    BY <1>1, BailedOut DEF BailOut, ReturnTo
  <2> QED
    BY <2>1 DEF Alive
<1>3. ~fatal /\ stk' = Front(stk)
  BY <1>2 DEF ReturnOrBailOut, Return
<1>4. Len(Front(stk)) = Len(stk) - 1
  BY <1>1, Interrupts DEF Handlers
<1> QED
  BY <1>3, <1>4

LEMMA PutBack ==
    ASSUME NEW q \in Regs, NEW f \in Frames, f.acc.op \in Loads, f.w \in WidthsOf(f.acc.op)
    PROVE  /\ WriteBack(q, f) \in Regs /\ WriteBack(q, f).ra = q.ra /\ WriteBack(q, f).pc = q.pc
           /\ f.acc.op # "lwz" => WriteBack(q, f).rt = Extended(f.acc.op, f.val)
<1>1. WriteBack(q, f) \in Regs
  BY WriteBackFits
<1>2. \A v : [q EXCEPT !.rt = v].ra = q.ra /\ [q EXCEPT !.rt = v].pc = q.pc /\ [q EXCEPT !.rt = v].rt = v
  BY DEF Regs
<1>3. CASE f.acc.op = "lwz"
  <2>1. WriteBack(q, f) = q \/ \E v : WriteBack(q, f) = [q EXCEPT !.rt = v]
    <3>1. WriteBack(q, f) \in {q, [q EXCEPT !.rt = f.val], [q EXCEPT !.rt = f.val % W], [q EXCEPT !.rt = f.val % B]}
      BY <1>3 DEF WriteBack
    <3> QED
      BY <3>1
  <2> QED
    BY <1>1, <1>2, <1>3, <2>1
<1>4. CASE f.acc.op = "lhz"
  <2>1. f.w = 2
    BY <1>4 DEF WidthsOf
  <2>2. WriteBack(q, f) = [q EXCEPT !.rt = f.val % W]
    BY <1>4, <2>1 DEF WriteBack
  <2>3. Extended(f.acc.op, f.val) = f.val % W
    BY <1>4 DEF Extended
  <2> QED
    BY <1>1, <1>2, <2>2, <2>3
<1>5. CASE f.acc.op = "lha"
  <2> DEFINE low == f.val % W
  <2>1. low \in Nat /\ W \div 2 \in Nat
    BY Sizes, LowFits DEF Frames, Word, Half
  <2>2. low < W \div 2 <=> ~(low >= W \div 2)
    BY <2>1
  <2>3. WriteBack(q, f) = [q EXCEPT !.rt = IF low >= W \div 2 THEN (W - 1) * W + low ELSE low]
    BY <1>5 DEF WriteBack
  <2>4. Extended(f.acc.op, f.val) = IF low >= W \div 2 THEN (W - 1) * W + low ELSE low
    BY <1>5, <2>2 DEF Extended
  <2> HIDE DEF low
  <2> QED
    BY <1>1, <1>2, <2>3, <2>4
<1> QED
  BY <1>3, <1>4, <1>5 DEF Loads

(* The kind of an access is that of its instruction. *)
LEMMA Kinds ==
    ASSUME RegsInv, TrapOf("segv"), stk[2].at \in {"device", "out"}
    PROVE  \/ stk[2].acc.op \in Loads /\ stk[2].acc.op \notin Stores /\ stk[2].acc.type = "read"
           \/ stk[2].acc.op \in Stores /\ stk[2].acc.op \notin Loads /\ stk[2].acc.type = "write"
<1>1. stk[2].acc \in Accesses /\ stk[2].acc.type # "other" /\ stk[2].acc.op \in Loads \cup Stores
  BY DEF RegsInv, SegvInv
<1> QED
  BY <1>1, AccessAssumption DEF Loads, Stores

LEMMA SegvOutKeepsRegs ==
    ASSUME TrapsInv, RegsInv, Alive, Len(stk) = 2, Top = stk[2], GuestTrapped, SegvOut, Alive'
    PROVE  RegsInv'
<1>1. Top.code = "segv" /\ Top.at = "out" /\ ReturnOrBailOut /\ Top \in Frames /\ gpr \in Regs /\ want \in Regs
  BY TopFacts DEF SegvOut, At, TrapsInv, TypeOK
<1>2. Len(stk') = 1
  BY <1>1, LeftAlone
<1>3. TrapOf("segv") /\ SegvInv(Top)
  BY <1>1 DEF RegsInv, TrapOf
<1>4. gpr' = want'
  <2>1. CASE Top.acc.op \in Loads /\ Top.acc.op \notin Stores /\ Top.acc.type = "read"
    <3>1. gpr.ra = want.ra /\ gpr.pc = want.pc /\ want.rt = Extended(Top.acc.op, Top.val)
          /\ Top.w \in WidthsOf(Top.acc.op)
      BY <1>1, <1>3, <2>1 DEF SegvInv, Late
    <3>2. gpr' = WriteBack(gpr, Top)
      BY <2>1 DEF SegvOut, Undecoded
    <3>3. /\ gpr' \in Regs /\ gpr'.ra = want.ra /\ gpr'.pc = want.pc
          /\ Top.acc.op # "lwz" => gpr'.rt = want.rt
      BY <1>1, <2>1, <3>1, <3>2, PutBack
    <3>4. want' = IF Top.acc.op = "lwz" THEN [want EXCEPT !.rt = gpr'.rt] ELSE want
      BY DEF SegvOut
    <3>5. want'.rt = gpr'.rt /\ want'.ra = gpr'.ra /\ want'.pc = gpr'.pc /\ want' \in Regs
      BY <1>1, <3>3, <3>4 DEF Regs
    <3> QED
      BY <3>3, <3>5 DEF Regs
  <2>2. CASE Top.acc.op \in Stores /\ Top.acc.op \notin Loads /\ Top.acc.type = "write"
    <3>1. gpr = want
      BY <2>2 DEF RegsInv, Late
    <3>2. gpr' = gpr /\ Top.acc.op # "lwz"
      BY <2>2 DEF SegvOut, Loads
    <3> QED
      BY <3>1, <3>2 DEF SegvOut
  <2> QED
    BY <1>1, <1>3, <2>1, <2>2, Kinds
<1> QED
  BY <1>2, <1>4 DEF RegsInv, TrapOf

LEMMA IllKeepsRegs ==
    ASSUME TrapsInv, RegsInv, Alive, Len(stk) = 2, Top = stk[2], Alive', ~doomed',
           IllEntry \/ IllEmulate \/ IllFixups \/ IllOut
    PROVE  RegsInv'
<1>1. Top.code = "ill"
  BY DEF IllEntry, IllEmulate, IllFixups, IllOut, At
<1>2. gpr = want /\ gpr \in Regs
  BY <1>1 DEF RegsInv, TrapOf, TrapsInv, TypeOK
<1>3. gpr' = want'
  <2>1. CASE IllEmulate
    <3>1. gpr' = Advance(gpr) /\ want' = [want EXCEPT !.pc = 1 - @]
      BY <2>1 DEF IllEmulate
    <3> QED
      BY <1>2, <3>1, Onwards
  <2>2. CASE IllEntry \/ IllFixups \/ IllOut
    BY <1>2, <2>2 DEF IllEntry, IllFixups, IllOut, history
  <2> QED
    BY <2>1, <2>2
<1>4. CASE IllOut
  <2>1. Len(stk') = 1
    BY <1>1, <1>4, LeftAlone DEF IllOut
  <2> QED
    BY <1>3, <2>1 DEF RegsInv, TrapOf
<1>5. CASE IllEntry \/ IllEmulate \/ IllFixups
  <2>1. PICK at : Goto(at)
    BY <1>5 DEF IllEntry, IllEmulate, IllFixups, Proceed
  <2>2. stk'[2].code = "ill"
    BY <1>1, <2>1, SecondGoes
  <2> QED
    BY <1>3, <2>2 DEF RegsInv, TrapOf
<1> QED
  BY <1>4, <1>5

LEMMA NextKeepsPrecise == TrapsInv /\ PreciseInv /\ [Next]_vars => PreciseInv'
<1> SUFFICES ASSUME TrapsInv, PreciseInv, [Next]_vars, Alive' PROVE PreciseInv'
  BY DEF PreciseInv
<1>1. \A n \in DOMAIN stk' : stk'[n].code = "ill" => n = 2
  BY IllSecond
<1>2. ASSUME ~doomed' PROVE RegsInv'
  <2>1. Alive /\ ~doomed /\ RegsInv /\ proc' = "alive"
    BY <1>2, Heights, DoomStays DEF PreciseInv, Alive
  <2>2. CASE Len(stk) = 1 /\ (GuestAccess \/ GuestPrivileged)
    BY <2>1, <2>2, GuestStepKeepsRegs
  <2>3. CASE Len(stk) = 2 /\ Top = stk[2] /\ GuestTrapped /\ SegvStep
    <3>1. ~Exit("segv") /\ ~SegvStray
      BY <2>1 DEF Exit, SegvStray
    <3>2. CASE SegvEntry
      BY <1>2, <2>1, <2>3, <3>2, SegvEntryKeepsRegs
    <3>3. CASE SegvFetch
      BY <1>2, <2>1, <2>3, <3>3, SegvFetchKeepsRegs
    <3>4. CASE SegvDevice
      BY <1>2, <2>1, <2>3, <3>4, SegvDeviceKeepsRegs
    <3>5. CASE SegvOut
      BY <1>2, <2>1, <2>3, <3>5, SegvOutKeepsRegs
    <3> QED
      BY <2>3, <3>1, <3>2, <3>3, <3>4, <3>5 DEF SegvStep
  <2>4. CASE Len(stk) = 2 /\ Top = stk[2] /\ IllStep
    <3>1. ~Exit("ill")
      BY <2>1 DEF Exit
    <3> QED
      BY <1>2, <2>1, <2>4, <3>1, IllKeepsRegs DEF IllStep
  <2>5. CASE Aside
    BY <2>1, <2>5, AsideKeeps
  <2> QED
    BY <2>2, <2>3, <2>4, <2>5, Whose
<1> QED
  BY <1>1, <1>2 DEF PreciseInv

LEMMA InitPrecise == Init => PreciseInv
<1> SUFFICES ASSUME Init PROVE PreciseInv
  OBVIOUS
<1>1. Len(stk) = 1 /\ DOMAIN stk = {1} /\ stk[1].code = "guest" /\ gpr = want
  BY DEF Init, Guest, Frame
<1> QED
  BY <1>1 DEF PreciseInv, RegsInv, TrapOf

-----------------------------------------------------------------------------
(* When the guest goes on, what it trapped for has been done to its        *)
(* registers and no more, for every access and every width and value, with *)
(* the timer and the emulator's own faults in between (emu.c:240, :281).   *)
THEOREM PreciseHolds == Spec => []Precise
<1>1. TrapsInv /\ PreciseInv => Precise
  <2> SUFFICES ASSUME TrapsInv, PreciseInv, GuestRuns PROVE gpr = want
    BY DEF Precise
  <2>1. proc = "alive" /\ Top.code = "guest" /\ Len(stk) = 1
    BY GuestBelow DEF GuestRuns, At
  <2>2. Alive /\ ~doomed
    BY <2>1, TopFacts, GuestAlone, DoomedNotGuest DEF Alive, FatalIsFinal
  <2> QED
    BY <2>1, <2>2 DEF PreciseInv, RegsInv, TrapOf
<1> QED
  BY <1>1, Invariant, InitPrecise, NextKeepsPrecise, PTL DEF Spec

-----------------------------------------------------------------------------
(* The refinement.  What an instruction may leave, by the registers.       *)
LEMMA Effects ==
    ASSUME NEW q \in Regs, NEW p \in Regs, p.pc = 1 - q.pc
    PROVE  /\ p.ra = q.ra => p \in G!Result("lwz", q)
           /\ p.ra = q.ra /\ p.rt \in Half => p \in G!Result("lhz", q)
           /\ p.ra = q.ra => \A h \in Half : p.rt = G!Signed(h) => p \in G!Result("lha", q)
           /\ p.ra = q.ra /\ p.rt = q.rt => \A op \in {"stw", "sth", "privileged"} : p \in G!Result(op, q)
           /\ p.ra = 1 - q.ra /\ p.rt = q.rt => p \in G!Result("sthu", q)
<1>1. p = [rt |-> p.rt, ra |-> p.ra, pc |-> p.pc] /\ p.rt \in Word
      /\ q = [rt |-> q.rt, ra |-> q.ra, pc |-> q.pc]
  BY DEF Regs
<1>0. \A u, m, n : G!Onward([rt |-> u, ra |-> m, pc |-> n]) = [rt |-> u, ra |-> m, pc |-> 1 - n]
  BY DEF G!Onward
<1>2. ASSUME NEW v PROVE G!Onward([q EXCEPT !.rt = v]) = [rt |-> v, ra |-> q.ra, pc |-> 1 - q.pc]
  <2>1. [q EXCEPT !.rt = v] = [rt |-> v, ra |-> q.ra, pc |-> q.pc]
    BY <1>1
  <2> QED
    BY <1>0, <2>1
<1>3. G!Onward(q) = [rt |-> q.rt, ra |-> q.ra, pc |-> 1 - q.pc]
  BY <1>0, <1>1
<1>4. G!Onward([q EXCEPT !.ra = 1 - @]) = [rt |-> q.rt, ra |-> 1 - q.ra, pc |-> 1 - q.pc]
  <2>1. [q EXCEPT !.ra = 1 - @] = [rt |-> q.rt, ra |-> 1 - q.ra, pc |-> q.pc]
    BY <1>1
  <2> QED
    BY <1>0, <2>1
<1>5. G!Word = Word /\ G!Half = Half
  BY DEF G!Word, G!Half, Word, Half
<1>6. ASSUME p.ra = q.ra PROVE p \in G!Result("lwz", q)
  <2>1. p = G!Onward([q EXCEPT !.rt = p.rt])
    BY <1>1, <1>2, <1>6
  <2> QED
    BY <1>1, <1>5, <2>1 DEF G!Result
<1>7. ASSUME p.ra = q.ra, p.rt \in Half PROVE p \in G!Result("lhz", q)
  <2>1. p = G!Onward([q EXCEPT !.rt = p.rt])
    BY <1>1, <1>2, <1>7
  <2> QED
    BY <1>5, <1>7, <2>1 DEF G!Result
<1>8. ASSUME p.ra = q.ra, NEW h \in Half, p.rt = G!Signed(h) PROVE p \in G!Result("lha", q)
  <2>1. p = G!Onward([q EXCEPT !.rt = G!Signed(h)])
    BY <1>1, <1>2, <1>8
  <2> QED
    BY <1>5, <1>8, <2>1 DEF G!Result
<1>9. ASSUME p.ra = q.ra, p.rt = q.rt, NEW op \in {"stw", "sth", "privileged"} PROVE p \in G!Result(op, q)
  <2>1. p = G!Onward(q)
    BY <1>1, <1>3, <1>9
  <2> QED
    BY <1>9, <2>1 DEF G!Result
<1>10. ASSUME p.ra = 1 - q.ra, p.rt = q.rt PROVE p \in G!Result("sthu", q)
  <2>1. p = G!Onward([q EXCEPT !.ra = 1 - @])
    BY <1>1, <1>4, <1>10
  <2> QED
    BY <2>1 DEF G!Result
<1> QED
  BY <1>6, <1>7, <1>8, <1>9, <1>10

LEMMA Stops ==
    ASSUME Status' = "stopped"
    PROVE  [G!Next]_G!vars
<1>1. Insn' = "none" /\ Shown' = Zeroed /\ G!Zeroed = Zeroed
  BY DEF Insn, Shown, G!Zeroed, Zeroed
<1>2. CASE Status = "stopped"
  <2>1. Insn = "none" /\ Shown = Zeroed
    BY <1>2 DEF Insn, Shown
  <2> QED
    BY <1>1, <1>2, <2>1 DEF G!vars
<1>3. CASE Status # "stopped"
  BY <1>1, <1>3 DEF G!Next, G!Stop
<1> QED
  BY <1>2, <1>3

(* The cases a step of the guest or of its handler is in. *)
LEMMA StatusIs ==
    /\ Status = "runs" <=> Alive /\ ~Trapped
    /\ Status = "traps" <=> Alive /\ Trapped /\ ~doomed
    /\ Status = "stopped" <=> ~Alive \/ (Trapped /\ doomed)
BY DEF Status

LEMMA AsideStutters ==
    ASSUME TrapsInv, [Next]_vars, Aside, Alive', Status' # "stopped"
    PROVE  UNCHANGED G!vars
<1>1. gpr' = gpr /\ (Trapped' <=> Trapped) /\ (Trapped => stk'[2] = stk[2]) /\ Alive
  BY Heights DEF Aside
<1>2. CASE ~Trapped
  <2>1. Status = "runs" /\ Status' = "runs"
    BY <1>1, <1>2 DEF Status
  <2> QED
    BY <1>1, <2>1 DEF G!vars, Insn, Shown
<1>3. CASE Trapped
  <2>1. ~doomed' /\ ~doomed
    BY <1>1, <1>3, DoomStays DEF Status
  <2>2. Status = "traps" /\ Status' = "traps"
    BY <1>1, <1>3, <2>1 DEF Status
  <2>3. Insn' = Insn
    BY <1>1, <1>3, <2>2 DEF Insn
  <2>4. Undone' = Undone
    BY <1>1, <1>3 DEF Undone, Rebases
  <2> QED
    BY <2>2, <2>3, <2>4 DEF G!vars, Shown
<1> QED
  BY <1>2, <1>3

LEMMA GuestTraps ==
    ASSUME TrapsInv, Len(stk) = 1, Alive, GuestAccess \/ GuestPrivileged, Status' # "stopped"
    PROVE  G!Trap
<1>1. Status = "runs" /\ Shown = gpr /\ gpr \in Regs
  BY DEF Status, Trapped, TrapOf, Shown, TrapsInv, TypeOK
<1>2. PICK v \in Word : gpr' = [gpr EXCEPT !.rt = v]
  <2>1. CASE GuestAccess
    BY <2>1, TrapsAssumption DEF GuestAccess
  <2>2. CASE GuestPrivileged
    <3>1. gpr' = gpr /\ gpr.rt \in Word /\ gpr = [gpr EXCEPT !.rt = gpr.rt]
      BY <1>1, <2>2 DEF GuestPrivileged, Regs
    <3> QED
      BY <3>1
  <2> QED
    BY <2>1, <2>2
<1>3. Len(stk') = 2 /\ stk'[2].code \in {"segv", "ill"} /\ stk'[2].at = "entry"
  <2>1. CASE GuestAccess
    <3>1. PICK a \in Accesses : stk' = Append(stk, Frame("segv", "entry", a))
      BY <2>1 DEF GuestAccess
    <3>2. Len(stk') = 2 /\ stk'[2] = Frame("segv", "entry", a)
      BY <3>1, SecondPushed
    <3> QED
      BY <3>2 DEF Frame
  <2>2. CASE GuestPrivileged
    <3>1. stk' = Append(stk, Frame("ill", "entry", Nothing))
      BY <2>2 DEF GuestPrivileged
    <3>2. Len(stk') = 2 /\ stk'[2] = Frame("ill", "entry", Nothing)
      BY <3>1, SecondPushed
    <3> QED
      BY <3>2 DEF Frame
  <2> QED
    BY <2>1, <2>2
<1>4. Trapped'
  BY <1>3 DEF Trapped, TrapOf
<1>5. Status' = "traps"
  BY <1>4 DEF Status
<1>6. Shown' = gpr'
  BY <1>3, <1>5 DEF Shown, Undone
<1>7. Insn' \in Loads \cup Stores \cup {"privileged", "other"}
  BY <1>5 DEF Insn
<1> QED
  BY <1>1, <1>2, <1>5, <1>6, <1>7 DEF G!Trap, G!Loads, G!Stores, G!Word, Loads, Stores, Word

(* Until it ends the handler shows nothing: what it does is undone. *)
LEMMA StillThere ==
    ASSUME TrapsInv, Alive', Len(stk') = 2, stk'[2].code \in {"segv", "ill"}, Status' # "stopped",
           Status = "traps", Len(stk) = 2,
           stk'[2].code = stk[2].code, stk'[2].acc = stk[2].acc, Undone' = Undone
    PROVE  UNCHANGED G!vars
<1>1. Trapped'
  BY DEF Trapped, TrapOf
<1>2. Status' = "traps"
  BY <1>1 DEF Status
<1>3. Insn' = Insn /\ Shown' = Shown
  BY <1>2 DEF Insn, Shown
<1> QED
  BY <1>2, <1>3 DEF G!vars

LEMMA SegvStutters ==
    ASSUME TrapsInv, RegsInv, Len(stk) = 2, Top = stk[2], GuestTrapped, Status = "traps",
           SegvEntry \/ SegvFetch \/ SegvDevice, Alive', Status' # "stopped"
    PROVE  UNCHANGED G!vars
<1>1. Top.code = "segv" /\ Top.at \in {"entry", "fetch", "device"} /\ gpr \in Regs
  BY DEF SegvEntry, SegvFetch, SegvDevice, At, TrapsInv, TypeOK
<1>2. /\ Len(stk') = 2 /\ stk'[2].code = "segv" /\ stk'[2].acc = stk[2].acc
      /\ \/ stk'[2].at # "out" /\ stk'[2].at # "fixups" /\ gpr' = gpr
         \/ stk'[2].at = "out" /\ gpr' = Stepped(gpr, stk[2].acc.op)
         \/ doomed'
  <2>1. ASSUME NEW at, Goto(at)
        PROVE  Len(stk') = 2 /\ stk'[2].code = "segv" /\ stk'[2].acc = stk[2].acc /\ stk'[2].at = at
    BY <1>1, <2>1, SecondGoes
  <2>2. CASE SegvEntry
    <3>1. gpr' = gpr /\ (Goto("hang") \/ Goto("fetch") \/ (doomed' /\ (Goto("out") \/ Goto("exit"))))
      BY <2>2 DEF SegvEntry, Proceed
    <3> QED
      BY <2>1, <3>1
  <2>3. CASE SegvFetch
    <3>1. gpr' = gpr /\ proc' = "alive" /\ proc = "alive"
      BY <2>3 DEF SegvFetch, At, Alive
    <3>2. CASE doomed' /\ Goto("out")
      BY <2>1, <3>2
    <3>3. ASSUME NEW at \in {"device", "out"}, Decoded(at)
          PROVE  Len(stk') = 2 /\ stk'[2].code = "segv" /\ stk'[2].acc = stk[2].acc /\ stk'[2].at = at
      <4>1. PICK w \in WidthsOf(Top.acc.op), v \in Word :
                stk' = [stk EXCEPT ![Len(stk)] = [Top EXCEPT !.at = at, !.w = w, !.val = v]]
        BY <1>1, <3>3, DecodedFrame
      <4>2. Len(stk') = 2 /\ stk'[2] = [Top EXCEPT !.at = at, !.w = w, !.val = v]
        BY <4>1, SecondIs
      <4> QED
        BY <1>1, <4>2, TopFacts DEF Frames
    <3>4. CASE doomed' /\ Decoded("out")
      BY <3>3, <3>4
    <3>5. CASE Decoded("device")
      BY <3>1, <3>3, <3>5
    <3> QED
      BY <2>3, <3>1, <3>2, <3>4, <3>5 DEF SegvFetch
  <2>4. CASE SegvDevice
    <3>1. proc' = "alive" /\ ~doomed
      BY StatusIs DEF Alive
    <3> QED
      BY <2>4, <3>1, Accessed
  <2> QED
    BY <2>2, <2>3, <2>4
<1>3. ~doomed'
  BY <1>2 DEF Status, Trapped, TrapOf
<1>4. Undone = gpr
  BY <1>1 DEF Undone
<1>5. Undone' = gpr
  <2>1. CASE stk'[2].at # "out" /\ stk'[2].at # "fixups" /\ gpr' = gpr
    BY <2>1 DEF Undone
  <2>2. CASE stk'[2].at = "out" /\ gpr' = Stepped(gpr, stk[2].acc.op)
    <3> DEFINE op == stk[2].acc.op
    <3>1. gpr' = [rt |-> gpr.rt, ra |-> IF op = "sthu" THEN 1 - gpr.ra ELSE gpr.ra, pc |-> 1 - gpr.pc]
      BY <1>1, <2>2, Onwards
    <3>2. Undone' = [gpr' EXCEPT !.pc = 1 - @, !.ra = IF op = "sthu" THEN 1 - @ ELSE @]
      BY <1>2, <2>2 DEF Undone, Rebases
    <3>3. gpr.pc \in {0, 1} /\ gpr.ra \in {0, 1} /\ gpr = [rt |-> gpr.rt, ra |-> gpr.ra, pc |-> gpr.pc]
      BY <1>1 DEF Regs
    <3> HIDE DEF op
    <3>4. 1 - (1 - gpr.pc) = gpr.pc /\ 1 - (1 - gpr.ra) = gpr.ra
      BY <3>3
    <3>5. Undone' = [rt |-> gpr.rt, ra |-> gpr.ra, pc |-> gpr.pc]
      BY <3>1, <3>2, <3>4
    <3> QED
      BY <3>3, <3>5
  <2> QED
    BY <1>2, <1>3, <2>1, <2>2
<1> QED
  BY <1>1, <1>2, <1>4, <1>5, StillThere

(* At its end it shows all of it at once. *)
LEMMA SegvResumes ==
    ASSUME TrapsInv, RegsInv, Len(stk) = 2, Top = stk[2], GuestTrapped, Status = "traps",
           SegvOut, Alive'
    PROVE  G!Resume
<1>1. /\ Top.code = "segv" /\ Top.at = "out" /\ ReturnOrBailOut /\ Top \in Frames
      /\ gpr \in Regs /\ Alive /\ TrapOf("segv") /\ SegvInv(Top)
  BY TopFacts, StatusIs DEF SegvOut, At, TrapsInv, TypeOK, TrapOf, RegsInv
<1>2. Len(stk') = 1
  BY <1>1, LeftAlone
<1>3. Status' = "runs" /\ Insn' = "none" /\ Shown' = gpr'
  <2>1. ~Trapped'
    BY <1>2 DEF Trapped, TrapOf
  <2>2. Status' = "runs"
    BY <2>1 DEF Status
  <2> QED
    BY <2>2 DEF Insn, Shown
<1> DEFINE op == Top.acc.op
           q == [rt |-> gpr.rt, ra |-> IF op = "sthu" THEN 1 - gpr.ra ELSE gpr.ra, pc |-> 1 - gpr.pc]
<1>4. Insn = op
  BY <1>1 DEF Insn, SegvInv
<1>5. gpr.rt \in Word /\ gpr.ra \in {0, 1} /\ gpr.pc \in {0, 1}
      /\ gpr = [rt |-> gpr.rt, ra |-> gpr.ra, pc |-> gpr.pc]
  BY <1>1 DEF Regs
<1>6. Shown = q
  <2>1. Shown = [gpr EXCEPT !.pc = 1 - @, !.ra = IF op = "sthu" THEN 1 - @ ELSE @]
    BY <1>1 DEF Shown, Undone, Rebases
  <2> QED
    BY <1>5, <2>1
<1>7. q \in Regs
  <2>1. 1 - gpr.pc \in 0 .. 1 /\ 1 - gpr.ra \in 0 .. 1 /\ gpr.ra \in 0 .. 1
    BY <1>5
  <2> QED
    BY <1>5, <2>1 DEF Regs
<1>8. q.rt = gpr.rt /\ q.pc = 1 - gpr.pc /\ q.ra = IF op = "sthu" THEN 1 - gpr.ra ELSE gpr.ra
  OBVIOUS
<1>9. gpr' \in G!Result(op, q)
  <2> HIDE DEF q
  <2>1. CASE op \in Loads /\ op \notin Stores /\ Top.acc.type = "read"
    <3>1. gpr' = WriteBack(gpr, Top) /\ Top.w \in WidthsOf(op) /\ op # "sthu"
      BY <1>1, <2>1 DEF SegvOut, SegvInv, Stores, Undecoded
    <3>2. /\ gpr' \in Regs /\ gpr'.ra = gpr.ra /\ gpr'.pc = gpr.pc
          /\ op # "lwz" => gpr'.rt = Extended(op, Top.val)
      BY <1>1, <2>1, <3>1, PutBack
    <3>3. gpr'.pc = 1 - q.pc /\ gpr'.ra = q.ra
      BY <1>5, <1>8, <3>1, <3>2
    <3>4. Top.val \in Nat /\ Top.val % W \in Half
      BY <1>1, Sizes, LowFits DEF Frames, Word
    <3>5. CASE op = "lwz"
      BY <1>7, <3>2, <3>3, <3>5, Effects
    <3>6. CASE op = "lhz"
      <4>1. gpr'.rt \in Half
        BY <3>2, <3>4, <3>6 DEF Extended
      <4> QED
        BY <1>7, <3>2, <3>3, <3>6, <4>1, Effects
    <3>7. CASE op = "lha"
      <4> DEFINE h == Top.val % W
      <4>1. h \in Nat /\ W \div 2 \in Nat
        BY <3>4, Sizes DEF Half
      <4>2. h < W \div 2 <=> ~(h >= W \div 2)
        BY <4>1
      <4>3. Extended(op, Top.val) = IF h >= W \div 2 THEN (W - 1) * W + h ELSE h
        BY <3>7, <4>2 DEF Extended
      <4>4. gpr'.rt = G!Signed(h)
        BY <3>2, <3>7, <4>3 DEF G!Signed
      <4> HIDE DEF h
      <4>5. h \in Half
        BY <3>4 DEF h
      <4> QED
        BY <1>7, <3>2, <3>3, <3>7, <4>4, <4>5, Effects
    <3> QED
      BY <2>1, <3>5, <3>6, <3>7 DEF Loads
  <2>2. CASE op \in Stores /\ op \notin Loads /\ Top.acc.type = "write"
    <3>1. gpr' = gpr
      BY <2>2 DEF SegvOut
    <3>2. gpr' \in Regs /\ gpr'.rt = q.rt /\ gpr'.pc = 1 - q.pc
      BY <1>1, <1>5, <1>8, <3>1
    <3>3. CASE op = "sthu"
      <4>1. gpr'.ra = 1 - q.ra
        BY <1>5, <1>8, <3>1, <3>3
      <4> QED
        BY <1>7, <3>2, <3>3, <4>1, Effects
    <3>4. CASE op \in {"stw", "sth"}
      <4>1. gpr'.ra = q.ra
        BY <1>5, <1>8, <3>1, <3>4
      <4>2. op \in {"stw", "sth", "privileged"}
        BY <3>4
      <4> HIDE DEF op
      <4> QED
        BY <1>7, <3>2, <4>1, <4>2, Effects
    <3> QED
      BY <2>2, <3>3, <3>4 DEF Stores
  <2> QED
    BY <1>1, <2>1, <2>2, Kinds
<1> QED
  BY <1>3, <1>4, <1>6, <1>9 DEF G!Resume

LEMMA IllSteps ==
    ASSUME TrapsInv, Len(stk) = 2, Top = stk[2], Status = "traps",
           IllEntry \/ IllEmulate \/ IllFixups \/ IllOut, Alive', Status' # "stopped"
    PROVE  G!Resume \/ UNCHANGED G!vars
<1>1. Top.code = "ill" /\ gpr \in Regs /\ Alive
  BY StatusIs DEF IllEntry, IllEmulate, IllFixups, IllOut, At, TrapsInv, TypeOK
<1>2. Insn = "privileged" /\ Shown = Undone
  BY <1>1 DEF Insn, Shown
<1>3. gpr.rt \in Word /\ gpr.ra \in {0, 1} /\ gpr.pc \in {0, 1}
      /\ gpr = [rt |-> gpr.rt, ra |-> gpr.ra, pc |-> gpr.pc]
  BY <1>1 DEF Regs
<1>4. Undone = IF Top.at \in {"fixups", "out"} THEN [rt |-> gpr.rt, ra |-> gpr.ra, pc |-> 1 - gpr.pc] ELSE gpr
  <2>1. Undone = IF Top.at \in {"fixups", "out"} THEN [gpr EXCEPT !.pc = 1 - @, !.ra = @] ELSE gpr
    BY <1>1 DEF Undone, Rebases
  <2>2. [gpr EXCEPT !.pc = 1 - @, !.ra = @] = [rt |-> gpr.rt, ra |-> gpr.ra, pc |-> 1 - gpr.pc]
    <3>1. [gpr EXCEPT !.pc = 1 - @] = [rt |-> gpr.rt, ra |-> gpr.ra, pc |-> 1 - gpr.pc]
      BY <1>3
    <3> DEFINE u == [rt |-> gpr.rt, ra |-> gpr.ra, pc |-> 1 - gpr.pc]
    <3>2. [u EXCEPT !.ra = @] = u
      OBVIOUS
    <3> QED
      BY <3>1, <3>2
  <2> QED
    BY <2>1, <2>2
<1>5. CASE IllEntry \/ IllEmulate \/ IllFixups
  <2>1. ASSUME NEW at, Goto(at)
        PROVE  Len(stk') = 2 /\ stk'[2].code = "ill" /\ stk'[2].acc = stk[2].acc /\ stk'[2].at = at
    BY <1>1, <2>1, SecondGoes
  <2>2. PICK at : Goto(at)
    BY <1>5 DEF IllEntry, IllEmulate, IllFixups, Proceed
  <2>3. Len(stk') = 2 /\ stk'[2].code = "ill" /\ stk'[2].acc = stk[2].acc
    BY <2>1, <2>2
  <2>4. ~doomed'
    BY <2>3 DEF Status, Trapped, TrapOf
  <2>5. Undone' = IF stk'[2].at \in {"fixups", "out"} THEN [gpr' EXCEPT !.pc = 1 - @, !.ra = @] ELSE gpr'
    BY <2>3 DEF Undone, Rebases
  <2>6. CASE IllEntry
    <3>1. gpr' = gpr /\ Top.at = "entry" /\ (Goto("hang") \/ Goto("emulate"))
      BY <2>4, <2>6 DEF IllEntry, Proceed, At
    <3>2. stk'[2].at \in {"hang", "emulate"}
      BY <2>1, <3>1
    <3>3. Undone' = Undone
      BY <1>4, <2>5, <3>1, <3>2
    <3> QED
      BY <1>1, <2>3, <3>3, StillThere
  <2>7. CASE IllEmulate
    <3>1. gpr' = Advance(gpr) /\ Top.at = "emulate" /\ (Goto("fixups") \/ Goto("out"))
      BY <2>4, <2>7 DEF IllEmulate, At
    <3>2. stk'[2].at \in {"fixups", "out"}
      BY <2>1, <3>1
    <3>3. gpr' = [rt |-> gpr.rt, ra |-> gpr.ra, pc |-> 1 - gpr.pc]
      BY <1>1, <1>3, <3>1, Onwards
    <3>4. Undone' = [gpr' EXCEPT !.pc = 1 - @, !.ra = @] /\ 1 - (1 - gpr.pc) = gpr.pc
      BY <1>3, <2>5, <3>2
    <3>5. Undone' = [rt |-> gpr.rt, ra |-> gpr.ra, pc |-> gpr.pc]
      BY <3>3, <3>4
    <3>6. Undone = gpr
      BY <1>4, <3>1
    <3> QED
      BY <1>1, <1>3, <2>3, <3>5, <3>6, StillThere
  <2>8. CASE IllFixups
    <3>1. gpr' = gpr /\ Top.at = "fixups" /\ Goto("out")
      BY <2>8 DEF IllFixups, At
    <3>2. stk'[2].at = "out"
      BY <2>1, <3>1
    <3>3. Undone' = [gpr' EXCEPT !.pc = 1 - @, !.ra = @]
      BY <2>5, <3>2
    <3>4. Undone' = [rt |-> gpr.rt, ra |-> gpr.ra, pc |-> 1 - gpr.pc]
      BY <1>3, <3>1, <3>3
    <3>5. Undone' = Undone
      BY <1>4, <3>1, <3>4
    <3> QED
      BY <1>1, <2>3, <3>5, StillThere
  <2> QED
    BY <1>5, <2>6, <2>7, <2>8
<1>6. CASE IllOut
  <2>1. gpr' = gpr /\ Top.at = "out" /\ ReturnOrBailOut
    BY <1>6 DEF IllOut, At
  <2>2. Len(stk') = 1
    BY <1>1, <2>1, LeftAlone
  <2>3. Status' = "runs"
    BY <2>2 DEF Status, Trapped, TrapOf
  <2>4. Insn' = "none" /\ Shown' = gpr
    BY <2>1, <2>3 DEF Insn, Shown
  <2> DEFINE q == [rt |-> gpr.rt, ra |-> gpr.ra, pc |-> 1 - gpr.pc]
  <2>5. Shown = q /\ q.rt = gpr.rt /\ q.ra = gpr.ra /\ gpr.pc = 1 - q.pc
    BY <1>2, <1>3, <1>4, <2>1
  <2>6. q \in Regs
    <3>1. 1 - gpr.pc \in 0 .. 1 /\ gpr.ra \in 0 .. 1
      BY <1>3
    <3> QED
      BY <1>3, <3>1 DEF Regs
  <2> HIDE DEF q
  <2>7. gpr \in G!Result("privileged", q)
    BY <1>1, <2>5, <2>6, Effects
  <2> QED
    BY <1>2, <2>3, <2>4, <2>5, <2>7 DEF G!Resume
<1> QED
  BY <1>5, <1>6

(* A trap that has met an error does not return. *)
LEMMA DoomedStops ==
    ASSUME TrapsInv, [Next]_vars, Alive', Len(stk) = 2, Top = stk[2], Trapped, doomed, SegvStep \/ IllStep
    PROVE  Status' = "stopped"
<1>1. Alive /\ fatal /\ proc' = "alive" /\ Len(stk') \in Nat
  BY Heights DEF Alive, TrapsInv, DoomedInv
<1>2. Top.code \in {"segv", "ill"} /\ doomed'
  BY DoomStays DEF Trapped, TrapOf
<1>3. ~ReturnOrBailOut
  BY <1>1, <1>2, LeftAlone
<1>4. Len(stk') = 2
  <2>1. CASE SegvEntry \/ IllEntry \/ IllEmulate \/ IllFixups
    <3>1. PICK at : Goto(at)
      BY <2>1 DEF SegvEntry, IllEntry, IllEmulate, IllFixups, Proceed
    <3> QED
      BY <3>1, SecondGoes
  <2>2. CASE SegvFetch \/ SegvDevice
    <3>1. stk' = stk \/ Goto("out") \/ \E f : stk' = [stk EXCEPT ![Len(stk)] = f]
      BY <2>2 DEF SegvFetch, SegvDevice, Decoded
    <3> QED
      BY <3>1, SecondGoes, SecondIs
  <2>3. ~SegvOut /\ ~SegvStray /\ ~IllOut /\ ~Exit("segv") /\ ~Exit("ill")
    BY <1>1, <1>3 DEF SegvOut, SegvStray, IllOut, Exit
  <2> QED
    BY <2>1, <2>2, <2>3 DEF SegvStep, IllStep
<1>5. stk'[2].code = Top.code
  BY <1>4, Below
<1>6. Trapped'
  BY <1>2, <1>4, <1>5 DEF Trapped, TrapOf
<1> QED
  BY <1>2, <1>6 DEF Status

(* Every step of Traps is a step of GuestCpu, or does not show. *)
LEMMA NextRefines ==
    ASSUME TrapsInv, PreciseInv, [Next]_vars
    PROVE  [G!Next]_G!vars
<1>1. CASE Status' = "stopped"
  BY <1>1, Stops
<1>2. CASE Status' # "stopped"
  <2>1. Alive' /\ Alive /\ proc' = "alive"
    BY <1>2, Heights DEF Status, Alive
  <2>2. CASE Aside
    BY <1>2, <2>1, <2>2, AsideStutters
  <2>3. CASE Len(stk) = 1 /\ (GuestAccess \/ GuestPrivileged)
    BY <1>2, <2>1, <2>3, GuestTraps DEF G!Next
  <2>4. CASE Len(stk) = 2 /\ Top = stk[2] /\ GuestTrapped /\ (SegvStep \/ IllStep)
    <3>1. Trapped
      <4>1. Top.code \in {"segv", "ill"}
        BY <2>4 DEF SegvStep, SegvEntry, SegvFetch, SegvDevice, SegvOut, SegvStray, IllStep, IllEntry, IllEmulate,
            IllFixups, IllOut, Exit, At
      <4> QED
        BY <2>4, <4>1 DEF Trapped, TrapOf
    <3>2. ~doomed
      BY <1>2, <2>1, <2>4, <3>1, DoomedStops
    <3>3. Status = "traps" /\ RegsInv
      BY <2>1, <3>1, <3>2, StatusIs DEF PreciseInv
    <3>4. ~Exit("segv") /\ ~SegvStray /\ ~Exit("ill")
      BY <2>1 DEF Exit, SegvStray
    <3>5. CASE SegvEntry \/ SegvFetch \/ SegvDevice
      BY <1>2, <2>1, <2>4, <3>3, <3>5, SegvStutters
    <3>6. CASE SegvOut
      BY <2>1, <2>4, <3>3, <3>6, SegvResumes DEF G!Next
    <3>7. CASE IllEntry \/ IllEmulate \/ IllFixups \/ IllOut
      BY <1>2, <2>1, <2>4, <3>3, <3>7, IllSteps DEF G!Next
    <3> QED
      BY <2>4, <3>4, <3>5, <3>6, <3>7 DEF SegvStep, IllStep
  <2> QED
    BY <2>1, <2>2, <2>3, <2>4, Whose
<1> QED
  BY <1>1, <1>2

LEMMA InitRefines == Init => G!Init
<1> SUFFICES ASSUME Init PROVE G!Init
  OBVIOUS
<1>1. Len(stk) = 1 /\ stk = <<Guest>> /\ proc = "alive" /\ gpr = Zeroed
  BY DEF Init
<1>2. ~OnStack({"bail"}, stk) /\ ~Trapped
  BY <1>1 DEF OnStack, Trapped, TrapOf, Guest, Frame
<1>3. Status = "runs"
  BY <1>1, <1>2 DEF Status, Alive
<1>4. Insn = "none" /\ Shown = Zeroed
  BY <1>1, <1>3 DEF Insn, Shown
<1> QED
  BY <1>3, <1>4 DEF G!Init, G!Zeroed, Zeroed

(* An instruction of the guest that traps takes effect once and whole, or  *)
(* the guest never goes on: emu.c's handlers, the timer's hooks and the    *)
(* faults of the emulator's own code, in any order, keep the promise of    *)
(* GuestCpu, for all accesses, values and machines (emu.c:266, :447).      *)
THEOREM ImplementsGuestCpuHolds == Spec => ImplementsGuestCpu
BY Invariant, InitPrecise, NextKeepsPrecise, InitRefines, NextRefines, PTL DEF Spec, G!Spec, ImplementsGuestCpu
=============================================================================
