------------------------------ MODULE AramDma ------------------------------
(***************************************************************************)
(* What the DSP promises a guest about its transfers to and from ARAM,     *)
(* without the handler, the halves of its registers and the timer: a       *)
(* transfer programmed while the DSP is halted is the one the address      *)
(* registers name, starts when the DSP resumes, and moves block by block   *)
(* while it runs and only then, until the guest programs another.          *)
(***************************************************************************)
EXTENDS Naturals

CONSTANTS W, Block      \* 2^16, and the bytes moved at a time

VARIABLES
    halted,             \* the DSP is
    mm, ar,             \* the address registers: main memory, ARAM
    known,              \* there is a transfer this promises something about
    t                   \* what is left of it

vars == <<halted, mm, ar, known, t>>

Word     == 0 .. W * W - 1
Longest  == (W * W) \div 2 - 1      \* bit 31 of the length is the direction
Nothing  == [from |-> 0, to |-> 0, left |-> 0, dir |-> FALSE]
Past(x)  == (x + Block) % (W * W)

-----------------------------------------------------------------------------
Init ==
    /\ halted = FALSE
    /\ mm = 0 /\ ar = 0
    /\ known = FALSE /\ t = Nothing

Control == halted' \in BOOLEAN /\ UNCHANGED <<mm, ar, known, t>>

Address ==
    /\ mm' \in Word /\ ar' \in Word
    /\ UNCHANGED <<halted, known, t>>

(* The guest begins to write the length.  What a running DSP does with     *)
(* one half of it is not promised.                                         *)
Forget ==
    /\ known' = FALSE /\ t' = Nothing
    /\ UNCHANGED <<halted, mm, ar>>

(* It has written it. *)
Program ==
    /\ halted /\ ~known
    /\ known' = TRUE
    /\ \E n \in 0 .. Longest, fromAram \in BOOLEAN :
          t' = [from |-> IF fromAram THEN ar ELSE mm,
                to   |-> IF fromAram THEN mm ELSE ar,
                left |-> n, dir |-> fromAram]
    /\ UNCHANGED <<halted, mm, ar>>

Move ==
    /\ ~halted /\ known
    /\ t.left >= Block /\ t.left % Block = 0
    /\ t' = [from |-> Past(t.from), to |-> Past(t.to), left |-> t.left - Block, dir |-> t.dir]
    /\ UNCHANGED <<halted, mm, ar, known>>

Next == Control \/ Address \/ Forget \/ Program \/ Move

Spec == Init /\ [][Next]_vars
=============================================================================
