------------------------------ MODULE GuestCpu ------------------------------
(***************************************************************************)
(* What dol-run promises a guest about its instructions, without signals,  *)
(* handlers, timer and hardware: one that traps takes effect once and      *)
(* whole, as the processor would have done it, before the guest goes on;   *)
(* or the guest never goes on.                                             *)
(***************************************************************************)
EXTENDS Naturals

CONSTANT W              \* 2^16

VARIABLES
    status,             \* "runs", "traps" or "stopped"
    insn,               \* the instruction that traps, "none" if none does
    r                   \* the guest's rt (source or target), ra (base) and pc

vars == <<status, insn, r>>

Word    == 0 .. W * W - 1
Half    == 0 .. W - 1
Loads   == {"lwz", "lhz", "lha"}
Stores  == {"stw", "sth", "sthu"}
Zeroed  == [rt |-> 0, ra |-> 0, pc |-> 0]

(* A half with the sign it has in 16 bits, in a register of 32.            *)
Signed(h) == IF h >= W \div 2 THEN (W - 1) * W + h ELSE h

(* The registers an instruction may leave: those of a load depend on what  *)
(* answers it.  Of an instruction that cannot be emulated there are none.  *)
Onward(q) == [q EXCEPT !.pc = 1 - @]
Result(op, q) ==
    CASE op = "lwz"                       -> {Onward([q EXCEPT !.rt = v]) : v \in Word}
      [] op = "lhz"                       -> {Onward([q EXCEPT !.rt = h]) : h \in Half}
      [] op = "lha"                       -> {Onward([q EXCEPT !.rt = Signed(h)]) : h \in Half}
      [] op \in {"stw", "sth", "privileged"} -> {Onward(q)}
      [] op = "sthu"                      -> {Onward([q EXCEPT !.ra = 1 - @])}
      [] OTHER                            -> {}

-----------------------------------------------------------------------------
Init ==
    /\ status = "runs"
    /\ insn = "none"
    /\ r = Zeroed

(* What the guest does between two traps shows in one register.            *)
Trap ==
    /\ status = "runs"
    /\ status' = "traps"
    /\ insn' \in Loads \cup Stores \cup {"privileged", "other"}
    /\ \E v \in Word : r' = [r EXCEPT !.rt = v]

Resume ==
    /\ status = "traps"
    /\ status' = "runs"
    /\ insn' = "none"
    /\ r' \in Result(insn, r)

(* A fatal error ends it, wherever the guest is. *)
Stop ==
    /\ status # "stopped"
    /\ status' = "stopped"
    /\ insn' = "none"
    /\ r' = Zeroed

Next == Trap \/ Resume \/ Stop

Spec == Init /\ [][Next]_vars
=============================================================================
