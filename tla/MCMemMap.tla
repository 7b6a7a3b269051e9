----------------------------- MODULE MCMemMap ------------------------------
(* Guests for TLC: two low BATs on each side (four in the code), so that   *)
(* the default BATs, the high BATs and the loop over both are there.       *)
EXTENDS MemMap

U(side, i, a) == [side |-> side, half |-> "U", i |-> i, val |-> Reg(a)]
L(side, i, a) == [side |-> side, half |-> "L", i |-> i, val |-> Reg(a)]
Clear(side, i) == {[side |-> side, half |-> h, i |-> i, val |-> Zero] : h \in Half}

AllMsr == Msr

(* The guest of a console's operating system: it moves a data BAT and an   *)
(* instruction BAT, adds a high one, drops another and points one at       *)
(* something that is not memory.                                           *)
OsWrites == {U("I", 1, 8), L("I", 1, 0), U("D", 1, 10), L("D", 1, 1), L("D", 1, 5)}
            \cup {U("D", 2, 0)} \cup Clear("D", 0)

(* A guest that moves one of its data windows twice while it translates.  *)
LeakWrites == {U("D", 1, 10), U("D", 1, 11)}

(* Any guest: the same address for both memories, an address that another  *)
(* BAT still uses, instructions moved away from under the guest.           *)
AnyWrites == {U("D", 1, 8), L("D", 1, 1), U("I", 0, 10), U("D", 2, 8)}
=============================================================================
