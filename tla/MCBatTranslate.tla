--------------------------- MODULE MCBatTranslate ---------------------------
(* Blocks of one and two units of two addresses each, in an address space  *)
(* of 64; a Gekko's BATs, of which two of each side are written.           *)
EXTENDS BatTranslate

WriteU(side, i, bepi, bl) ==
    [side |-> side, i |-> i, val |-> [bepi |-> bepi, bl |-> bl, valid |-> TRUE]]
WriteL(side, i, bprn, rw) ==
    [side |-> side, i |-> i, val |-> [bprn |-> bprn, rw |-> rw]]

(* Short and long blocks next to each other, at the top of the address     *)
(* space, on top of each other and misaligned; a length that is none;      *)
(* physical addresses that are and are not multiples of the length.        *)
MCWrites ==
    {WriteU("D", 0, b, l) : b \in {32, 34, 60}, l \in {0, 1}}
    \cup {WriteU("D", 1, 36, 0), WriteU("D", 1, 62, 0), WriteU("D", 1, 40, 2)}
    \cup {WriteL("D", i, p, i = 0) : i \in {0, 1}, p \in {0, 6, 62}}
    \cup {WriteU("I", 0, 34, 0), WriteU("I", 1, 60, 1), WriteL("I", 0, 6, TRUE),
          [side |-> "D", i |-> 1, val |-> NoUpper]}
=============================================================================
