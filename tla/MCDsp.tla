------------------------------- MODULE MCDsp --------------------------------
(* Registers of four bits: halves of two bits, blocks of two bytes.        *)
EXTENDS Dsp

MCMMAddrs == {12}           \* the pointer wraps during a transfer of six bytes
MCARAddrs == {0}
MCHighs   == {0, 3}         \* to ARAM and short, or from ARAM and long
MCLows    == {1, 2}         \* 1 is not a multiple of Block

(* Halt and run, with and without a reset; one reset seeds the program. *)
MCCsrVals == {[boot |-> reset = FALSE \/ halted, halt |-> halted, reset |-> reset] :
                 reset, halted \in BOOLEAN}
=============================================================================
