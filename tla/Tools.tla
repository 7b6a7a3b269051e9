------------------------------- MODULE Tools -------------------------------
(***************************************************************************)
(* dol-patch and dol-run on one file.  Nothing keeps them apart: dol-run   *)
(* maps the file privately, and sees what dol-patch writes until it has    *)
(* swapped the header's bytes.                                             *)
(***************************************************************************)
EXTENDS DolPatch, Loader

vars == <<file, patchVars, loadVars>>

Init == file \in Images /\ PatchInit /\ LoadInit

Next == \/ PatchNext /\ UNCHANGED loadVars
        \/ LoadNext /\ UNCHANGED patchVars

Spec == Init /\ [][Next]_vars

(* Types of both programs. *)
TypeOK ==
    /\ file \in File
    /\ ppc \in {"ready", "parsed", "open", "done", "failed"}
    /\ arg \in [name : Names, text : Texts] /\ order \in Orders
    /\ offset \in 0 .. HdrWords - 1
    /\ LoadTypeOK

(* A field that was set before dol-run came to the header is what dol-run  *)
(* loads by, under the name it has in the header (types.h, main.c:111).    *)
PatchIsLoaded ==
    [][Byteswap /\ ppc = "done" =>
          \E p \in 0 .. HdrWords - 1 : Means(arg.name, p) /\ hdr'[p] = arg.text]_vars
=============================================================================
