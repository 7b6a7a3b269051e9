---------------------------- MODULE GuestMemory ----------------------------
(***************************************************************************)
(* What dol-run promises a guest about its memory, without the tables, the *)
(* order of the system calls and the places where they fail.  A guest that *)
(* runs has a view, a function from addresses to memories.  A trap may     *)
(* change the translation mode or one BAT register, and hides the view;    *)
(* the guest resumes with a view that fits its mode and BATs, or never.    *)
(***************************************************************************)
EXTENDS Naturals

CONSTANT NumLow         \* BATs of each side on Gekko; Broadway has twice as many

VARIABLES
    console,            \* "GCN" or "WII"
    translating,        \* the translation mode
    bat,                \* the BAT registers, as in Cpu
    view,               \* what a running guest sees at each granule
    status              \* "runs", "trapped" or "stopped"

vars == <<console, translating, bat, view, status>>

Address  == 0 .. 15
Limit    == 12          \* no process has memory from here on
Nothing  == [a \in Address |-> "none"]
BatsUsed == 0 .. (IF console = "GCN" THEN NumLow ELSE 2 * NumLow) - 1

(* The memory at a physical address. *)
Physical(p) ==
    CASE p = 0                     -> "MEM1"
      [] p = 1 /\ console = "WII"  -> "MEM2"
      [] OTHER                     -> "none"

InUse(s, i) ==
    \/ bat[s]["U"][i].addr # 0 \/ bat[s]["U"][i].bits
    \/ bat[s]["L"][i].addr # 0 \/ bat[s]["L"][i].bits

(* The BAT i of side s puts memory m at address a. *)
Claims(s, i, a, m) ==
    InUse(s, i) /\ bat[s]["U"][i].addr = a /\ Physical(bat[s]["L"][i].addr) = m

Contested(a) ==
    \E s, t \in {"I", "D"}, i, j \in BatsUsed :
        /\ InUse(s, i) /\ bat[s]["U"][i].addr = a
        /\ InUse(t, j) /\ bat[t]["U"][j].addr = a
        /\ Physical(bat[s]["L"][i].addr) # Physical(bat[t]["L"][j].addr)

(* Real mode shows physical memory.  Translated mode shows nothing that no *)
(* BAT claims, and everything an uncontested data BAT claims below Limit.  *)
Promised(v) ==
    IF translating
    THEN /\ \A a \in Address : v[a] # "none" =>
               \E s \in {"I", "D"}, i \in BatsUsed : Claims(s, i, a, v[a])
         /\ \A i \in BatsUsed :
               LET a == bat["D"]["U"][i].addr
               IN  InUse("D", i) /\ a < Limit /\ ~Contested(a)
                      => v[a] = Physical(bat["D"]["L"][i].addr)
    ELSE \A a \in Address : v[a] = Physical(a)

-----------------------------------------------------------------------------
Init ==
    /\ console \in {"GCN", "WII"}
    /\ translating = TRUE
    /\ view = Nothing
    /\ status = "trapped"

(* One register of one BAT, of a guest that is not translating. *)
WriteBat ==
    /\ ~translating
    /\ \E s \in {"I", "D"}, h \in {"U", "L"}, i \in 0 .. 2 * NumLow - 1 :
          bat' = [bat EXCEPT ![s][h][i] = bat'[s][h][i]]
    /\ UNCHANGED translating

Switch ==
    /\ translating' \in BOOLEAN
    /\ UNCHANGED bat

Trap ==
    /\ status = "runs"
    /\ WriteBat \/ Switch
    /\ status' = "trapped"
    /\ view' = Nothing
    /\ UNCHANGED console

Resume ==
    /\ status = "trapped"
    /\ Promised(view')
    /\ status' = "runs"
    /\ UNCHANGED <<console, translating, bat>>

(* A fatal error ends it, wherever the guest is. *)
Stop ==
    /\ status # "stopped"
    /\ status' = "stopped"
    /\ view' = Nothing
    /\ UNCHANGED <<console, translating, bat>>

Next == Trap \/ Resume \/ Stop

Spec == Init /\ [][Next]_vars
=============================================================================
