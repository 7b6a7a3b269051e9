------------------------------ MODULE MCTraps ------------------------------
(* Two machines, one access of every kind the handlers tell apart.         *)
EXTENDS Traps

At2(bus, block, reg)   == [bus |-> bus, block |-> block, reg |-> reg]
Load(op, place)        == [type |-> "read", op |-> op, at |-> place]
StoreTo(op, place)     == [type |-> "write", op |-> op, at |-> place]
Nowhere                == At2("nonsense", "none", "none")

MCMachines == {<<"GameCube", "Wii">>, <<"Wii", "GameCube">>}
MCDecStep  == [m \in {"GameCube", "Wii"} |-> IF m = "Wii" THEN 3 ELSE 2]
MCVals     == {7}
MCHwVals   == {11}

MCAccesses ==
    { Load("lwz", At2("flipper", "PI", "intmr")),
      StoreTo("stw", At2("flipper", "PI", "intmr")),
      Load("lhz", At2("flipper", "MI", "unknown")),
      StoreTo("sth", At2("flipper", "MI", "unknown")),
      StoreTo("sthu", At2("flipper", "AI", "aicr")),
      Load("lha", At2("flipper", "AI", "aicr")),
      Load("lha", At2("flipper", "DSP", "csr")),
      Load("lhz", At2("flipper", "DI", "disr")),
      Load("lhz", At2("hollywood", "SI", "siout")),
      StoreTo("sth", At2("hollywood", "gap", "none")),
      Load("other", At2("flipper", "PI", "intsr")),
      Load("lhz", At2("unmapped", "none", "none")),
      Load("unreadable", Nowhere),
      [type |-> "other", op |-> "lwz", at |-> Nowhere] }

MCOwnAccesses ==
    { Load("lwz", Nowhere),
      [type |-> "other", op |-> "lwz", at |-> Nowhere],
      StoreTo("stw", At2("flipper", "PI", "intmr")) }
=============================================================================
