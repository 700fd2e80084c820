---------------------------- MODULE MCStateEngine ----------------------------
(* StateEngine for TLC: more valid addresses than places, so the table     *)
(* fills, an address isValidDccAddress() refuses, and entries that go      *)
(* stale two ticks after their last update.                                *)
EXTENDS StateEngine

CONSTANTS None

ASSUME NoneAssumption == None \notin Values

\* The table read as a map: the contents and age findLoco() would find.
At(a) == CHOOSE i \in Indices : locos[i].addr = a

Register == INSTANCE LocoRegister WITH
    Addr <- ValidAddr,
    reg  <- [a \in ValidAddr |-> IF Holds(a) THEN locos[At(a)].val ELSE None],
    idle <- [a \in ValidAddr |-> IF Holds(a) THEN locos[At(a)].age ELSE 0],
    gone <- {removed[i] : i \in 1 .. Len(removed)}

(* The array implements the bounded map: whatever the order of insertions, *)
(* in-place updates, shifting removals and half-done sweeps, a caller sees *)
(* one value per address, kept until it is updated, removed or overdue,    *)
(* and is told which ones were overdue.                                    *)
ImplementsRegister == Register!RegSpec

=============================================================================
