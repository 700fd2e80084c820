----------------------------- MODULE MCXNetMaster -----------------------------
(* XNetMaster for TLC: two devices and the slot of the external controller; *)
(* the ring has its real size, the address counter two rounds of slots.     *)
EXTENDS XNetMaster

SampleFns == {{}, 0 .. 28, {0, 4, 5, 8, 9, 12, 13, 20, 21, 28}} \cup {{n} : n \in 0 .. 28}
SampleAddr == {1, 99, 100, 127, 128, 255, 256, 9999}
=============================================================================
