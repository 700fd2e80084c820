------------------------------- MODULE MCZ21Lan -------------------------------
(* Z21Lan for TLC: more clients than places, more locos than a client may  *)
(* subscribe to.  Clients are interchangeable, and so are locos.           *)
EXTENDS Z21Lan, TLC

LocoStates == [speed : {0, 1}, dir : {1}, fns : SUBSET Fns]
Interchangeable == Permutations(Clients) \cup Permutations(Addr)

\* Addresses and function sets around every boundary of the encodings.
SampleAddr == {1, 63, 64, 127, 128, 255, 256, 300, 9999, 10239}
SampleFns == {{}, 0 .. 28, {0, 4, 5, 12, 13, 20, 21, 28}} \cup {{n} : n \in 0 .. 28}
=============================================================================
