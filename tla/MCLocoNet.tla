------------------------------ MODULE MCLocoNet ------------------------------
(* LocoNet for TLC: two throttles and fewer slots than locos.  The         *)
(* throttles are interchangeable, and so are the locos.                    *)
(* The receiver listens to bytes of its own: LocoNet takes frames as the   *)
(* whole messages that it makes of bytes.  So either moves only while the  *)
(* other is where it starts.                                               *)
EXTENDS LocoNet, LnFrames, TLC

Interchangeable == Permutations(Throttles) \cup Permutations(Addr)

MCInit == Init /\ Quiet
MCNext ==
    \/ Quiet /\ Next /\ UNCHANGED parser
    \/ Init /\ Listen /\ UNCHANGED vars
MCSpec == MCInit /\ [][MCNext]_<<vars, parser>>
=============================================================================
