------------------------------- MODULE MCLayout -------------------------------
(* Layout for TLC: two turnouts of the ECoS, of which the first can get    *)
(* the address of the other, or both swap; a cache for one of them.        *)
EXTENDS Layout
CONSTANTS t1, t2, i1, i2
MCFirst == [i \in Ids |-> IF i = i1 THEN t1 ELSE t2]
MCFirstPos == [i \in Ids |-> IF i = i1 THEN 0 ELSE 1]
=============================================================================
