----------------------------- MODULE MCEcosLink -----------------------------
(* EcosLink for TLC.  Two locos of the ECoS, so that one can wait for, or  *)
(* be overtaken by, the other; one it does not have, which blocks the      *)
(* re-subscription; a buffer with room for one command; two failures, so   *)
(* that a connection fails again before the first one is repaired.         *)
(* The parser reads blocks of its own, with the same failures: EcosLink    *)
(* takes as whole messages what it makes of bytes.  So either moves only   *)
(* while the other is where it starts.                                     *)
EXTENDS EcosLink, EcosParser

\* The lines of the tests and the captures, and one too long for the buffer.
Block(id, lines, code) == [header |-> id, lines |-> lines, code |-> code]
DriveLine == <<Number(1000), Pair("speed", 64), Pair("dir", 1)>>
SwitchLine == <<Number(1001), Function(0, 1), Function(0, 0), Function(31, 1), Function(32, 1)>>
AddressLine == <<Number(1000), Pair("name", 7), Pair("addr", 300)>>
StatusLine == <<Pair("status", 1)>>
PositionLine == <<Number(20000), Pair("state", 0), Pair("state", 1)>>
LongLine == [i \in 1 .. 8 |-> IF i = 1 THEN Number(1002) ELSE Pair("speed", 9)]
MCWords == UNION {{l[i] : i \in DOMAIN l} :
                  l \in {DriveLine, SwitchLine, AddressLine, StatusLine, PositionLine, LongLine}}
MCBlocks ==
    {Block(1000, <<DriveLine>>, 0), Block(1001, <<SwitchLine, SwitchLine>>, 0),
     Block(1, <<StatusLine>>, 0), Block(0, <<AddressLine, DriveLine, PositionLine>>, 0),
     Block(0, <<>>, 15), Block(1000, <<>>, 0), Block(0, <<AddressLine, LongLine, DriveLine>>, 0)}

MCInit == Init /\ NothingSent
MCNext ==
    \/ NothingSent /\ Next /\ UNCHANGED <<reading, sending>>
    \/ Init /\ net = "up" /\ station.go /\ Transfer /\ UNCHANGED vars
MCSpec == MCInit /\ [][MCNext]_<<vars, reading, sending>> /\ Fairness
=============================================================================
