---------------------------- MODULE LocoRegister ----------------------------
(***************************************************************************)
(* What StateEngine promises its users, without the array: a bounded map   *)
(* from addresses to contents that forgets an address only when it is told *)
(* to, or in a round of expiry when nobody updated it for longer than the  *)
(* timeout; then it names the address.                                     *)
(***************************************************************************)
EXTENDS Naturals, FiniteSets

CONSTANTS Addr, Values, None, MaxLocos, Timeout

VARIABLES
    reg,     \* contents per address, None when not tracked
    idle,    \* time since the last update, 0 when not tracked
    gone     \* the addresses the last round of expiry has named

regVars == <<reg, idle, gone>>

Tracked == {a \in Addr : reg[a] # None}

RegInit == reg = [a \in Addr |-> None] /\ idle = [a \in Addr |-> 0] /\ gone = {}

Put(a, v) ==
    /\ a \in Tracked \/ Cardinality(Tracked) < MaxLocos
    /\ reg' = [reg EXCEPT ![a] = v]
    /\ idle' = [idle EXCEPT ![a] = 0]
    /\ UNCHANGED gone

Overwrite(a, v) ==
    /\ a \in Tracked
    /\ reg' = [reg EXCEPT ![a] = v]
    /\ UNCHANGED <<idle, gone>>

Drop(S) ==
    /\ reg' = [a \in Addr |-> IF a \in S THEN None ELSE reg[a]]
    /\ idle' = [a \in Addr |-> IF a \in S THEN 0 ELSE idle[a]]

StartRound == gone' = {} /\ UNCHANGED <<reg, idle>>
Forget(a) ==
    /\ a \in Tracked /\ idle[a] > Timeout
    /\ Drop({a})
    /\ gone' = gone \cup {a}

Remove(a) == a \in Tracked /\ Drop({a}) /\ UNCHANGED gone
RemoveAll == Drop(Addr) /\ UNCHANGED gone

Pass ==
    /\ idle' = [a \in Addr |-> IF a \in Tracked /\ idle[a] <= Timeout
                               THEN idle[a] + 1 ELSE idle[a]]
    /\ UNCHANGED <<reg, gone>>

RegNext ==
    \/ \E a \in Addr, v \in Values : Put(a, v) \/ Overwrite(a, v)
    \/ \E a \in Addr : Forget(a) \/ Remove(a)
    \/ RemoveAll
    \/ StartRound
    \/ Pass

RegSpec == RegInit /\ [][RegNext]_regVars
=============================================================================
