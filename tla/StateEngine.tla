----------------------------- MODULE StateEngine -----------------------------
(***************************************************************************)
(* The bridge's in-memory loco table (StateEngine): a compact array in the *)
(* order of first use, searched linearly, whose entries age until the      *)
(* router's 30 s housekeeping sweeps out those idle for longer than        *)
(* LOCO_INACTIVITY_TIMEOUT.  What an entry holds (speed, direction,        *)
(* functions, source, subscription) is one opaque value: nothing in this   *)
(* component looks inside it.                                              *)
(*                                                                         *)
(* The sweep removes while it walks, so it is modelled one loop iteration  *)
(* per step.  The firmware is one cooperative loop: no other operation can *)
(* run while `sweep` is not 0.                                             *)
(***************************************************************************)
EXTENDS Naturals, Sequences

CONSTANTS
    Addr,          \* addresses callers pass in
    ValidAddr,     \* those isValidDccAddress() accepts
    Values,        \* contents of an entry
    MaxLocos,      \* MAX_LOCOS
    Timeout        \* inactivity_timeout_ms, in ticks of the model's clock

ASSUME StateEngineAssumption ==
    /\ ValidAddr \subseteq Addr
    /\ MaxLocos \in Nat \ {0}
    /\ Timeout \in Nat

VARIABLES
    locos,     \* locos[0 .. loco_count-1]; age is now_ms() - last_update_ms
    sweep,     \* loop counter i + 1 of expungeInactiveLocos(), 0 outside it
    removed    \* removed_out[0 .. removed_count-1] of the last sweep

vars == <<locos, sweep, removed>>

MaxAge == Timeout + 1          \* bound: an older entry behaves like this one
Ages == 0 .. MaxAge
Entry == [addr : ValidAddr, val : Values, age : Ages]

-----------------------------------------------------------------------------
(* Slips a change to state_engine.cpp could make; each stands in for the   *)
(* definition it is named after when the properties are put to the test.   *)
HasRoomOffByOne == Len(locos) <= MaxLocos
ReportRoomOffByOne == Len(removed) < MaxLocos - 1
StaleTooEarly(e) == e.age >= Timeout
WithoutMovesLast(i) ==
    [j \in 1 .. Len(locos) - 1 |-> IF j = i THEN locos[Len(locos)] ELSE locos[j]]
StartExpungeShort ==
    /\ sweep = 0
    /\ sweep' = IF Len(locos) = 0 THEN 0 ELSE Len(locos) - 1
    /\ removed' = <<>>
    /\ UNCHANGED locos

-----------------------------------------------------------------------------
Indices == 1 .. Len(locos)
AddrsInTable == {locos[i].addr : i \in Indices}

\* findLoco() >= 0
Holds(a) == \E i \in Indices : locos[i].addr = a

\* removeLoco(): the entries behind index i move one place down.
Without(i) ==
    [j \in 1 .. Len(locos) - 1 |-> IF j < i THEN locos[j] ELSE locos[j + 1]]

HasRoom == Len(locos) < MaxLocos
ReportRoom == Len(removed) < MaxLocos
Stale(e) == e.age > Timeout

Init == locos = <<>> /\ sweep = 0 /\ removed = <<>>

-----------------------------------------------------------------------------
(* addOrUpdateLoco(): update in place, else append unless full. *)
UpdateLoco(a, v) ==
    /\ sweep = 0
    /\ a \in ValidAddr
    /\ \E i \in Indices :
          /\ locos[i].addr = a
          /\ locos' = [locos EXCEPT ![i] = [addr |-> a, val |-> v, age |-> 0]]
    /\ UNCHANGED <<sweep, removed>>

AddLoco(a, v) ==
    /\ sweep = 0
    /\ a \in ValidAddr
    /\ ~Holds(a)
    /\ HasRoom
    /\ locos' = Append(locos, [addr |-> a, val |-> v, age |-> 0])
    /\ UNCHANGED <<sweep, removed>>

\* getLocoByIndex(): emergencyStopAll() writes through the pointer it returns
\* and does not touch last_update_ms.
WriteByIndex(i, v) ==
    /\ sweep = 0
    /\ i \in Indices
    /\ locos' = [locos EXCEPT ![i].val = v]
    /\ UNCHANGED <<sweep, removed>>

RemoveLocoByAddress(a) ==
    /\ sweep = 0
    /\ \E i \in Indices : locos[i].addr = a /\ locos' = Without(i)
    /\ UNCHANGED <<sweep, removed>>

Clear ==
    /\ sweep = 0
    /\ locos' = <<>>
    /\ UNCHANGED <<sweep, removed>>

(* expungeInactiveLocos(), from the last index down. *)
StartExpunge ==
    /\ sweep = 0
    /\ sweep' = Len(locos)
    /\ removed' = <<>>
    /\ UNCHANGED locos

ExpungeStep ==
    /\ sweep > 0
    /\ sweep' = sweep - 1
    /\ IF Stale(locos[sweep])
       THEN /\ removed' = IF ReportRoom THEN Append(removed, locos[sweep].addr)
                                        ELSE removed
            /\ locos' = Without(sweep)
       ELSE UNCHANGED <<locos, removed>>

\* The clock moves between operations only.
Tick ==
    /\ sweep = 0
    /\ locos' = [i \in Indices |->
                   [locos[i] EXCEPT !.age = IF @ < MaxAge THEN @ + 1 ELSE @]]
    /\ UNCHANGED <<sweep, removed>>

Next ==
    \/ \E a \in Addr, v \in Values : UpdateLoco(a, v) \/ AddLoco(a, v)
    \/ \E i \in Indices, v \in Values : WriteByIndex(i, v)
    \/ \E a \in Addr : RemoveLocoByAddress(a)
    \/ Clear
    \/ StartExpunge
    \/ ExpungeStep
    \/ Tick

Spec == Init /\ [][Next]_vars

\* loop() calls the housekeeping every 30 s, and a sweep it starts ends.
FairSpec == Spec /\ WF_vars(StartExpunge) /\ WF_vars(ExpungeStep)

-----------------------------------------------------------------------------
(* Type invariant: a compact array of at most MAX_LOCOS valid entries, and *)
(* a sweep index inside it.                                                *)
TypeOK ==
    /\ locos \in Seq(Entry)
    /\ Len(locos) <= MaxLocos
    /\ sweep \in 0 .. Len(locos)
    /\ removed \in Seq(ValidAddr)

(* One entry per address, however updates, removals and half-done sweeps   *)
(* shift the array: findLoco() returns the first match, so a second entry  *)
(* would hold state nobody can read or expire.                             *)
UniqueAddresses ==
    \A i, j \in Indices : locos[i].addr = locos[j].addr => i = j

(* The backwards walk misses nobody: what lies behind the sweep index has  *)
(* been looked at and is not stale, although removals moved entries there. *)
SweptPartIsFresh ==
    sweep > 0 => \A i \in Indices : i > sweep => locos[i].age <= Timeout

(* An address the sweep reported is gone from the table while the sweep    *)
(* lasts and was reported once, so the router's unsubscribeFromLoco() loop *)
(* releases a loco it no longer tracks, once.                              *)
ReportedOnce ==
    /\ \A i, j \in 1 .. Len(removed) : removed[i] = removed[j] => i = j
    /\ sweep > 0 => \A i \in 1 .. Len(removed) : removed[i] \notin AddrsInTable

(* A loco leaves the table in a sweep only when it was stale, and always   *)
(* with its address in removed_out (capacity MAX_LOCOS): otherwise its     *)
(* Ecos subscription would never be released.                              *)
ExpiryIsReported ==
    [][\A i \in Indices :
          (sweep > 0 /\ locos[i].addr \notin AddrsInTable')
             => /\ locos[i].age > Timeout
                /\ removed' = Append(removed, locos[i].addr)]_vars

(* Survivors keep their relative order whatever is removed: the Ecos       *)
(* resubscribe walk and the display address the table by index.            *)
OrderIsKept ==
    [][\A i, j \in Indices, k, l \in 1 .. Len(locos') :
          (i < j /\ locos'[k].addr = locos[i].addr /\ locos'[l].addr = locos[j].addr)
             => k < l]_vars

(* A loco nobody touches is eventually forgotten: an entry that is stale   *)
(* now is updated or gone later.                                           *)
Overdue(a) == \E i \in Indices : locos[i].addr = a /\ locos[i].age > Timeout
StaleIsForgotten == \A a \in ValidAddr : Overdue(a) ~> ~Overdue(a)
=============================================================================
