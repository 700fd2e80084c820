-------------------------- MODULE StateEngineProofs --------------------------
(***************************************************************************)
(* The loco table is correct for any number of places, any set of          *)
(* addresses and any timeout: the invariants and action properties that    *)
(* StateEngine.cfg checks on three places, proved for every value of the   *)
(* constants.  All follow from one inductive invariant, IInv.              *)
(***************************************************************************)
EXTENDS MCStateEngine, FiniteSetTheorems, TLAPS

(* What a sweep still has to report fits: each removal takes an entry from *)
(* locos and adds at most one to removed_out, which has MAX_LOCOS places.  *)
RoomToReport == sweep > 0 => Len(locos) + Len(removed) <= MaxLocos

IInv ==
    /\ TypeOK
    /\ UniqueAddresses
    /\ SweptPartIsFresh
    /\ ReportedOnce
    /\ RoomToReport

-----------------------------------------------------------------------------
(* removeLoco() leaves a table of valid entries that is one shorter.       *)
LEMMA WithoutType ==
    ASSUME TypeOK, NEW i \in Indices
    PROVE  /\ Without(i) \in Seq(Entry)
           /\ Len(Without(i)) = Len(locos) - 1
           /\ \A j \in 1 .. Len(locos) - 1 :
                 Without(i)[j] = IF j < i THEN locos[j] ELSE locos[j + 1]
<1>1. Len(locos) \in Nat /\ Len(locos) >= 1 /\ i \in 1 .. Len(locos)
  BY DEF TypeOK, Indices
<1>2. \A j \in 1 .. Len(locos) : locos[j] \in Entry
  BY DEF TypeOK
<1>3. \A j \in 1 .. Len(locos) - 1 :
         (IF j < i THEN locos[j] ELSE locos[j + 1]) \in Entry
  BY <1>1, <1>2
<1>4. Without(i) \in [1 .. Len(locos) - 1 -> Entry]
  BY <1>3 DEF Without
<1>5. Len(locos) - 1 \in Nat
  BY <1>1
<1>6. Without(i) \in Seq(Entry)
  BY <1>4, <1>5
<1>7. Len(Without(i)) = Len(locos) - 1
  BY <1>4, <1>5, <1>6
<1> QED
  BY <1>6, <1>7 DEF Without

(* An appended entry comes last and leaves the others where they are.      *)
LEMMA AppendedType ==
    ASSUME NEW S, NEW s \in Seq(S), NEW x \in S
    PROVE  /\ Append(s, x) \in Seq(S)
           /\ Len(Append(s, x)) = Len(s) + 1
           /\ \A j \in 1 .. Len(s) : Append(s, x)[j] = s[j]
           /\ Append(s, x)[Len(s) + 1] = x
  OBVIOUS

(* The table starts empty. *)
LEMMA InitIInv == Init => IInv
  BY StateEngineAssumption
  DEF Init, IInv, TypeOK, UniqueAddresses, SweptPartIsFresh, ReportedOnce,
      RoomToReport, Indices, AddrsInTable, Entry

-----------------------------------------------------------------------------
(* One lemma per operation of the table. *)
LEMMA UpdateLocoIInv ==
    ASSUME IInv, NEW a \in Addr, NEW v \in Values, UpdateLoco(a, v)
    PROVE  IInv'
<1>1. PICK i \in Indices :
         /\ locos[i].addr = a
         /\ locos' = [locos EXCEPT ![i] = [addr |-> a, val |-> v, age |-> 0]]
  BY DEF UpdateLoco
<1>2. sweep = 0 /\ a \in ValidAddr /\ sweep' = 0 /\ removed' = removed
  BY DEF UpdateLoco
<1>3. [addr |-> a, val |-> v, age |-> 0] \in Entry
  BY <1>2, StateEngineAssumption DEF Entry, Ages, MaxAge
<1>4. /\ locos \in Seq(Entry) /\ i \in 1 .. Len(locos)
      /\ locos' \in Seq(Entry) /\ Len(locos') = Len(locos)
  BY <1>1, <1>3 DEF IInv, TypeOK, Indices
<1>5. \A j \in 1 .. Len(locos) : locos'[j].addr = locos[j].addr
  BY <1>1, <1>4
<1>6. TypeOK'
  BY <1>2, <1>4 DEF IInv, TypeOK
<1>7. UniqueAddresses'
  BY <1>4, <1>5 DEF IInv, UniqueAddresses, Indices
<1>8. SweptPartIsFresh' /\ RoomToReport'
  BY <1>2 DEF SweptPartIsFresh, RoomToReport
<1>9. ReportedOnce'
  BY <1>2 DEF IInv, ReportedOnce
<1> QED
  BY <1>6, <1>7, <1>8, <1>9 DEF IInv

(* addOrUpdateLoco() for an address that is not there: appended if there is room. *)
LEMMA AddLocoIInv ==
    ASSUME IInv, NEW a \in Addr, NEW v \in Values, AddLoco(a, v)
    PROVE  IInv'
<1> DEFINE e == [addr |-> a, val |-> v, age |-> 0]
<1>1. /\ sweep = 0 /\ sweep' = 0 /\ removed' = removed /\ a \in ValidAddr
      /\ ~Holds(a) /\ Len(locos) < MaxLocos /\ locos' = Append(locos, e)
  BY DEF AddLoco, HasRoom
<1>2. e \in Entry
  BY <1>1, StateEngineAssumption DEF Entry, Ages, MaxAge
<1>3. locos \in Seq(Entry) /\ Len(locos) \in Nat
  BY DEF IInv, TypeOK
<1>4. /\ locos' \in Seq(Entry) /\ Len(locos') = Len(locos) + 1
      /\ \A j \in 1 .. Len(locos) : locos'[j] = locos[j]
      /\ locos'[Len(locos) + 1] = e
  BY <1>1, <1>2, <1>3, AppendedType
<1>5. TypeOK'
  BY <1>1, <1>3, <1>4, StateEngineAssumption DEF IInv, TypeOK
<1>6. \A j \in 1 .. Len(locos) : locos[j].addr # a
  BY <1>1 DEF Holds, Indices
<1>7. e.addr = a
  OBVIOUS
<1>8. \A j \in 1 .. Len(locos') :
         j \in 1 .. Len(locos) \/ j = Len(locos) + 1
  BY <1>3, <1>4
<1>9. UniqueAddresses'
  BY <1>4, <1>6, <1>7, <1>8 DEF IInv, UniqueAddresses, Indices
<1>10. SweptPartIsFresh' /\ RoomToReport'
  BY <1>1 DEF SweptPartIsFresh, RoomToReport
<1>11. ReportedOnce'
  BY <1>1 DEF IInv, ReportedOnce
<1> QED
  BY <1>5, <1>9, <1>10, <1>11 DEF IInv

(* getLocoByIndex() hands out an entry that its caller writes to. *)
LEMMA WriteByIndexIInv ==
    ASSUME IInv, NEW i \in Indices, NEW v \in Values, WriteByIndex(i, v)
    PROVE  IInv'
<1>1. /\ sweep = 0 /\ sweep' = 0 /\ removed' = removed
      /\ locos' = [locos EXCEPT ![i].val = v]
  BY DEF WriteByIndex
<1>2. locos \in Seq(Entry) /\ i \in 1 .. Len(locos) /\ locos[i] \in Entry
  BY DEF IInv, TypeOK, Indices
<1>3. [locos[i] EXCEPT !.val = v] \in Entry
  BY <1>2 DEF Entry
<1>4. locos' = [locos EXCEPT ![i] = [locos[i] EXCEPT !.val = v]]
  BY <1>1
<1>5. locos' \in Seq(Entry) /\ Len(locos') = Len(locos)
  BY <1>2, <1>3, <1>4
<1>6. \A j \in 1 .. Len(locos) : locos'[j].addr = locos[j].addr
  BY <1>2, <1>4 DEF Entry
<1>7. TypeOK'
  BY <1>1, <1>5 DEF IInv, TypeOK
<1>8. UniqueAddresses'
  BY <1>5, <1>6 DEF IInv, UniqueAddresses, Indices
<1>9. SweptPartIsFresh' /\ RoomToReport' /\ ReportedOnce'
  BY <1>1 DEF SweptPartIsFresh, RoomToReport, IInv, ReportedOnce
<1> QED
  BY <1>7, <1>8, <1>9 DEF IInv

(* removeLocoByAddress() closes the gap. *)
LEMMA RemoveLocoByAddressIInv ==
    ASSUME IInv, NEW a \in Addr, RemoveLocoByAddress(a)
    PROVE  IInv'
<1>1. PICK i \in Indices : locos' = Without(i)
  BY DEF RemoveLocoByAddress
<1>2. sweep = 0 /\ sweep' = 0 /\ removed' = removed
  BY DEF RemoveLocoByAddress
<1>3. Len(locos) \in Nat /\ Len(locos) <= MaxLocos /\ i \in 1 .. Len(locos)
  BY DEF IInv, TypeOK, Indices
<1>4. /\ locos' \in Seq(Entry) /\ Len(locos') = Len(locos) - 1
      /\ \A j \in 1 .. Len(locos) - 1 :
            locos'[j] = IF j < i THEN locos[j] ELSE locos[j + 1]
  BY <1>1, WithoutType DEF IInv
<1>5. TypeOK'
  BY <1>2, <1>3, <1>4, StateEngineAssumption DEF IInv, TypeOK
<1>6. UniqueAddresses'
  BY <1>3, <1>4 DEF IInv, UniqueAddresses, Indices
<1>7. SweptPartIsFresh' /\ RoomToReport' /\ ReportedOnce'
  BY <1>2 DEF SweptPartIsFresh, RoomToReport, IInv, ReportedOnce
<1> QED
  BY <1>5, <1>6, <1>7 DEF IInv

(* clear() empties the table. *)
LEMMA ClearIInv ==
    ASSUME IInv, Clear
    PROVE  IInv'
  BY StateEngineAssumption
  DEF Clear, IInv, TypeOK, UniqueAddresses, SweptPartIsFresh, ReportedOnce,
      RoomToReport, Indices

(* expungeInactiveLocos() starts at the last entry with nothing reported. *)
LEMMA StartExpungeIInv ==
    ASSUME IInv, StartExpunge
    PROVE  IInv'
<1>1. sweep' = Len(locos) /\ removed' = <<>> /\ locos' = locos
  BY DEF StartExpunge
<1>2. Len(locos) \in Nat /\ Len(locos) <= MaxLocos
  BY DEF IInv, TypeOK
<1>3. TypeOK'
  BY <1>1, <1>2 DEF IInv, TypeOK
<1>4. UniqueAddresses' /\ SweptPartIsFresh'
  BY <1>1, <1>2 DEF IInv, UniqueAddresses, SweptPartIsFresh, Indices
<1>5. Len(removed') = 0
  BY <1>1
<1>6. ReportedOnce' /\ RoomToReport'
  BY <1>1, <1>2, <1>5 DEF ReportedOnce, RoomToReport
<1> QED
  BY <1>3, <1>4, <1>6 DEF IInv

(* The iteration that removes: the entry at the sweep index leaves, its    *)
(* address is reported and there was room to report it.                    *)
LEMMA ExpungeRemoves ==
    ASSUME IInv, ExpungeStep, Stale(locos[sweep])
    PROVE  /\ sweep \in 1 .. Len(locos) /\ sweep' = sweep - 1
           /\ Len(removed) \in Nat /\ Len(removed) < MaxLocos
           /\ locos[sweep].addr \in ValidAddr
           /\ removed' = Append(removed, locos[sweep].addr)
           /\ locos' \in Seq(Entry) /\ Len(locos') = Len(locos) - 1
           /\ \A j \in 1 .. Len(locos) - 1 :
                 locos'[j] = IF j < sweep THEN locos[j] ELSE locos[j + 1]
<1>1. /\ sweep > 0 /\ sweep \in 0 .. Len(locos) /\ Len(locos) \in Nat
      /\ Len(removed) \in Nat /\ Len(locos) + Len(removed) <= MaxLocos
  BY DEF ExpungeStep, IInv, TypeOK, RoomToReport
<1>2. sweep \in 1 .. Len(locos) /\ Len(removed) < MaxLocos
  BY <1>1, StateEngineAssumption
<1>3. locos[sweep] \in Entry
  BY <1>2 DEF IInv, TypeOK
<1>4. locos[sweep].addr \in ValidAddr
  BY <1>3 DEF Entry
<1>5. /\ removed' = Append(removed, locos[sweep].addr)
      /\ locos' = Without(sweep)
      /\ sweep' = sweep - 1
  BY <1>2 DEF ExpungeStep, ReportRoom
<1>6. sweep \in Indices
  BY <1>2 DEF Indices
<1> QED
  BY <1>1, <1>2, <1>4, <1>5, <1>6, WithoutType DEF IInv

(* One round of its loop keeps or removes the entry at the index. *)
LEMMA ExpungeStepIInv ==
    ASSUME IInv, ExpungeStep
    PROVE  IInv'
<1>1. CASE Stale(locos[sweep])
  <2> DEFINE a == locos[sweep].addr
  <2>1. /\ sweep \in 1 .. Len(locos) /\ sweep' = sweep - 1
        /\ Len(removed) \in Nat /\ Len(removed) < MaxLocos
        /\ a \in ValidAddr
        /\ removed' = Append(removed, a)
        /\ locos' \in Seq(Entry) /\ Len(locos') = Len(locos) - 1
        /\ \A j \in 1 .. Len(locos) - 1 :
              locos'[j] = IF j < sweep THEN locos[j] ELSE locos[j + 1]
    BY <1>1, ExpungeRemoves
  <2>2. /\ Len(locos) \in Nat /\ Len(locos) <= MaxLocos /\ removed \in Seq(ValidAddr)
        /\ \A j \in 1 .. Len(locos) : locos[j] \in Entry
    BY DEF IInv, TypeOK
  <2>3. /\ removed' \in Seq(ValidAddr) /\ Len(removed') = Len(removed) + 1
        /\ \A j \in 1 .. Len(removed) : removed'[j] = removed[j]
        /\ removed'[Len(removed) + 1] = a
    BY <2>1, <2>2, AppendedType
  <2>4. TypeOK'
    BY <2>1, <2>2, <2>3, StateEngineAssumption DEF TypeOK
  <2>5. UniqueAddresses'
    <3> SUFFICES ASSUME NEW i \in 1 .. Len(locos'), NEW j \in 1 .. Len(locos'),
                        locos'[i].addr = locos'[j].addr
                 PROVE  i = j
      BY DEF UniqueAddresses, Indices
    <3> DEFINE From(k) == IF k < sweep THEN k ELSE k + 1
    <3>1. /\ locos'[i] = locos[From(i)] /\ From(i) \in 1 .. Len(locos)
          /\ locos'[j] = locos[From(j)] /\ From(j) \in 1 .. Len(locos)
      BY <2>1, <2>2
    <3>2. From(i) = From(j)
      BY <3>1 DEF IInv, UniqueAddresses, Indices
    <3> QED
      BY <2>1, <3>2
  <2>6. SweptPartIsFresh'
    <3> SUFFICES ASSUME sweep' > 0, NEW i \in 1 .. Len(locos'), i > sweep'
                 PROVE  locos'[i].age <= Timeout
      BY DEF SweptPartIsFresh, Indices
    <3>1. i + 1 \in 1 .. Len(locos) /\ i + 1 > sweep /\ locos'[i] = locos[i + 1]
      BY <2>1, <2>2
    <3> QED
      BY <2>1, <3>1 DEF IInv, SweptPartIsFresh, Indices
  <2>7. ASSUME NEW j \in 1 .. Len(locos') PROVE locos'[j].addr # a
    <3> DEFINE k == IF j < sweep THEN j ELSE j + 1
    <3>1. k \in 1 .. Len(locos) /\ k # sweep /\ locos'[j] = locos[k]
      BY <2>1, <2>2
    <3>2. UniqueAddresses /\ sweep \in Indices
      BY <2>1 DEF IInv, Indices
    <3> QED
      BY <3>1, <3>2 DEF UniqueAddresses, Indices
  <2>8. \A j \in 1 .. Len(removed) : \A i \in 1 .. Len(locos) : removed[j] # locos[i].addr
    BY <2>1, <2>2 DEF IInv, ReportedOnce, AddrsInTable, Indices
  <2>9. \A j \in 1 .. Len(locos') : \E i \in 1 .. Len(locos) : locos'[j] = locos[i]
    BY <2>1, <2>2
  <2>10. \A j \in 1 .. Len(removed') : j \in 1 .. Len(removed) \/ j = Len(removed) + 1
    BY <2>1, <2>3
  <2>11. \A i, j \in 1 .. Len(removed') : removed'[i] = removed'[j] => i = j
    BY SMTT(30), <2>1, <2>3, <2>8, <2>10 DEF IInv, ReportedOnce
  <2>12. \A j \in 1 .. Len(removed'), i \in 1 .. Len(locos') : removed'[j] # locos'[i].addr
    BY <2>3, <2>7, <2>8, <2>9, <2>10
  <2>13. ReportedOnce'
    BY <2>11, <2>12 DEF ReportedOnce, AddrsInTable, Indices
  <2>14. RoomToReport'
    BY <2>1, <2>2, <2>3, StateEngineAssumption DEF IInv, RoomToReport
  <2> QED
    BY <2>4, <2>5, <2>6, <2>13, <2>14 DEF IInv
<1>2. CASE ~Stale(locos[sweep])
  <2>1. sweep > 0 /\ sweep' = sweep - 1 /\ locos' = locos /\ removed' = removed
    BY <1>2 DEF ExpungeStep
  <2>2. sweep \in 1 .. Len(locos) /\ Len(locos) \in Nat /\ locos[sweep].age \in Nat
    <3>1. sweep \in 1 .. Len(locos) /\ Len(locos) \in Nat /\ locos[sweep] \in Entry
      BY <2>1 DEF IInv, TypeOK
    <3> QED
      BY <3>1, StateEngineAssumption DEF Entry, Ages, MaxAge
  <2>3. locos[sweep].age <= Timeout
    BY <1>2, <2>2, StateEngineAssumption DEF Stale
  <2>4. TypeOK' /\ UniqueAddresses' /\ RoomToReport'
    BY <2>1, <2>2 DEF IInv, TypeOK, UniqueAddresses, RoomToReport, Indices
  <2>5. ReportedOnce'
    BY <2>1, <2>2 DEF IInv, ReportedOnce, AddrsInTable, Indices
  <2>6. SweptPartIsFresh'
    BY <2>1, <2>2, <2>3 DEF IInv, SweptPartIsFresh, Indices
  <2> QED
    BY <2>4, <2>5, <2>6 DEF IInv
<1> QED
  BY <1>1, <1>2

(* Time passes for every entry, between sweeps only. *)
LEMMA TickIInv ==
    ASSUME IInv, Tick
    PROVE  IInv'
<1> DEFINE Older(e) == [e EXCEPT !.age = IF @ < MaxAge THEN @ + 1 ELSE @]
<1>1. /\ sweep = 0 /\ sweep' = 0 /\ removed' = removed
      /\ locos' = [i \in 1 .. Len(locos) |-> Older(locos[i])]
  BY DEF Tick, Indices
<1>2. locos \in Seq(Entry) /\ Len(locos) \in Nat
  BY DEF IInv, TypeOK
<1>3. \A e \in Entry : Older(e) \in Entry /\ Older(e).addr = e.addr
  BY StateEngineAssumption DEF Entry, Ages, MaxAge
<1>4. \A i \in 1 .. Len(locos) : locos[i] \in Entry
  BY <1>2
<1> HIDE DEF Older
<1>5. locos' \in [1 .. Len(locos) -> Entry]
  BY <1>1, <1>3, <1>4
<1>6. locos' \in Seq(Entry) /\ Len(locos') = Len(locos)
  BY <1>2, <1>5
<1>7. \A j \in 1 .. Len(locos) : locos'[j].addr = locos[j].addr
  BY <1>1, <1>3, <1>4
<1>8. TypeOK'
  BY <1>1, <1>6 DEF IInv, TypeOK
<1>9. UniqueAddresses'
  BY <1>6, <1>7 DEF IInv, UniqueAddresses, Indices
<1>10. SweptPartIsFresh' /\ RoomToReport' /\ ReportedOnce'
  BY <1>1 DEF SweptPartIsFresh, RoomToReport, IInv, ReportedOnce
<1> QED
  BY <1>8, <1>9, <1>10 DEF IInv

(* Every step keeps the inductive invariant. *)
LEMMA NextIInv == IInv /\ [Next]_vars => IInv'
<1> SUFFICES ASSUME IInv, [Next]_vars
             PROVE  IInv'
  OBVIOUS
<1>1. CASE \E a \in Addr, v \in Values : UpdateLoco(a, v)
  BY <1>1, UpdateLocoIInv
<1>2. CASE \E a \in Addr, v \in Values : AddLoco(a, v)
  BY <1>2, AddLocoIInv
<1>3. CASE \E i \in Indices, v \in Values : WriteByIndex(i, v)
  BY <1>3, WriteByIndexIInv
<1>4. CASE \E a \in Addr : RemoveLocoByAddress(a)
  BY <1>4, RemoveLocoByAddressIInv
<1>5. CASE Clear
  BY <1>5, ClearIInv
<1>6. CASE StartExpunge
  BY <1>6, StartExpungeIInv
<1>7. CASE ExpungeStep
  BY <1>7, ExpungeStepIInv
<1>8. CASE Tick
  BY <1>8, TickIInv
<1>9. CASE UNCHANGED vars
  BY <1>9 DEF vars, IInv, TypeOK, UniqueAddresses, SweptPartIsFresh,
              ReportedOnce, RoomToReport, Indices, AddrsInTable
<1> QED
  BY <1>1, <1>2, <1>3, <1>4, <1>5, <1>6, <1>7, <1>8, <1>9 DEF Next

(* The inductive invariant holds in every behaviour of the table. *)
THEOREM Inductive == Spec => []IInv
<1>1. Init => IInv
  BY InitIInv
<1>2. IInv /\ [Next]_vars => IInv'
  BY NextIInv
<1> QED
  BY <1>1, <1>2, PTL DEF Spec

-----------------------------------------------------------------------------
(* The table stays well formed: at most MAX_LOCOS entries with valid       *)
(* addresses, a sweep index inside it.                                     *)
THEOREM TypeCorrect == Spec => []TypeOK
<1>1. IInv => TypeOK
  BY DEF IInv
<1> QED
  BY <1>1, Inductive, PTL

(* findLoco() can find every entry: no address is stored twice.            *)
THEOREM AddressesUnique == Spec => []UniqueAddresses
<1>1. IInv => UniqueAddresses
  BY DEF IInv
<1> QED
  BY <1>1, Inductive, PTL

(* Removing while walking backwards skips no entry.                        *)
THEOREM SweepMissesNobody == Spec => []SweptPartIsFresh
<1>1. IInv => SweptPartIsFresh
  BY DEF IInv
<1> QED
  BY <1>1, Inductive, PTL

(* removed_out names each forgotten loco once.                             *)
THEOREM RemovalsReportedOnce == Spec => []ReportedOnce
<1>1. IInv => ReportedOnce
  BY DEF IInv
<1> QED
  BY <1>1, Inductive, PTL

-----------------------------------------------------------------------------
(* What a sweep drops was stale, and removed_out had room to say so.       *)
DropIsReported ==
    \A i \in Indices :
        (sweep > 0 /\ locos[i].addr \notin AddrsInTable')
            => /\ locos[i].age > Timeout
               /\ removed' = Append(removed, locos[i].addr)

(* A sweep drops stale entries only, and reports each. *)
LEMMA StepReports == IInv /\ [Next]_vars => [DropIsReported]_vars
<1> SUFFICES ASSUME IInv, Next, NEW i \in Indices, sweep > 0,
                    locos[i].addr \notin AddrsInTable'
             PROVE  /\ locos[i].age > Timeout
                    /\ removed' = Append(removed, locos[i].addr)
  BY DEF DropIsReported
<1>1. ExpungeStep
  <2>1. sweep # 0
    BY DEF IInv, TypeOK
  <2> QED
    BY <2>1, Zenon
    DEF Next, UpdateLoco, AddLoco, WriteByIndex, RemoveLocoByAddress,
        Clear, StartExpunge, Tick
<1>2. Stale(locos[sweep])
  BY <1>1 DEF ExpungeStep, AddrsInTable, Indices
<1>3. /\ sweep \in 1 .. Len(locos)
      /\ removed' = Append(removed, locos[sweep].addr)
      /\ Len(locos') = Len(locos) - 1
      /\ \A j \in 1 .. Len(locos) - 1 :
            locos'[j] = IF j < sweep THEN locos[j] ELSE locos[j + 1]
  BY <1>1, <1>2, ExpungeRemoves
<1>4. i = sweep
  <2>1. Len(locos) \in Nat /\ i \in 1 .. Len(locos)
    BY DEF IInv, TypeOK, Indices
  <2>2. i < sweep => i \in 1 .. Len(locos') /\ locos'[i] = locos[i]
    BY <1>3, <2>1
  <2>3. i > sweep => i - 1 \in 1 .. Len(locos') /\ locos'[i - 1] = locos[i]
    BY <1>3, <2>1
  <2> QED
    BY <1>3, <2>1, <2>2, <2>3 DEF AddrsInTable, Indices
<1> QED
  BY <1>2, <1>3, <1>4 DEF Stale

(* Every loco a sweep forgets is handed to the router, which releases its  *)
(* Ecos subscription: removed_out never runs out of places.                *)
THEOREM NoSilentExpiry == Spec => ExpiryIsReported
<1>1. IInv /\ [Next]_vars => [DropIsReported]_vars
  BY StepReports
<1>2. Spec => [][DropIsReported]_vars
  BY <1>1, Inductive, PTL DEF Spec
<1> QED
  BY <1>2 DEF ExpiryIsReported, DropIsReported

-----------------------------------------------------------------------------
(* Whatever an operation moves, the entries stay in order of first use.    *)
InOrder ==
    \A i, j \in Indices, k, l \in 1 .. Len(locos') :
        (i < j /\ locos'[k].addr = locos[i].addr /\ locos'[l].addr = locos[j].addr)
            => k < l

(* Entries rewritten in place stay in order. *)
LEMMA SameAddressesInOrder ==
    ASSUME IInv, Len(locos') = Len(locos),
           \A i \in Indices : locos'[i].addr = locos[i].addr
    PROVE  InOrder
  BY DEF InOrder, IInv, UniqueAddresses, Indices

(* Closing a gap moves entries but never past each other. *)
LEMMA WithoutInOrder ==
    ASSUME IInv, NEW r \in Indices, locos' = Without(r)
    PROVE  InOrder
<1>1. /\ Len(locos) \in Nat /\ Len(locos') = Len(locos) - 1
      /\ \A j \in 1 .. Len(locos) - 1 :
            locos'[j] = IF j < r THEN locos[j] ELSE locos[j + 1]
  BY WithoutType DEF IInv, TypeOK
<1> SUFFICES ASSUME NEW i \in Indices, NEW j \in Indices,
                    NEW k \in 1 .. Len(locos'), NEW l \in 1 .. Len(locos'), i < j,
                    locos'[k].addr = locos[i].addr, locos'[l].addr = locos[j].addr
             PROVE  k < l
  BY DEF InOrder
<1> DEFINE From(n) == IF n < r THEN n ELSE n + 1
<1>2. /\ locos'[k] = locos[From(k)] /\ From(k) \in Indices
      /\ locos'[l] = locos[From(l)] /\ From(l) \in Indices
  BY <1>1 DEF Indices
<1>3. From(k) = i /\ From(l) = j
  BY <1>2 DEF IInv, UniqueAddresses
<1> QED
  BY <1>1, <1>3 DEF Indices

(* No operation reorders the entries that stay. *)
LEMMA StepKeepsOrder == IInv /\ [Next]_vars => [InOrder]_vars
<1> SUFFICES ASSUME IInv, Next
             PROVE  InOrder
  OBVIOUS
<1>0. /\ locos \in Seq(Entry) /\ Len(locos) \in Nat
      /\ \A i \in Indices : locos[i] \in Entry
  BY DEF IInv, TypeOK, Indices
<1>1. CASE \E a \in Addr, v \in Values : UpdateLoco(a, v)
  <2>1. PICK a \in Addr, v \in Values, i \in Indices :
           /\ locos[i].addr = a
           /\ locos' = [locos EXCEPT ![i] = [addr |-> a, val |-> v, age |-> 0]]
    BY <1>1 DEF UpdateLoco
  <2>2. Len(locos') = Len(locos) /\ \A j \in Indices : locos'[j].addr = locos[j].addr
    BY <1>0, <2>1 DEF Indices
  <2> QED
    BY <2>2, SameAddressesInOrder
<1>2. CASE \E a \in Addr, v \in Values : AddLoco(a, v)
  <2>1. PICK a \in Addr, v \in Values : AddLoco(a, v)
    BY <1>2
  <2> DEFINE e == [addr |-> a, val |-> v, age |-> 0]
  <2>2. e \in Entry
    BY <2>1, StateEngineAssumption DEF AddLoco, Entry, Ages, MaxAge
  <2>3. /\ Len(locos') = Len(locos) + 1
        /\ \A j \in 1 .. Len(locos) : locos'[j] = locos[j]
        /\ locos'[Len(locos) + 1] = e
    BY <1>0, <2>1, <2>2, AppendedType DEF AddLoco
  <2>4. \A j \in Indices : locos[j].addr # e.addr
    BY <2>1 DEF AddLoco, Holds
  <2> HIDE DEF e
  <2>5. \A k \in 1 .. Len(locos') : k \in Indices \/ k = Len(locos) + 1
    BY <1>0, <2>3 DEF Indices
  <2> QED
    BY <2>3, <2>4, <2>5 DEF InOrder, IInv, UniqueAddresses, Indices
<1>3. CASE \E i \in Indices, v \in Values : WriteByIndex(i, v)
  <2>1. PICK i \in Indices, v \in Values :
           locos' = [locos EXCEPT ![i] = [locos[i] EXCEPT !.val = v]]
    BY <1>3 DEF WriteByIndex
  <2>2. Len(locos') = Len(locos) /\ \A j \in Indices : locos'[j].addr = locos[j].addr
    BY <1>0, <2>1 DEF Indices, Entry
  <2> QED
    BY <2>2, SameAddressesInOrder
<1>4. CASE \E a \in Addr : RemoveLocoByAddress(a)
  BY <1>4, WithoutInOrder DEF RemoveLocoByAddress
<1>5. CASE Clear
  BY <1>5 DEF Clear, InOrder
<1>6. CASE StartExpunge
  BY <1>6, SameAddressesInOrder DEF StartExpunge
<1>7. CASE ExpungeStep
  <2>1. CASE locos' = locos
    BY <2>1, SameAddressesInOrder
  <2>2. CASE locos' = Without(sweep)
    <3>1. sweep \in Indices
      BY <1>7 DEF ExpungeStep, IInv, TypeOK, Indices
    <3> QED
      BY <2>2, <3>1, WithoutInOrder
  <2> QED
    BY <1>7, <2>1, <2>2 DEF ExpungeStep
<1>8. CASE Tick
  <2> DEFINE Older(e) == [e EXCEPT !.age = IF @ < MaxAge THEN @ + 1 ELSE @]
  <2>1. locos' = [i \in 1 .. Len(locos) |-> Older(locos[i])]
    BY <1>8 DEF Tick, Indices
  <2>2. \A e \in Entry : Older(e).addr = e.addr
    BY DEF Entry
  <2> HIDE DEF Older
  <2>3. Len(locos') = Len(locos) /\ \A j \in Indices : locos'[j].addr = locos[j].addr
    BY <1>0, <2>1, <2>2 DEF Indices
  <2> QED
    BY <2>3, SameAddressesInOrder
<1> QED
  BY <1>1, <1>2, <1>3, <1>4, <1>5, <1>6, <1>7, <1>8 DEF Next

(* Survivors of any operation keep their relative order, so an index that  *)
(* walks the table (resubscription, display) never goes past one of them   *)
(* because two of them changed places.                                     *)
THEOREM OrderPreserved == Spec => OrderIsKept
<1>1. IInv /\ [Next]_vars => [InOrder]_vars
  BY StepKeepsOrder
<1>2. Spec => [][InOrder]_vars
  BY <1>1, Inductive, PTL DEF Spec
<1> QED
  BY <1>2 DEF OrderIsKept, InOrder

-----------------------------------------------------------------------------
(***************************************************************************)
(* The array of StateEngine implements the bounded map of LocoRegister,    *)
(* step by step, for any number of places, addresses and values: the       *)
(* refinement that StateEngine.cfg checks on three places.                 *)
(***************************************************************************)

\* The refinement mapping, of any table: what findLoco() finds in it.
Found(s, a) == \E i \in 1 .. Len(s) : s[i].addr = a
Where(s, a) == CHOOSE i \in 1 .. Len(s) : s[i].addr = a
RegOf(s) == [a \in ValidAddr |-> IF Found(s, a) THEN s[Where(s, a)].val ELSE None]
IdleOf(s) == [a \in ValidAddr |-> IF Found(s, a) THEN s[Where(s, a)].age ELSE 0]
Names(r) == {r[i] : i \in 1 .. Len(r)}
Unambiguous(s) == \A i, j \in 1 .. Len(s) : s[i].addr = s[j].addr => i = j

\* The map r and the ages d say what is in the table s.
ReadsAs(s, r, d) ==
    /\ r \in [ValidAddr -> Values \cup {None}] /\ d \in [ValidAddr -> Nat]
    /\ \A i \in 1 .. Len(s) : s[i] \in Entry /\ r[s[i].addr] = s[i].val /\ d[s[i].addr] = s[i].age
    /\ \A a \in ValidAddr : \/ \E i \in 1 .. Len(s) : s[i].addr = a
                            \/ r[a] = None /\ d[a] = 0

(* In a table with one entry per address, every entry is the one that is   *)
(* found, so the map says of its address what the entry holds.             *)
LEMMA TableAsMap ==
    ASSUME NEW s \in Seq(Entry), Unambiguous(s)
    PROVE  ReadsAs(s, RegOf(s), IdleOf(s))
<1>1. \A i \in 1 .. Len(s) : s[i] \in Entry
  OBVIOUS
<1>2. \A a \in ValidAddr : Found(s, a) => Where(s, a) \in 1 .. Len(s) /\ s[Where(s, a)].addr = a
  BY DEF Found, Where
<1>3. \A i \in 1 .. Len(s) : s[i].addr \in ValidAddr /\ Found(s, s[i].addr)
  BY <1>1 DEF Found, Entry
<1>4. \A i \in 1 .. Len(s) : Where(s, s[i].addr) = i
  BY <1>2, <1>3 DEF Unambiguous
<1>5. \A e \in Entry : e.val \in Values /\ e.age \in Nat
  BY StateEngineAssumption DEF Entry, Ages, MaxAge
<1>6. RegOf(s) \in [ValidAddr -> Values \cup {None}] /\ IdleOf(s) \in [ValidAddr -> Nat]
  BY <1>1, <1>2, <1>5 DEF RegOf, IdleOf
<1>7. \A i \in 1 .. Len(s) : RegOf(s)[s[i].addr] = s[i].val /\ IdleOf(s)[s[i].addr] = s[i].age
  BY <1>3, <1>4 DEF RegOf, IdleOf
<1>8. \A a \in ValidAddr : ~Found(s, a) => RegOf(s)[a] = None /\ IdleOf(s)[a] = 0
  BY DEF RegOf, IdleOf
<1>. QED BY <1>1, <1>6, <1>7, <1>8 DEF Found, ReadsAs

\* The addresses of a table are no more than its entries.
LEMMA AddressesCounted ==
    ASSUME NEW s \in Seq(Entry), Unambiguous(s)
    PROVE  /\ Cardinality({a \in ValidAddr : RegOf(s)[a] # None}) \in Nat
           /\ Cardinality({a \in ValidAddr : RegOf(s)[a] # None}) <= Len(s)
<1> DEFINE T == {a \in ValidAddr : RegOf(s)[a] # None}
           f == [i \in 1 .. Len(s) |-> s[i].addr]
<1>1. Len(s) \in Nat
  OBVIOUS
<1>2. IsFiniteSet(1 .. Len(s)) /\ Cardinality(1 .. Len(s)) = Len(s)
  <2>1. /\ IsFiniteSet(1 .. Len(s))
        /\ Cardinality(1 .. Len(s)) = IF 1 > Len(s) THEN 0 ELSE Len(s) - 1 + 1
    BY SMTT(30), <1>1, FS_Interval
  <2>. QED BY <1>1, <2>1
<1>3. \A i \in 1 .. Len(s) : s[i].addr \in T
  <2>1. \A e \in Entry : e.addr \in ValidAddr /\ e.val # None
    BY NoneAssumption DEF Entry
  <2>2. \A i \in 1 .. Len(s) : s[i] \in Entry /\ RegOf(s)[s[i].addr] = s[i].val
    BY TableAsMap DEF ReadsAs
  <2>. QED BY <2>1, <2>2
<1>4. f \in Surjection(1 .. Len(s), T)
  <2>1. f \in [1 .. Len(s) -> T]
    BY <1>3
  <2>2. \A a \in T : \E i \in 1 .. Len(s) : f[i] = a
    BY TableAsMap DEF ReadsAs
  <2>. QED BY <2>1, <2>2 DEF Surjection
<1>5. IsFiniteSet(T) /\ Cardinality(T) <= Cardinality(1 .. Len(s))
  BY <1>2, <1>4, FS_Surjection
<1>. QED BY <1>2, <1>5, FS_CardinalityType

-----------------------------------------------------------------------------
(* The mapping of MCStateEngine, in these terms, in a state and in the next. *)
Reg == RegOf(locos)
IdleTime == IdleOf(locos)
Gone == Names(removed)

LEMMA Abstracted ==
    /\ Register!regVars = <<Reg, IdleTime, Gone>>
    /\ Register!regVars' = <<Reg', IdleTime', Gone'>>
    /\ Register!Tracked = {a \in ValidAddr : Reg[a] # None}
<1>. USE DEF Holds, At, Indices, Found, Where, Reg, IdleTime, Gone, RegOf, IdleOf, Names
<1>1. Register!regVars = <<Reg, IdleTime, Gone>>
  BY DEF Register!regVars
<1>2. Register!regVars' = <<Reg', IdleTime', Gone'>>
  BY DEF Register!regVars
<1>3. Register!Tracked = {a \in ValidAddr : Reg[a] # None}
  BY DEF Register!Tracked
<1>. QED BY <1>1, <1>2, <1>3

LEMMA PutsAre ==
    ASSUME NEW a \in ValidAddr, NEW v \in Values
    PROVE  /\ Register!Put(a, v) <=>
                /\ Reg[a] # None \/ Cardinality({b \in ValidAddr : Reg[b] # None}) < MaxLocos
                /\ Reg' = [Reg EXCEPT ![a] = v] /\ IdleTime' = [IdleTime EXCEPT ![a] = 0]
                /\ Gone' = Gone
           /\ Register!Overwrite(a, v) <=>
                /\ Reg[a] # None /\ Reg' = [Reg EXCEPT ![a] = v]
                /\ IdleTime' = IdleTime /\ Gone' = Gone
<1>1. Register!Put(a, v) <=>
                /\ a \in Register!Tracked \/ Cardinality(Register!Tracked) < MaxLocos
                /\ Reg' = [Reg EXCEPT ![a] = v] /\ IdleTime' = [IdleTime EXCEPT ![a] = 0]
                /\ Gone' = Gone
  BY DEF Register!Put, Holds, At, Indices, Found, Where, Reg, IdleTime, Gone, RegOf, IdleOf, Names,
         Cardinality, Register!Cardinality
<1>2. Register!Overwrite(a, v) <=>
                /\ a \in Register!Tracked /\ Reg' = [Reg EXCEPT ![a] = v]
                /\ IdleTime' = IdleTime /\ Gone' = Gone
  BY DEF Register!Overwrite, Holds, At, Indices, Found, Where, Reg, IdleTime, Gone, RegOf, IdleOf, Names
<1>. QED BY <1>1, <1>2, Abstracted

LEMMA DropsAre ==
    ASSUME NEW S \in SUBSET ValidAddr
    PROVE  Register!Drop(S) <=>
             /\ Reg' = [b \in ValidAddr |-> IF b \in S THEN None ELSE Reg[b]]
             /\ IdleTime' = [b \in ValidAddr |-> IF b \in S THEN 0 ELSE IdleTime[b]]
BY DEF Register!Drop, Holds, At, Indices, Found, Where, Reg, IdleTime, RegOf, IdleOf

LEMMA TakingsAre ==
    ASSUME NEW a \in ValidAddr
    PROVE  /\ Register!Forget(a) <=>
                /\ Reg[a] # None /\ IdleTime[a] > Timeout
                /\ Register!Drop({a}) /\ Gone' = Gone \cup {a}
           /\ Register!Remove(a) <=> Reg[a] # None /\ Register!Drop({a}) /\ Gone' = Gone
<1>1. Register!Forget(a) <=>
                /\ a \in Register!Tracked /\ IdleTime[a] > Timeout
                /\ Register!Drop({a}) /\ Gone' = Gone \cup {a}
  BY DEF Register!Forget, Holds, At, Indices, Found, Where, IdleTime, Gone, IdleOf, Names
<1>2. Register!Remove(a) <=> a \in Register!Tracked /\ Register!Drop({a}) /\ Gone' = Gone
  BY DEF Register!Remove, Gone, Names
<1>. QED BY <1>1, <1>2, Abstracted

LEMMA RoundsAre ==
    /\ Register!StartRound <=> Gone' = {} /\ Reg' = Reg /\ IdleTime' = IdleTime
    /\ Register!RemoveAll <=> Register!Drop(ValidAddr) /\ Gone' = Gone
    /\ Register!Pass <=>
         /\ IdleTime' = [b \in ValidAddr |-> IF Reg[b] # None /\ IdleTime[b] <= Timeout
                                             THEN IdleTime[b] + 1 ELSE IdleTime[b]]
         /\ Reg' = Reg /\ Gone' = Gone
<1>1. Register!StartRound <=> Gone' = {} /\ Reg' = Reg /\ IdleTime' = IdleTime
  BY DEF Register!StartRound, Holds, At, Indices, Found, Where, Reg, IdleTime, Gone, RegOf, IdleOf, Names
<1>2. Register!RemoveAll <=> Register!Drop(ValidAddr) /\ Gone' = Gone
  BY DEF Register!RemoveAll, Gone, Names
<1>3. Register!Pass <=>
         /\ IdleTime' = [b \in ValidAddr |-> IF b \in Register!Tracked /\ IdleTime[b] <= Timeout
                                             THEN IdleTime[b] + 1 ELSE IdleTime[b]]
         /\ Reg' = Reg /\ Gone' = Gone
  BY DEF Register!Pass, Holds, At, Indices, Found, Where, Reg, IdleTime, Gone, RegOf, IdleOf, Names
<1>4. \A b \in ValidAddr : b \in Register!Tracked <=> Reg[b] # None
  BY Abstracted
<1>. QED BY <1>1, <1>2, <1>3, <1>4

-----------------------------------------------------------------------------
(* One lemma per operation: the array changes as the map does.             *)
LEMMA Tables ==
    ASSUME IInv
    PROVE  locos \in Seq(Entry) /\ Unambiguous(locos) /\ Len(locos) \in Nat
BY DEF IInv, TypeOK, UniqueAddresses, Unambiguous, Indices

LEMMA TablesNext ==
    ASSUME IInv'
    PROVE  locos' \in Seq(Entry) /\ Unambiguous(locos') /\ Len(locos') \in Nat
BY DEF IInv, TypeOK, UniqueAddresses, Unambiguous, Indices

\* What an entry says is its address's entry in the map, and not None.
LEMMA EntryRead ==
    ASSUME NEW s \in Seq(Entry), Unambiguous(s), NEW i \in 1 .. Len(s)
    PROVE  /\ s[i].addr \in ValidAddr /\ s[i].val \in Values /\ s[i].age \in Nat
           /\ RegOf(s)[s[i].addr] = s[i].val /\ IdleOf(s)[s[i].addr] = s[i].age
           /\ RegOf(s)[s[i].addr] # None
<1>1. s[i] \in Entry /\ RegOf(s)[s[i].addr] = s[i].val /\ IdleOf(s)[s[i].addr] = s[i].age
  BY TableAsMap DEF ReadsAs
<1>2. \A e \in Entry : e.addr \in ValidAddr /\ e.val \in Values /\ e.age \in Nat
  BY StateEngineAssumption DEF Entry, Ages, MaxAge
<1>. QED BY <1>1, <1>2, NoneAssumption

\* Where two tables have the same entry for an address, or none, so do their maps.
LEMMA SameThere ==
    ASSUME NEW s \in Seq(Entry), NEW t \in Seq(Entry), Unambiguous(s), Unambiguous(t),
           NEW b \in ValidAddr,
           \/ \E i \in 1 .. Len(s), j \in 1 .. Len(t) : s[i].addr = b /\ t[j] = s[i]
           \/ /\ \A i \in 1 .. Len(s) : s[i].addr # b
              /\ \A j \in 1 .. Len(t) : t[j].addr # b
    PROVE  RegOf(t)[b] = RegOf(s)[b] /\ IdleOf(t)[b] = IdleOf(s)[b]
<1>1. ReadsAs(s, RegOf(s), IdleOf(s)) /\ ReadsAs(t, RegOf(t), IdleOf(t))
  BY TableAsMap
<1>2. ASSUME NEW i \in 1 .. Len(s), NEW j \in 1 .. Len(t), s[i].addr = b, t[j] = s[i]
      PROVE  RegOf(t)[b] = RegOf(s)[b] /\ IdleOf(t)[b] = IdleOf(s)[b]
  BY ZenonT(40), <1>1, <1>2 DEF ReadsAs
<1>3. CASE /\ \A i \in 1 .. Len(s) : s[i].addr # b
           /\ \A j \in 1 .. Len(t) : t[j].addr # b
  BY <1>1, <1>3 DEF ReadsAs
<1>. QED BY <1>2, <1>3

LEMMA MapTypes ==
    ASSUME NEW s \in Seq(Entry), Unambiguous(s)
    PROVE  RegOf(s) \in [ValidAddr -> Values \cup {None}] /\ IdleOf(s) \in [ValidAddr -> Nat]
BY TableAsMap DEF ReadsAs

\* Writing to one entry in place changes one address of the map.
LEMMA EntryChanged ==
    ASSUME NEW s \in Seq(Entry), NEW t \in Seq(Entry), Unambiguous(s), Unambiguous(t),
           NEW i \in 1 .. Len(s), Len(t) = Len(s), t[i].addr = s[i].addr,
           \A j \in 1 .. Len(s) : j # i => t[j] = s[j]
    PROVE  /\ RegOf(t) = [RegOf(s) EXCEPT ![s[i].addr] = t[i].val]
           /\ IdleOf(t) = [IdleOf(s) EXCEPT ![s[i].addr] = t[i].age]
<1> DEFINE a == s[i].addr
<1>1. RegOf(t)[a] = t[i].val /\ IdleOf(t)[a] = t[i].age
  BY EntryRead
<1>2. ASSUME NEW b \in ValidAddr, b # a
      PROVE  RegOf(t)[b] = RegOf(s)[b] /\ IdleOf(t)[b] = IdleOf(s)[b]
  <2>1. CASE \E j \in 1 .. Len(s) : s[j].addr = b
    BY <1>2, <2>1, SameThere
  <2>2. CASE \A j \in 1 .. Len(s) : s[j].addr # b
    <3>1. \A j \in 1 .. Len(t) : t[j].addr # b
      BY <1>2, <2>2
    <3>. QED BY <2>2, <3>1, SameThere
  <2>. QED BY <2>1, <2>2
<1>3. a \in ValidAddr
  BY EntryRead
<1> HIDE DEF a
<1>4. /\ RegOf(s) \in [ValidAddr -> Values \cup {None}] /\ IdleOf(s) \in [ValidAddr -> Nat]
      /\ RegOf(t) \in [ValidAddr -> Values \cup {None}] /\ IdleOf(t) \in [ValidAddr -> Nat]
  BY MapTypes
<1>5. /\ RegOf(t) = [RegOf(s) EXCEPT ![a] = t[i].val]
      /\ IdleOf(t) = [IdleOf(s) EXCEPT ![a] = t[i].age]
  BY <1>1, <1>2, <1>3, <1>4
<1>. QED BY <1>5 DEF a

\* Taking one entry out forgets one address.
LEMMA EntryRemoved ==
    ASSUME NEW s \in Seq(Entry), NEW t \in Seq(Entry), Unambiguous(s), Unambiguous(t),
           NEW i \in 1 .. Len(s), Len(t) = Len(s) - 1,
           \A j \in 1 .. Len(t) : (j < i => t[j] = s[j]) /\ (j >= i => t[j] = s[j + 1])
    PROVE  \A b \in ValidAddr : /\ RegOf(t)[b] = (IF b = s[i].addr THEN None ELSE RegOf(s)[b])
                                /\ IdleOf(t)[b] = (IF b = s[i].addr THEN 0 ELSE IdleOf(s)[b])
<1> DEFINE a == s[i].addr
<1>1. Len(s) \in Nat
  OBVIOUS
<1>2. \A j \in 1 .. Len(t) : \E k \in 1 .. Len(s) : k # i /\ t[j] = s[k]
  <2>1. ASSUME NEW j \in 1 .. Len(t) PROVE \E k \in 1 .. Len(s) : k # i /\ t[j] = s[k]
    <3>1. CASE j < i
      BY <1>1, <2>1, <3>1
    <3>2. CASE j >= i
      <4>1. j + 1 \in 1 .. Len(s) /\ j + 1 # i /\ t[j] = s[j + 1]
        BY <1>1, <2>1, <3>2
      <4>. QED BY <4>1
    <3>. QED BY <1>1, <3>1, <3>2
  <2>. QED BY <2>1
<1>3. \A k \in 1 .. Len(s) : k # i => \E j \in 1 .. Len(t) : t[j] = s[k]
  <2>1. ASSUME NEW k \in 1 .. Len(s), k # i PROVE \E j \in 1 .. Len(t) : t[j] = s[k]
    <3>1. CASE k < i
      BY <1>1, <2>1, <3>1
    <3>2. CASE k > i
      <4>1. k - 1 \in 1 .. Len(t) /\ t[k - 1] = s[k]
        BY <1>1, <2>1, <3>2
      <4>. QED BY <4>1
    <3>. QED BY <1>1, <2>1, <3>1, <3>2
  <2>. QED BY <2>1
<1>4. \A j \in 1 .. Len(t) : t[j].addr # a
  BY <1>2 DEF Unambiguous
<1>5. RegOf(t)[a] = None /\ IdleOf(t)[a] = 0 /\ a \in ValidAddr
  BY <1>4, TableAsMap, EntryRead DEF ReadsAs
<1>6. ASSUME NEW b \in ValidAddr, b # a
      PROVE  RegOf(t)[b] = RegOf(s)[b] /\ IdleOf(t)[b] = IdleOf(s)[b]
  <2>1. CASE \E k \in 1 .. Len(s) : s[k].addr = b
    BY <1>3, <1>6, <2>1, SameThere
  <2>2. CASE \A k \in 1 .. Len(s) : s[k].addr # b
    <3>1. \A j \in 1 .. Len(t) : t[j].addr # b
      BY <1>2, <2>2
    <3>. QED BY <2>2, <3>1, SameThere
  <2>. QED BY <2>1, <2>2
<1>. QED BY <1>5, <1>6

-----------------------------------------------------------------------------
(* One lemma per operation: what the array does, the map does.             *)
LEMMA UpdateIsPut ==
    ASSUME IInv, IInv', NEW a \in Addr, NEW v \in Values, UpdateLoco(a, v)
    PROVE  Register!RegNext
<1>1. PICK i \in 1 .. Len(locos) :
         /\ locos[i].addr = a
         /\ locos' = [locos EXCEPT ![i] = [addr |-> a, val |-> v, age |-> 0]]
  BY DEF UpdateLoco, Indices
<1>2. removed' = removed /\ a \in ValidAddr
  BY DEF UpdateLoco
<1>3. /\ Len(locos') = Len(locos) /\ locos'[i] = [addr |-> a, val |-> v, age |-> 0]
      /\ \A j \in 1 .. Len(locos) : j # i => locos'[j] = locos[j]
  BY <1>1, Tables
<1>4. Reg' = [Reg EXCEPT ![a] = v] /\ IdleTime' = [IdleTime EXCEPT ![a] = 0]
  <2>1. locos'[i].addr = locos[i].addr /\ locos'[i].val = v /\ locos'[i].age = 0
    BY <1>1, <1>3
  <2> DEFINE s == locos
             t == locos'
  <2>2. /\ s \in Seq(Entry) /\ t \in Seq(Entry) /\ Unambiguous(s) /\ Unambiguous(t)
        /\ i \in 1 .. Len(s) /\ Len(t) = Len(s) /\ t[i].addr = s[i].addr
        /\ \A j \in 1 .. Len(s) : j # i => t[j] = s[j]
    BY <1>3, <2>1, Tables, TablesNext
  <2> HIDE DEF s, t
  <2>3. /\ RegOf(t) = [RegOf(s) EXCEPT ![s[i].addr] = t[i].val]
        /\ IdleOf(t) = [IdleOf(s) EXCEPT ![s[i].addr] = t[i].age]
    BY <2>2, EntryChanged
  <2>. QED BY <1>1, <2>1, <2>3 DEF Reg, IdleTime, s, t
<1>5. Reg[a] # None /\ Gone' = Gone
  BY <1>1, <1>2, Tables, EntryRead DEF Reg, Gone
<1>6. Register!Put(a, v)
  BY <1>2, <1>4, <1>5, PutsAre
<1>. QED BY <1>2, <1>6 DEF Register!RegNext

LEMMA AddIsPut ==
    ASSUME IInv, IInv', NEW a \in Addr, NEW v \in Values, AddLoco(a, v)
    PROVE  Register!RegNext
<1> DEFINE new == [addr |-> a, val |-> v, age |-> 0]
           n == Len(locos)
<1>1. /\ removed' = removed /\ a \in ValidAddr /\ n < MaxLocos /\ locos' = Append(locos, new)
      /\ \A i \in 1 .. n : locos[i].addr # a
  BY DEF AddLoco, HasRoom, Holds, Indices
<1>2. /\ Len(locos') = n + 1 /\ n \in Nat /\ locos'[n + 1] = new
      /\ \A j \in 1 .. n : locos'[j] = locos[j]
  <2>1. new \in Entry
    BY <1>1, StateEngineAssumption DEF Entry, Ages, MaxAge
  <2>. QED BY <1>1, <2>1, Tables, AppendedType
<1>3. RegOf(locos')[a] = v /\ IdleOf(locos')[a] = 0
  <2>1. n + 1 \in 1 .. Len(locos') /\ new.addr = a /\ new.val = v /\ new.age = 0
    BY <1>2
  <2> HIDE DEF new, n
  <2>. QED BY <1>2, <2>1, TablesNext, EntryRead
<1>4. ASSUME NEW b \in ValidAddr, b # a
      PROVE  RegOf(locos')[b] = RegOf(locos)[b] /\ IdleOf(locos')[b] = IdleOf(locos)[b]
  <2> HIDE DEF n
  <2>1. CASE \E k \in 1 .. n : locos[k].addr = b
    <3>1. PICK k \in 1 .. n : locos[k].addr = b
      BY <2>1
    <3>2. k \in 1 .. Len(locos) /\ k \in 1 .. Len(locos') /\ locos'[k] = locos[k]
      BY <1>2 DEF n
    <3>. QED BY <3>1, <3>2, Tables, TablesNext, SameThere
  <2>2. CASE \A k \in 1 .. n : locos[k].addr # b
    <3>1. \A j \in 1 .. Len(locos') : locos'[j].addr # b
      <4>1. \A j \in 1 .. Len(locos') : j \in 1 .. n \/ j = n + 1
        BY <1>2
      <4>. QED BY <1>2, <1>4, <2>2, <4>1
    <3>. QED BY <2>2, <3>1, Tables, TablesNext, SameThere DEF n
  <2>. QED BY <2>1, <2>2
<1>5. Reg' = [Reg EXCEPT ![a] = v] /\ IdleTime' = [IdleTime EXCEPT ![a] = 0]
  <2>1. /\ RegOf(locos) \in [ValidAddr -> Values \cup {None}] /\ IdleOf(locos) \in [ValidAddr -> Nat]
        /\ RegOf(locos') \in [ValidAddr -> Values \cup {None}] /\ IdleOf(locos') \in [ValidAddr -> Nat]
    BY Tables, TablesNext, MapTypes
  <2>. QED BY <1>1, <1>3, <1>4, <2>1 DEF Reg, IdleTime
<1>6. Cardinality({b \in ValidAddr : Reg[b] # None}) < MaxLocos
  <2>1. /\ Cardinality({b \in ValidAddr : Reg[b] # None}) <= n
        /\ Cardinality({b \in ValidAddr : Reg[b] # None}) \in Nat
    BY Tables, AddressesCounted DEF Reg
  <2>. QED BY <1>1, <1>2, <2>1, StateEngineAssumption
<1>7. Register!Put(a, v)
  BY <1>1, <1>5, <1>6, PutsAre DEF Gone
<1>. QED BY <1>1, <1>7 DEF Register!RegNext

LEMMA WriteIsOverwrite ==
    ASSUME IInv, IInv', NEW i \in Indices, NEW v \in Values, WriteByIndex(i, v)
    PROVE  Register!RegNext
<1> DEFINE a == locos[i].addr
<1>1. /\ removed' = removed /\ locos' = [locos EXCEPT ![i] = [locos[i] EXCEPT !.val = v]]
      /\ i \in 1 .. Len(locos)
  BY DEF WriteByIndex, Indices
<1>2. /\ Len(locos') = Len(locos) /\ locos'[i] = [locos[i] EXCEPT !.val = v]
      /\ \A j \in 1 .. Len(locos) : j # i => locos'[j] = locos[j]
  BY <1>1, Tables
<1>3. locos'[i].addr = a /\ locos'[i].val = v /\ locos'[i].age = locos[i].age
  <2>1. locos[i] \in Entry
    BY <1>1, Tables
  <2>. QED BY <1>2, <2>1 DEF Entry
<1>4. /\ RegOf(locos') = [RegOf(locos) EXCEPT ![a] = v]
      /\ IdleOf(locos') = [IdleOf(locos) EXCEPT ![a] = locos[i].age]
  <2> DEFINE s == locos
             t == locos'
  <2>2. /\ s \in Seq(Entry) /\ t \in Seq(Entry) /\ Unambiguous(s) /\ Unambiguous(t)
        /\ i \in 1 .. Len(s) /\ Len(t) = Len(s) /\ t[i].addr = s[i].addr
        /\ \A j \in 1 .. Len(s) : j # i => t[j] = s[j]
    BY <1>1, <1>2, <1>3, Tables, TablesNext
  <2> HIDE DEF s, t
  <2>3. /\ RegOf(t) = [RegOf(s) EXCEPT ![s[i].addr] = t[i].val]
        /\ IdleOf(t) = [IdleOf(s) EXCEPT ![s[i].addr] = t[i].age]
    BY <2>2, EntryChanged
  <2>. QED BY <1>3, <2>3 DEF s, t
<1>5. a \in ValidAddr /\ RegOf(locos)[a] # None /\ IdleOf(locos)[a] = locos[i].age
  BY <1>1, Tables, EntryRead
<1>6. IdleOf(locos') = IdleOf(locos)
  <2>1. IdleOf(locos) \in [ValidAddr -> Nat]
    BY Tables, MapTypes
  <2>. QED BY <1>4, <1>5, <2>1
<1>7. Register!Overwrite(a, v)
  BY <1>1, <1>4, <1>5, <1>6, PutsAre DEF Reg, IdleTime, Gone
<1>. QED BY <1>5, <1>7 DEF Register!RegNext

\* removeLoco(): what both callers of it do to the map.
LEMMA WithoutForgets ==
    ASSUME IInv, IInv', NEW i \in 1 .. Len(locos), locos' = Without(i), NEW a, a = locos[i].addr
    PROVE  /\ Register!Drop({a}) /\ a \in ValidAddr
           /\ Reg[a] # None /\ IdleTime[a] = locos[i].age
<1> DEFINE s == locos
           t == locos'
<1>1. /\ s \in Seq(Entry) /\ t \in Seq(Entry) /\ Unambiguous(s) /\ Unambiguous(t)
      /\ i \in 1 .. Len(s) /\ Len(t) = Len(s) - 1
      /\ \A j \in 1 .. Len(t) : (j < i => t[j] = s[j]) /\ (j >= i => t[j] = s[j + 1])
  <2>1. /\ s \in Seq(Entry) /\ t \in Seq(Entry) /\ Unambiguous(s) /\ Unambiguous(t)
        /\ i \in 1 .. Len(s) /\ Len(t) = Len(s) - 1 /\ Len(s) \in Nat
        /\ \A j \in 1 .. Len(s) - 1 : t[j] = IF j < i THEN s[j] ELSE s[j + 1]
    BY Tables, TablesNext, WithoutType DEF IInv, Indices
  <2> HIDE DEF s, t
  <2>. QED BY <2>1
<1> HIDE DEF s, t
<1>2. /\ RegOf(t) = [b \in ValidAddr |-> IF b = s[i].addr THEN None ELSE RegOf(s)[b]]
      /\ IdleOf(t) = [b \in ValidAddr |-> IF b = s[i].addr THEN 0 ELSE IdleOf(s)[b]]
  <2>1. \A b \in ValidAddr : /\ RegOf(t)[b] = (IF b = s[i].addr THEN None ELSE RegOf(s)[b])
                              /\ IdleOf(t)[b] = (IF b = s[i].addr THEN 0 ELSE IdleOf(s)[b])
    BY <1>1, EntryRemoved
  <2>2. RegOf(t) \in [ValidAddr -> Values \cup {None}] /\ IdleOf(t) \in [ValidAddr -> Nat]
    BY <1>1, MapTypes
  <2>. QED BY <2>1, <2>2
<1>3. s[i].addr \in ValidAddr /\ RegOf(s)[s[i].addr] # None /\ IdleOf(s)[s[i].addr] = s[i].age
  BY <1>1, EntryRead
<1>4. a = s[i].addr
  BY DEF s
<1>5. /\ Reg' = [b \in ValidAddr |-> IF b \in {a} THEN None ELSE Reg[b]]
      /\ IdleTime' = [b \in ValidAddr |-> IF b \in {a} THEN 0 ELSE IdleTime[b]]
  BY <1>2, <1>4 DEF Reg, IdleTime, s, t
<1>6. PICK S \in SUBSET ValidAddr : S = {a}
  BY <1>3, <1>4
<1>7. Register!Drop(S)
  BY <1>5, <1>6, DropsAre
<1>. QED BY <1>3, <1>4, <1>6, <1>7 DEF Reg, IdleTime, s

LEMMA RemoveIsRemove ==
    ASSUME IInv, IInv', NEW a \in Addr, RemoveLocoByAddress(a)
    PROVE  Register!RegNext
<1>1. PICK i \in 1 .. Len(locos) : locos[i].addr = a /\ locos' = Without(i)
  BY DEF RemoveLocoByAddress, Indices
<1>2. removed' = removed
  BY DEF RemoveLocoByAddress
<1>3. Register!Drop({a}) /\ a \in ValidAddr /\ Reg[a] # None
  BY <1>1, WithoutForgets
<1>4. Gone' = Gone
  BY <1>2 DEF Gone
<1>5. Register!Remove(a)
  BY <1>3, <1>4, TakingsAre
<1>. QED BY <1>3, <1>5 DEF Register!RegNext

LEMMA ClearIsRemoveAll == ASSUME IInv, IInv', Clear PROVE Register!RegNext
<1>1. locos' = <<>> /\ removed' = removed
  BY DEF Clear
<1>2. RegOf(<<>>) = [b \in ValidAddr |-> None] /\ IdleOf(<<>>) = [b \in ValidAddr |-> 0]
  BY DEF RegOf, IdleOf, Found
<1>3. /\ Reg' = [b \in ValidAddr |-> IF b \in ValidAddr THEN None ELSE Reg[b]]
      /\ IdleTime' = [b \in ValidAddr |-> IF b \in ValidAddr THEN 0 ELSE IdleTime[b]]
  BY <1>1, <1>2 DEF Reg, IdleTime
<1>4. Register!Drop(ValidAddr)
  BY <1>3, DropsAre
<1>5. Register!RemoveAll
  BY <1>1, <1>4, RoundsAre DEF Gone
<1>. QED BY <1>5 DEF Register!RegNext

LEMMA StartIsStart == ASSUME StartExpunge PROVE Register!RegNext
<1>1. locos' = locos /\ removed' = <<>>
  BY DEF StartExpunge
<1>2. Names(<<>>) = {}
  BY DEF Names
<1>3. Register!StartRound
  BY <1>1, <1>2, RoundsAre DEF Reg, IdleTime, Gone
<1>. QED BY <1>3 DEF Register!RegNext

\* A round of the sweep forgets the entry it looks at, and names it, or is no step.
LEMMA ExpungeIsForget ==
    ASSUME IInv, IInv', ExpungeStep
    PROVE  Register!RegNext \/ UNCHANGED <<locos, removed>>
<1>1. CASE Stale(locos[sweep])
  <2>0. PICK a \in ValidAddr : a = locos[sweep].addr
    BY <1>1, ExpungeRemoves
  <2>1. /\ sweep \in 1 .. Len(locos) /\ removed' = Append(removed, a) /\ locos' = Without(sweep)
    BY <1>1, <2>0, ExpungeRemoves DEF ExpungeStep
  <2>2. Register!Drop({a}) /\ Reg[a] # None /\ IdleTime[a] > Timeout
    <3>1. PICK i \in 1 .. Len(locos) : i = sweep
      BY <2>1
    <3>2. locos' = Without(i) /\ a = locos[i].addr /\ locos[i].age > Timeout
      BY <1>1, <2>0, <2>1, <3>1 DEF Stale
    <3>. QED BY <3>2, WithoutForgets
  <2>3. Gone' = Gone \cup {a}
    <3>1. removed \in Seq(ValidAddr) /\ Len(removed) \in Nat
      BY DEF IInv, TypeOK
    <3>2. /\ Len(removed') = Len(removed) + 1 /\ removed'[Len(removed) + 1] = a
          /\ \A j \in 1 .. Len(removed) : removed'[j] = removed[j]
      BY <2>1, <2>2, <3>1, AppendedType
    <3>3. \A j \in 1 .. Len(removed) + 1 : j \in 1 .. Len(removed) \/ j = Len(removed) + 1
      BY <3>1
    <3>4. 1 .. Len(removed) \subseteq 1 .. Len(removed) + 1 /\ Len(removed) + 1 \in 1 .. Len(removed) + 1
      BY <3>1
    <3>. QED BY <3>2, <3>3, <3>4 DEF Gone, Names
  <2>4. Register!Forget(a)
    BY <2>2, <2>3, TakingsAre
  <2>. QED BY <2>2, <2>4 DEF Register!RegNext
<1>2. CASE ~Stale(locos[sweep])
  BY <1>2 DEF ExpungeStep
<1>. QED BY <1>1, <1>2

LEMMA TickIsPass == ASSUME IInv, IInv', Tick PROVE Register!RegNext
<1> DEFINE Older(e) == [e EXCEPT !.age = IF @ < MaxAge THEN @ + 1 ELSE @]
           n == Len(locos)
<1>1. removed' = removed /\ locos' = [i \in 1 .. n |-> Older(locos[i])]
  BY DEF Tick, Indices
<1>2. n \in Nat /\ locos \in Seq(Entry) /\ Len(locos') = n
  BY <1>1, Tables, TablesNext
<1>3. ASSUME NEW i \in 1 .. n
      PROVE  /\ i \in 1 .. Len(locos') /\ locos'[i].addr = locos[i].addr /\ locos'[i].val = locos[i].val
             /\ locos'[i].age = IF locos[i].age <= Timeout THEN locos[i].age + 1 ELSE locos[i].age
  <2>1. locos[i] \in Entry /\ locos'[i] = Older(locos[i])
    BY <1>1, <1>2
  <2>2. locos[i].age \in Nat /\ (locos[i].age < MaxAge <=> locos[i].age <= Timeout)
    BY <2>1, StateEngineAssumption DEF Entry, Ages, MaxAge
  <2>. QED BY <1>2, <2>1, <2>2 DEF Entry
<1> HIDE DEF n
<1>4. ASSUME NEW b \in ValidAddr
      PROVE  /\ RegOf(locos')[b] = RegOf(locos)[b]
             /\ IdleOf(locos')[b] = IF RegOf(locos)[b] # None /\ IdleOf(locos)[b] <= Timeout
                                    THEN IdleOf(locos)[b] + 1 ELSE IdleOf(locos)[b]
  <2>1. ASSUME NEW i \in 1 .. n, locos[i].addr = b
        PROVE  /\ RegOf(locos')[b] = RegOf(locos)[b]
               /\ IdleOf(locos')[b] = IF RegOf(locos)[b] # None /\ IdleOf(locos)[b] <= Timeout
                                      THEN IdleOf(locos)[b] + 1 ELSE IdleOf(locos)[b]
    <3>1. RegOf(locos)[b] = locos[i].val /\ IdleOf(locos)[b] = locos[i].age /\ RegOf(locos)[b] # None
      BY <2>1, Tables, EntryRead DEF n
    <3>2. RegOf(locos')[b] = locos'[i].val /\ IdleOf(locos')[b] = locos'[i].age
      BY <1>3, <2>1, TablesNext, EntryRead
    <3>. QED BY <1>3, <3>1, <3>2
  <2>2. CASE \A i \in 1 .. n : locos[i].addr # b
    <3>1. \A i \in 1 .. Len(locos') : locos'[i].addr # b
      BY <1>2, <1>3, <2>2
    <3>2. RegOf(locos)[b] = None /\ IdleOf(locos)[b] = 0
      BY <2>2, Tables, TableAsMap DEF ReadsAs, n
    <3>3. RegOf(locos')[b] = None /\ IdleOf(locos')[b] = 0
      BY <3>1, TablesNext, TableAsMap DEF ReadsAs
    <3>. QED BY <3>2, <3>3
  <2>. QED BY <2>1, <2>2
<1>5. /\ RegOf(locos) \in [ValidAddr -> Values \cup {None}] /\ IdleOf(locos) \in [ValidAddr -> Nat]
      /\ RegOf(locos') \in [ValidAddr -> Values \cup {None}] /\ IdleOf(locos') \in [ValidAddr -> Nat]
  BY Tables, TablesNext, MapTypes
<1>6. /\ Reg' = Reg
      /\ IdleTime' = [b \in ValidAddr |-> IF Reg[b] # None /\ IdleTime[b] <= Timeout
                                          THEN IdleTime[b] + 1 ELSE IdleTime[b]]
  BY <1>4, <1>5 DEF Reg, IdleTime
<1>7. Register!Pass
  BY <1>1, <1>6, RoundsAre DEF Gone
<1>. QED BY <1>7 DEF Register!RegNext

-----------------------------------------------------------------------------
LEMMA InitIsInit == Init => Register!RegInit
<1>. SUFFICES ASSUME Init PROVE Register!RegInit
  OBVIOUS
<1>1. locos = <<>> /\ removed = <<>>
  BY DEF Init
<1>2. \A a \in ValidAddr : ~Holds(a)
  BY <1>1 DEF Holds, Indices
<1>. QED BY <1>1, <1>2 DEF Register!RegInit

LEMMA StepIsStep == IInv /\ IInv' /\ [Next]_vars => [Register!RegNext]_(Register!regVars)
<1>. SUFFICES ASSUME IInv, IInv', [Next]_vars PROVE Register!RegNext \/ UNCHANGED Register!regVars
  OBVIOUS
<1>1. CASE UNCHANGED <<locos, removed>>
  <2>1. Reg' = Reg /\ IdleTime' = IdleTime /\ Gone' = Gone
    BY <1>1 DEF Reg, IdleTime, Gone
  <2>. QED BY <2>1, Abstracted
<1>2. ASSUME NEW a \in Addr, NEW v \in Values, UpdateLoco(a, v) \/ AddLoco(a, v) PROVE Register!RegNext
  BY <1>2, UpdateIsPut, AddIsPut
<1>3. ASSUME NEW i \in Indices, NEW v \in Values, WriteByIndex(i, v) PROVE Register!RegNext
  BY <1>3, WriteIsOverwrite
<1>4. ASSUME NEW a \in Addr, RemoveLocoByAddress(a) PROVE Register!RegNext
  BY <1>4, RemoveIsRemove
<1>5. CASE Clear
  BY <1>5, ClearIsRemoveAll
<1>6. CASE StartExpunge
  BY <1>6, StartIsStart
<1>7. CASE ExpungeStep
  BY <1>1, <1>7, ExpungeIsForget
<1>8. CASE Tick
  BY <1>8, TickIsPass
<1>9. CASE UNCHANGED vars
  BY <1>1, <1>9 DEF vars
<1>. QED BY <1>2, <1>3, <1>4, <1>5, <1>6, <1>7, <1>8, <1>9 DEF Next

(* Whatever order of insertions, updates in place, shifting removals and   *)
(* half-done sweeps, users of the loco table see the bounded map: for any  *)
(* number of places and addresses, and any timeout.                        *)
THEOREM Implements == Spec => ImplementsRegister
<1>1. Init => Register!RegInit
  BY InitIsInit
<1>2. IInv /\ IInv' /\ [Next]_vars => [Register!RegNext]_(Register!regVars)
  BY StepIsStep
<1>. QED BY <1>1, <1>2, Inductive, PTL DEF Spec, ImplementsRegister, Register!RegSpec
===============================================================================
