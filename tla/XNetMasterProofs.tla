--------------------------- MODULE XNetMasterProofs ---------------------------
(***************************************************************************)
(* The bus master books every message to the device that sent it, and what *)
(* throttles show is what the loco table holds, for any number of slots,   *)
(* locos, places and messages of the ring.                                 *)
(***************************************************************************)
EXTENDS XNetMaster, FiniteSetTheorems, WellFoundedInduction, TLAPS

-----------------------------------------------------------------------------
(* Numbers. *)
LEMMA SmallMod == ASSUME NEW n \in Nat, NEW x \in Nat, x < n PROVE x % n = x
  OBVIOUS

LEMMA FullMod == ASSUME NEW n \in Nat, n # 0 PROVE n % n = 0
  OBVIOUS

LEMMA ModRange == ASSUME NEW n \in Nat, n # 0, NEW x \in Nat PROVE x % n \in 0 .. n - 1
  OBVIOUS

(* A set of numbers has a least one, and a bounded one a greatest. *)
LEMMA Least ==
    ASSUME NEW I \in SUBSET Nat, I # {}
    PROVE  \E x \in I : \A y \in I : x <= y
<1> DEFINE Below(x) == 0 .. x
           T == {Below(x) : x \in I}
<1>1. \A x \in Nat : Below(x) \in FiniteSubsetsOf(Nat)
  BY FS_Interval DEF FiniteSubsetsOf
<1>2. T \subseteq FiniteSubsetsOf(Nat) /\ T # {}
  <2> HIDE DEF Below
  <2> QED
    BY <1>1
<1>3. PICK t \in T : \A u \in T : ~(<<u, t>> \in StrictSubsetOrdering(Nat))
  BY <1>2, FS_StrictSubsetOrderingWellFounded, WFMin
<1>4. PICK x \in I : t = Below(x)
  OBVIOUS
<1>5. ASSUME NEW y \in I, y < x
      PROVE  FALSE
  <2>1. Below(y) \in T /\ Below(y) \in SUBSET Nat /\ Below(x) \in SUBSET Nat
    OBVIOUS
  <2>2. x \in Nat /\ y \in Nat
    OBVIOUS
  <2>3. Below(y) \subseteq Below(x) /\ x \in Below(x) /\ x \notin Below(y)
    BY <1>5, <2>2
  <2> HIDE DEF Below, T
  <2>4. <<Below(y), Below(x)>> \in StrictSubsetOrdering(Nat)
    BY <2>1, <2>3 DEF StrictSubsetOrdering
  <2> QED
    BY <1>3, <1>4, <2>1, <2>4
<1>6. \A y \in I : ~(y < x)
  BY <1>5
<1> HIDE DEF T, Below
<1>7. \A y \in I : x \in Nat /\ y \in Nat
  OBVIOUS
<1>8. \A y \in I : x <= y
  BY <1>6, <1>7
<1> QED
  BY <1>8

LEMMA Greatest ==
    ASSUME NEW n \in Nat, NEW I \in SUBSET (1 .. n), I # {}
    PROVE  Max(I) \in I /\ \A y \in I : Max(I) >= y
<1> DEFINE J == {n - y : y \in I}
<1>1. J \in SUBSET Nat /\ J # {}
  <2>1. \A y \in I : n - y \in Nat
    OBVIOUS
  <2> QED
    BY <2>1
<1>2. PICK j \in J : \A k \in J : j <= k
  <2> HIDE DEF J
  <2> QED
    BY <1>1, Least
<1>3. PICK x \in I : j = n - x
  OBVIOUS
<1>4. \A y \in I : x >= y
  BY <1>2, <1>3
<1> QED
  BY <1>4 DEF Max

LEMMA OneIsMax ==
    ASSUME NEW x \in Nat
    PROVE  Max({x}) = x
  BY DEF Max

(* A finite set can be listed. *)
LEMMA Listed ==
    ASSUME NEW S, IsFiniteSet(S)
    PROVE  SetToSeq(S) \in Seq(S)
<1>1. Cardinality(S) \in Nat /\ ExistsBijection(1 .. Cardinality(S), S)
  BY FS_CardinalityType
<1>2. PICK f \in [1 .. Cardinality(S) -> S] : IsInjective(f)
  BY <1>1 DEF ExistsBijection, Bijection, Injection, IsInjective
<1>3. SetToSeq(S) \in [1 .. Cardinality(S) -> S]
  BY <1>2 DEF SetToSeq
<1> QED
  BY <1>1, <1>3

LEMMA Joined ==
    ASSUME NEW T, NEW s \in Seq(T), NEW t \in Seq(T)
    PROVE  /\ s \o t \in Seq(T) /\ Len(s \o t) = Len(s) + Len(t)
           /\ \A k \in 1 .. Len(s) + Len(t) :
                 (s \o t)[k] = IF k <= Len(s) THEN s[k] ELSE t[k - Len(s)]
  OBVIOUS

-----------------------------------------------------------------------------
(* The messages. *)
OwnMessages == {Own(a, "speed", v) : a \in Addr, v \in Speeds}
               \cup {Own(a, g, F) : a \in Addr, g \in FnGroups, F \in Bits}
Heard == Messages \cup OwnMessages
Rings == [ring : [0 .. RingSize - 1 -> Messages \cup {Empty}], put : 0 .. RingSize - 1]

LEMMA GroupsAre ==
    /\ "speed" \in Groups /\ FnGroups \subseteq Groups /\ "speed" \notin FnGroups
    /\ \A g \in Groups : g # "speed" => g \in FnGroups
  BY XNetAssumption DEF Groups

LEMMA Kinds ==
    ASSUME NEW m \in Heard
    PROVE  /\ m.kind # "empty" /\ m # Empty
           /\ (m.kind = "inquiry") => m.slot \in Slots
           /\ (m.kind = "power") => m.power \in Powers
           /\ (m.kind \in {"overheard", "own"}) =>
                 m.adr \in Addr /\ m.group \in Groups /\ m.val \in ValuesOf(m.group)
<1>1. ASSUME NEW g \in Groups, NEW a \in Addr, NEW v \in ValuesOf(g),
             m = Own(a, g, v) \/ m = Overheard(a, g, v)
      PROVE  /\ m.kind \in {"own", "overheard"} /\ m.adr \in Addr /\ m.group \in Groups
             /\ m.val \in ValuesOf(m.group)
  BY <1>1 DEF Own, Overheard
<1>2. CASE m \in OwnMessages
           \/ m \in {Overheard(a, "speed", v) : a \in Addr, v \in Speeds}
           \/ m \in {Overheard(a, g, F) : a \in Addr, g \in FnGroups, F \in Bits}
  <2>1. \E g \in Groups, a \in Addr, v \in Speeds \cup Bits :
           v \in ValuesOf(g) /\ (m = Own(a, g, v) \/ m = Overheard(a, g, v))
    BY <1>2, GroupsAre DEF OwnMessages, ValuesOf
  <2>2. PICK g \in Groups, a \in Addr, v \in Speeds \cup Bits :
           v \in ValuesOf(g) /\ (m = Own(a, g, v) \/ m = Overheard(a, g, v))
    BY <2>1
  <2>3. /\ m.kind \in {"own", "overheard"} /\ m.adr \in Addr /\ m.group \in Groups
        /\ m.val \in ValuesOf(m.group)
    BY <1>1, <2>2
  <2> QED
    BY <2>3 DEF Empty
<1>4. CASE m \in {Inquiry(s) : s \in Slots} \cup {Reply(s) : s \in Slots}
                \cup {Busy(s, a) : s \in Slots, a \in Addr}
                \cup {Plain} \cup {PowerBroadcast(p) : p \in Powers}
  <2>1. /\ m.kind \in {"inquiry", "reply", "busy", "plain", "power"}
        /\ (m.kind = "inquiry") => m.slot \in Slots
        /\ (m.kind = "power") => m.power \in Powers
    BY <1>4 DEF Inquiry, Reply, Busy, Plain, PowerBroadcast
  <2> QED
    BY <2>1 DEF Empty
<1> QED
  BY <1>2, <1>4 DEF Heard, Messages

LEMMA RingSizeType == RingSize \in Nat /\ RingSize # 0
  BY XNetAssumption

(* XNetsend() and XNetReadBuffer() keep the ring one, full or not. *)
LEMMA LandsIn ==
    ASSUME NEW q \in Rings, NEW j \in Nat, j >= 1
    PROVE  Landing(q, j) \in 0 .. RingSize - 1
<1>1. q.put \in Nat
  BY RingSizeType DEF Rings
<1>2. q.put + j - 1 \in Nat
  BY <1>1
<1> QED
  BY <1>2, RingSizeType, ModRange DEF Landing

LEMMA QueuedType ==
    ASSUME NEW q \in Rings, NEW msgs \in Seq(Messages)
    PROVE  Queued(q, msgs) \in Rings
<1> DEFINE lands(i) == {j \in 1 .. Len(msgs) : Landing(q, j) = i}
<1>1. Len(msgs) \in Nat /\ q.put \in Nat
  BY RingSizeType DEF Rings
<1>2. ASSUME NEW i \in 0 .. RingSize - 1, lands(i) # {}
      PROVE  msgs[Max(lands(i))] \in Messages
  <2>1. Max(lands(i)) \in 1 .. Len(msgs)
    <3>1. lands(i) \in SUBSET (1 .. Len(msgs))
      OBVIOUS
    <3> HIDE DEF lands
    <3> QED
      BY <1>1, <1>2, <3>1, Greatest
  <2> QED
    BY <2>1
<1>3. [i \in 0 .. RingSize - 1 |-> IF lands(i) = {} THEN q.ring[i] ELSE msgs[Max(lands(i))]]
         \in [0 .. RingSize - 1 -> Messages \cup {Empty}]
  BY <1>2 DEF Rings
<1>4. (q.put + Len(msgs)) % RingSize \in 0 .. RingSize - 1
  <2>1. q.put + Len(msgs) \in Nat
    BY <1>1
  <2> QED
    BY <2>1, RingSizeType, ModRange
<1> QED
  BY <1>3, <1>4 DEF Queued, Rings

LEMMA FilledIs ==
    ASSUME NEW q \in Rings
    PROVE  /\ Filled(q) \in 0 .. RingSize
           /\ \A i \in 0 .. Filled(q) - 1 : q.ring[i] # Empty
           /\ Filled(q) = RingSize \/ q.ring[Filled(q)] = Empty
<1> DEFINE I == {k \in 0 .. RingSize : k = RingSize \/ q.ring[k] = Empty}
<1>1. I \in SUBSET Nat /\ I # {}
  BY RingSizeType
<1>2. PICK k \in I : \A y \in I : k <= y
  <2> HIDE DEF I
  <2> QED
    BY <1>1, Least
<1>3. k \in 0 .. RingSize /\ (k = RingSize \/ q.ring[k] = Empty)
  OBVIOUS
<1>4. \A i \in 0 .. k - 1 : q.ring[i] # Empty
  <2>1. \A i \in 0 .. k - 1 : i \notin I /\ i \in 0 .. RingSize
    BY <1>2, <1>3, RingSizeType
  <2> QED
    BY <2>1
<1> QED
  BY <1>3, <1>4 DEF Filled

LEMMA UnsentType ==
    ASSUME NEW q \in Rings
    PROVE  Unsent(q) \in Seq(Messages) /\ Len(Unsent(q)) = Filled(q)
<1>1. Filled(q) \in 0 .. RingSize /\ \A i \in 0 .. Filled(q) - 1 : q.ring[i] # Empty
  BY FilledIs
<1>2. Filled(q) \in Nat
  BY <1>1, RingSizeType
<1>3. \A i \in 1 .. Filled(q) : q.ring[i - 1] \in Messages
  <2>1. \A i \in 1 .. Filled(q) : i - 1 \in 0 .. RingSize - 1 /\ i - 1 \in 0 .. Filled(q) - 1
    BY <1>1, <1>2, RingSizeType
  <2> QED
    BY <1>1, <2>1 DEF Rings
<1> QED
  BY <1>2, <1>3 DEF Unsent

LEMMA SentType ==
    ASSUME NEW q \in Rings
    PROVE  Sent(q) \in Rings
<1>1. Filled(q) \in 0 .. RingSize /\ q.put \in 0 .. RingSize - 1
  BY FilledIs DEF Rings
<1>2. (q.put + RingSize - Filled(q)) % RingSize \in 0 .. RingSize - 1
  <2>1. q.put + RingSize - Filled(q) \in Nat
    BY <1>1, RingSizeType
  <2> QED
    BY <2>1, RingSizeType, ModRange
<1>3. [i \in 0 .. RingSize - 1 |-> IF i + Filled(q) < RingSize THEN q.ring[i + Filled(q)] ELSE Empty]
         \in [0 .. RingSize - 1 -> Messages \cup {Empty}]
  BY <1>1, RingSizeType DEF Rings
<1> QED
  BY <1>2, <1>3 DEF Sent, Rings

-----------------------------------------------------------------------------
(* A ring in which nothing was overwritten: full from get on, up to put.   *)
Packed(q) ==
    \E n \in 0 .. RingSize :
        /\ \A i \in 0 .. RingSize - 1 : (q.ring[i] # Empty) <=> (i < n)
        /\ q.put = n % RingSize

LEMMA PackedFilled ==
    ASSUME NEW q \in Rings, Packed(q)
    PROVE  /\ Filled(q) \in 0 .. RingSize /\ q.put = Filled(q) % RingSize
           /\ \A i \in 0 .. RingSize - 1 : (q.ring[i] # Empty) <=> (i < Filled(q))
<1>1. PICK n \in 0 .. RingSize :
        /\ \A i \in 0 .. RingSize - 1 : (q.ring[i] # Empty) <=> (i < n)
        /\ q.put = n % RingSize
  BY DEF Packed
<1>2. /\ Filled(q) \in 0 .. RingSize
      /\ \A i \in 0 .. Filled(q) - 1 : q.ring[i] # Empty
      /\ Filled(q) = RingSize \/ q.ring[Filled(q)] = Empty
  BY FilledIs
<1>3. ~(Filled(q) < n)
  <2> SUFFICES ASSUME Filled(q) < n PROVE FALSE
    OBVIOUS
  <2>1. Filled(q) \in 0 .. RingSize - 1 /\ Filled(q) # RingSize
    BY <1>2, RingSizeType
  <2> QED
    BY <1>1, <1>2, <2>1
<1>4. ~(n < Filled(q))
  <2> SUFFICES ASSUME n < Filled(q) PROVE FALSE
    OBVIOUS
  <2>1. n \in 0 .. RingSize - 1 /\ n \in 0 .. Filled(q) - 1
    BY <1>2, RingSizeType
  <2>2. q.ring[n] # Empty
    BY <1>2, <2>1
  <2>3. n < n
    BY <1>1, <2>1, <2>2
  <2> QED
    BY <2>3, RingSizeType
<1>5. n = Filled(q)
  BY <1>2, <1>3, <1>4, RingSizeType
<1> QED
  BY <1>1, <1>2, <1>5

LEMMA Room ==
    ASSUME NEW q \in Rings, Packed(q), NEW msgs \in Seq(Messages), ~Overwrites(q, msgs)
    PROVE  /\ Filled(q) + Len(msgs) <= RingSize
           /\ \A j \in 1 .. Len(msgs) : Landing(q, j) = Filled(q) + j - 1
<1> DEFINE n == Filled(q)
           L == Len(msgs)
<1>1. /\ n \in Nat /\ n <= RingSize /\ L \in Nat /\ RingSize \in Nat /\ RingSize # 0
      /\ q.put = n % RingSize
      /\ \A i \in 0 .. RingSize - 1 : (q.ring[i] # Empty) <=> (i < n)
  BY PackedFilled, RingSizeType
<1>2. \A j \in 1 .. L : j <= RingSize /\ q.ring[Landing(q, j)] = Empty
  BY <1>1 DEF Overwrites
<1> HIDE DEF n, L
<1>3. CASE L = 0
  BY <1>1, <1>3 DEF n, L
<1>4. CASE L # 0
  <2>1. n # RingSize /\ q.put = n
    <3>1. 1 \in 1 .. L
      BY <1>1, <1>4
    <3>2. q.put \in Nat /\ q.put < RingSize
      BY RingSizeType DEF Rings
    <3>3. q.put + 1 - 1 = q.put
      BY <3>2
    <3>4. Landing(q, 1) = q.put
      <4>1. Landing(q, 1) = (q.put + 1 - 1) % RingSize
        BY Zenon DEF Landing
      <4>2. q.put % RingSize = q.put
        BY <3>2, <1>1, SmallMod
      <4> QED
        BY <4>1, <4>2, <3>3, Zenon
    <3>5. q.ring[q.put] = Empty
      BY <1>2, <3>1, <3>4
    <3>6. n # RingSize
      <4> SUFFICES ASSUME n = RingSize PROVE FALSE
        OBVIOUS
      <4>1. q.put \in 0 .. RingSize - 1 /\ q.put < n
        BY <3>2, <1>1
      <4> QED
        BY <4>1, <3>5, <1>1
    <3>7. n < RingSize
      BY <3>6, <1>1
    <3> QED
      BY <3>6, <3>7, <1>1, SmallMod
  <2>2. n + L <= RingSize
    <3> SUFFICES ASSUME n + L > RingSize PROVE FALSE
      BY <1>1
    <3> DEFINE j == RingSize - n + 1
    <3>1. j \in 1 .. L /\ (n + j) - 1 = RingSize
      BY <1>1
    <3>2. Landing(q, j) = 0
      BY <3>1, <2>1, <1>1, FullMod DEF Landing
    <3>3. q.ring[0] = Empty /\ j <= RingSize
      BY <1>2, <3>1, <3>2
    <3>4. 0 \in 0 .. RingSize - 1
      BY <1>1
    <3>5. ~(0 < n)
      BY <3>3, <3>4, <1>1
    <3> QED
      BY <3>3, <3>5, <1>1
  <2>3. ASSUME NEW j \in 1 .. L
        PROVE  Landing(q, j) = n + j - 1
    <3>1. n + j - 1 \in Nat /\ n + j - 1 < RingSize
      BY <1>1, <2>2
    <3> QED
      BY <3>1, <1>1, <2>1, SmallMod DEF Landing
  <2> QED
    BY <2>2, <2>3 DEF n, L
<1> QED
  BY <1>3, <1>4

(* Without overwriting, the ring is a queue. *)
LEMMA QueuedPacked ==
    ASSUME NEW q \in Rings, Packed(q), NEW msgs \in Seq(Messages), ~Overwrites(q, msgs)
    PROVE  Packed(Queued(q, msgs)) /\ Unsent(Queued(q, msgs)) = Unsent(q) \o msgs
<1> DEFINE n == Filled(q)
           L == Len(msgs)
           r == Queued(q, msgs)
           lands(i) == {j \in 1 .. Len(msgs) : Landing(q, j) = i}
<1>1. /\ n \in Nat /\ n <= RingSize /\ L \in Nat /\ RingSize \in Nat /\ RingSize # 0
      /\ q.put = n % RingSize
      /\ \A i \in 0 .. RingSize - 1 : (q.ring[i] # Empty) <=> (i < n)
  BY PackedFilled, RingSizeType
<1>2. n + L <= RingSize /\ \A j \in 1 .. L : Landing(q, j) = n + j - 1
  BY Room
<1>3. r \in Rings
  BY QueuedType
<1>4. /\ \A i \in 0 .. RingSize - 1 :
           r.ring[i] = IF lands(i) = {} THEN q.ring[i] ELSE msgs[Max(lands(i))]
      /\ r.put = (q.put + L) % RingSize
  BY DEF Queued
<1> HIDE DEF n, L, r
<1>5. ASSUME NEW i \in 0 .. RingSize - 1
      PROVE  r.ring[i] = IF i < n THEN q.ring[i] ELSE IF i < n + L THEN msgs[i - n + 1] ELSE Empty
  <2>1. CASE i < n \/ i >= n + L
    <3>1. lands(i) = {}
      BY <1>1, <1>2, <2>1 DEF L
    <3>2. r.ring[i] = q.ring[i]
      BY <3>1, <1>4
    <3>3. (i >= n + L) => q.ring[i] = Empty /\ ~(i < n) /\ ~(i < n + L)
      BY <1>1
    <3> QED
      BY <3>2, <3>3, <2>1
  <2>2. CASE ~(i < n) /\ i < n + L
    <3>1. i - n + 1 \in 1 .. L
      BY <2>2, <1>1
    <3>2. lands(i) = {i - n + 1}
      <4>1. \A j \in 1 .. L : (n + j - 1 = i) <=> (j = i - n + 1)
        BY <1>1
      <4> QED
        BY <4>1, <3>1, <1>1, <1>2 DEF L
    <3>3. i - n + 1 \in Nat
      BY <3>1
    <3>4. Max(lands(i)) = i - n + 1
      BY <3>2, <3>3, OneIsMax
    <3> QED
      BY <2>2, <3>2, <3>4, <1>4
  <2> QED
    BY <2>1, <2>2, <1>1
<1>6. n + L \in 0 .. RingSize /\ n + L \in Nat
  BY <1>1, <1>2
<1>7. \A i \in 0 .. RingSize - 1 : (r.ring[i] # Empty) <=> (i < n + L)
  <2> TAKE i \in 0 .. RingSize - 1
  <2>1. CASE i < n
    <3>1. i < n + L
      BY <2>1, <1>1
    <3>2. r.ring[i] = q.ring[i]
      BY <2>1, <1>5
    <3> QED
      BY <3>1, <3>2, <2>1, <1>1
  <2>2. CASE ~(i < n) /\ i < n + L
    <3>1. i - n + 1 \in 1 .. L
      BY <2>2, <1>1
    <3>2. msgs[i - n + 1] \in Messages
      BY <3>1 DEF L
    <3>3. msgs[i - n + 1] # Empty
      BY <3>2, Kinds DEF Heard
    <3> QED
      BY <3>3, <2>2, <1>5
  <2>3. CASE ~(i < n) /\ ~(i < n + L)
    BY <2>3, <1>5
  <2> QED
    BY <2>1, <2>2, <2>3
<1>8. r.put = (n + L) % RingSize
  <2>1. CASE n = RingSize
    <3>1. L = 0 /\ q.put = 0 /\ n + L = RingSize
      BY <2>1, <1>1, <1>2, FullMod
    <3> QED
      BY <3>1, <1>1, <1>4, <2>1, FullMod, SmallMod
  <2>2. CASE n # RingSize
    <3>1. n < RingSize
      BY <2>2, <1>1
    <3>2. q.put = n
      BY <3>1, <1>1, SmallMod
    <3> QED
      BY <3>2, <1>4
  <2> QED
    BY <2>1, <2>2
<1>9. Packed(r)
  BY <1>6, <1>7, <1>8 DEF Packed
<1>10. Filled(r) = n + L
  <2>1. /\ Filled(r) \in Nat /\ Filled(r) <= RingSize
        /\ \A i \in 0 .. RingSize - 1 : (r.ring[i] # Empty) <=> (i < Filled(r))
    BY <1>3, <1>9, PackedFilled, RingSizeType
  <2>2. ~(Filled(r) < n + L)
    <3> SUFFICES ASSUME Filled(r) < n + L PROVE FALSE
      OBVIOUS
    <3>1. Filled(r) \in 0 .. RingSize - 1
      BY <2>1, <1>1, <1>2
    <3> QED
      BY <3>1, <2>1, <1>7
  <2>3. ~(n + L < Filled(r))
    <3> SUFFICES ASSUME n + L < Filled(r) PROVE FALSE
      OBVIOUS
    <3>1. n + L \in 0 .. RingSize - 1
      BY <2>1, <1>1, <1>2
    <3>2. ~(n + L < n + L)
      BY <1>1
    <3> QED
      BY <3>1, <3>2, <2>1, <1>7
  <2> QED
    BY <2>1, <2>2, <2>3, <1>6
<1>11. Unsent(r) = Unsent(q) \o msgs
  <2>1. Unsent(r) = [i \in 1 .. n + L |-> r.ring[i - 1]]
    BY <1>10 DEF Unsent
  <2>2. Unsent(q) = [i \in 1 .. n |-> q.ring[i - 1]] /\ Unsent(q) \in Seq(Messages) /\ Len(Unsent(q)) = n
    BY UnsentType DEF Unsent, n
  <2>3. Unsent(q) \o msgs = [i \in 1 .. n + L |-> IF i <= n THEN Unsent(q)[i] ELSE msgs[i - n]]
    BY <2>2, <1>1 DEF L
  <2>4. ASSUME NEW i \in 1 .. n + L
        PROVE  r.ring[i - 1] = IF i <= n THEN Unsent(q)[i] ELSE msgs[i - n]
    <3>1. i - 1 \in 0 .. RingSize - 1
      BY <1>1, <1>2
    <3>2. r.ring[i - 1] = IF i - 1 < n THEN q.ring[i - 1]
                          ELSE IF i - 1 < n + L THEN msgs[i - 1 - n + 1] ELSE Empty
      BY <1>5, <3>1
    <3>3. CASE i <= n
      <4>1. i - 1 < n /\ i \in 1 .. n
        BY <3>3, <1>1
      <4>2. Unsent(q)[i] = q.ring[i - 1]
        BY <4>1, <2>2
      <4> QED
        BY <3>2, <3>3, <4>1, <4>2
    <3>4. CASE ~(i <= n)
      <4>1. ~(i - 1 < n) /\ i - 1 < n + L /\ i - 1 - n + 1 = i - n
        BY <3>4, <1>1
      <4> QED
        BY <3>2, <3>4, <4>1
    <3> QED
      BY <3>3, <3>4
  <2> QED
    BY <2>1, <2>3, <2>4
<1> QED
  BY <1>9, <1>11 DEF r

LEMMA SentPacked ==
    ASSUME NEW q \in Rings, Packed(q)
    PROVE  Packed(Sent(q)) /\ Unsent(Sent(q)) = <<>>
<1> DEFINE n == Filled(q)
           r == Sent(q)
<1>1. /\ n \in Nat /\ n <= RingSize /\ RingSize \in Nat /\ RingSize # 0
      /\ q.put = n % RingSize
      /\ \A i \in 0 .. RingSize - 1 : (q.ring[i] # Empty) <=> (i < n)
  BY PackedFilled, RingSizeType
<1>2. /\ \A i \in 0 .. RingSize - 1 :
           r.ring[i] = IF i + n < RingSize THEN q.ring[i + n] ELSE Empty
      /\ r.put = (q.put + RingSize - n) % RingSize
  BY DEF Sent
<1>3. r \in Rings
  BY SentType
<1> HIDE DEF n, r
<1>4. ASSUME NEW i \in 0 .. RingSize - 1
      PROVE  r.ring[i] = Empty
  <2>1. CASE i + n < RingSize
    <3>1. i + n \in 0 .. RingSize - 1 /\ ~(i + n < n)
      BY <2>1, <1>1
    <3> QED
      BY <3>1, <2>1, <1>1, <1>2
  <2> QED
    BY <2>1, <1>2
<1>5. r.put = 0
  <2>1. CASE n = RingSize
    <3>1. q.put = 0 /\ q.put + RingSize - n = 0
      BY <2>1, <1>1, FullMod
    <3>2. 0 < RingSize /\ 0 \in Nat
      BY <1>1
    <3> QED
      BY <3>1, <3>2, <1>1, <1>2, SmallMod
  <2>2. CASE n # RingSize
    <3>1. n < RingSize
      BY <2>2, <1>1
    <3>2. q.put = n
      BY <3>1, <1>1, SmallMod
    <3>3. q.put + RingSize - n = RingSize
      BY <3>2, <1>1
    <3> QED
      BY <3>3, <1>1, <1>2, FullMod
  <2> QED
    BY <2>1, <2>2
<1>6. 0 \in 0 .. RingSize /\ r.put = 0 % RingSize
  <2>1. 0 < RingSize /\ 0 \in Nat
    BY <1>1
  <2> QED
    BY <1>1, <1>5, <2>1, SmallMod
<1>7. \A i \in 0 .. RingSize - 1 : (r.ring[i] # Empty) <=> (i < 0)
  BY <1>4
<1>8. Packed(r)
  BY <1>6, <1>7 DEF Packed
<1>9. Filled(r) = 0
  <2>1. Filled(r) \in 0 .. RingSize /\ \A i \in 0 .. Filled(r) - 1 : r.ring[i] # Empty
    BY <1>3, FilledIs
  <2> SUFFICES ASSUME Filled(r) # 0 PROVE FALSE
    OBVIOUS
  <2>2. 0 \in 0 .. Filled(r) - 1 /\ 0 \in 0 .. RingSize - 1
    BY <2>1, <1>1
  <2> QED
    BY <2>1, <2>2, <1>4
<1>10. Unsent(r) = <<>>
  <2>1. Unsent(r) \in Seq(Messages) /\ Len(Unsent(r)) = 0
    BY <1>3, <1>9, UnsentType
  <2> QED
    BY <2>1
<1> QED
  BY <1>8, <1>10 DEF r

-----------------------------------------------------------------------------
(* What listeners make of a sequence of messages that is joined from two. *)
IsJoined(K, n, I, m, J) ==
    /\ n \in Nat /\ m \in Nat /\ I \subseteq 1 .. n /\ J \subseteq 1 .. m /\ K \subseteq 1 .. n + m
    /\ \A k \in 1 .. n + m : (k \in K) <=> IF k <= n THEN k \in I ELSE k - n \in J

LEMMA LastOf ==
    ASSUME NEW n, NEW m, NEW I, NEW J, NEW K, IsJoined(K, n, I, m, J)
    PROVE  /\ (J = {}) => K = I
           /\ (J # {}) => K # {} /\ Max(J) \in J /\ Max(K) = n + Max(J)
<1> /\ n \in Nat /\ m \in Nat /\ I \in SUBSET (1 .. n) /\ J \in SUBSET (1 .. m)
    /\ K \in SUBSET (1 .. n + m)
    /\ \A k \in 1 .. n + m : (k \in K) <=> IF k <= n THEN k \in I ELSE k - n \in J
  BY DEF IsJoined
<1>1. (J = {}) => K = I
  <2>1. \A i \in I : i \in 1 .. n + m /\ i <= n
    OBVIOUS
  <2> QED
    BY <2>1
<1>2. ASSUME J # {}
      PROVE  K # {} /\ Max(J) \in J /\ Max(K) = n + Max(J)
  <2> DEFINE M == Max(J)
             L == Max(K)
  <2>1. M \in J /\ (\A j \in J : M >= j) /\ M \in 1 .. m
    BY <1>2, Greatest
  <2> HIDE DEF M
  <2>2. n + M \in 1 .. n + m /\ ~(n + M <= n) /\ (n + M) - n = M /\ n + m \in Nat
    BY <2>1
  <2>3. n + M \in K
    BY <2>1, <2>2
  <2>4. L \in K /\ (\A k \in K : L >= k) /\ L \in 1 .. n + m
    BY <2>2, <2>3, Greatest
  <2> HIDE DEF L
  <2>5. L >= n + M
    BY <2>3, <2>4
  <2>6. ~(L <= n)
    BY <2>1, <2>4, <2>5
  <2>7. L - n \in J
    BY <2>4, <2>6
  <2>8. M >= L - n
    BY <2>1, <2>7
  <2>9. L = n + M
    BY <2>1, <2>4, <2>5, <2>8
  <2> QED
    BY <2>1, <2>3, <2>9 DEF M, L
<1> QED
  BY <1>1, <1>2

LearntFrom(b, wire) ==
    [a \in Addr |-> [g \in Groups |-> IF About(wire, a, g) = {} THEN b[a][g]
                                      ELSE wire[Max(About(wire, a, g))].val]]
HeardFrom(h, wire) ==
    IF PowerNews(wire) = {} THEN h ELSE wire[Max(PowerNews(wire))].power

LEMMA AboutJoined ==
    ASSUME NEW w \in Seq(Heard), NEW v \in Seq(Heard), NEW a, NEW g
    PROVE  /\ (About(v, a, g) = {}) => About(w \o v, a, g) = About(w, a, g)
           /\ (About(v, a, g) # {}) =>
                /\ About(w \o v, a, g) # {} /\ Max(About(v, a, g)) \in About(v, a, g)
                /\ Max(About(w \o v, a, g)) = Len(w) + Max(About(v, a, g))
           /\ About(w, a, g) \in SUBSET (1 .. Len(w)) /\ About(v, a, g) \in SUBSET (1 .. Len(v))
<1> DEFINE I == About(w, a, g)
           J == About(v, a, g)
           K == About(w \o v, a, g)
<1>1. /\ I \in SUBSET (1 .. Len(w)) /\ J \in SUBSET (1 .. Len(v))
      /\ K \in SUBSET (1 .. Len(w) + Len(v))
      /\ Len(w) \in Nat /\ Len(v) \in Nat
  BY DEF About
<1>2. \A k \in 1 .. Len(w) + Len(v) : (k \in K) <=> IF k <= Len(w) THEN k \in I ELSE k - Len(w) \in J
  <2> TAKE k \in 1 .. Len(w) + Len(v)
  <2>1. (w \o v)[k] = IF k <= Len(w) THEN w[k] ELSE v[k - Len(w)]
    BY Joined
  <2>2. k \in DOMAIN (w \o v) /\ (k <= Len(w) => k \in DOMAIN w)
        /\ (~(k <= Len(w)) => k - Len(w) \in DOMAIN v)
    BY <1>1
  <2> QED
    BY <2>1, <2>2 DEF About
<1>3. IsJoined(K, Len(w), I, Len(v), J)
  BY <1>1, <1>2 DEF IsJoined
<1> HIDE DEF I, J, K
<1>4. /\ (J = {}) => K = I
      /\ (J # {}) => K # {} /\ Max(J) \in J /\ Max(K) = Len(w) + Max(J)
  BY <1>3, LastOf
<1> QED
  BY <1>1, <1>4 DEF I, J, K

LEMMA LearntJoined ==
    ASSUME NEW b, NEW w \in Seq(Heard), NEW v \in Seq(Heard), NEW a \in Addr, NEW g \in Groups
    PROVE  LearntFrom(b, w \o v)[a][g] = LearntFrom(LearntFrom(b, w), v)[a][g]
<1> DEFINE I == About(w, a, g)
           J == About(v, a, g)
           K == About(w \o v, a, g)
<1>1. /\ (J = {}) => K = I
      /\ (J # {}) => K # {} /\ Max(J) \in J /\ Max(K) = Len(w) + Max(J)
      /\ I \in SUBSET (1 .. Len(w)) /\ J \in SUBSET (1 .. Len(v))
  BY AboutJoined
<1>2. CASE J = {}
  <2>1. LearntFrom(LearntFrom(b, w), v)[a][g] = LearntFrom(b, w)[a][g]
    BY <1>2 DEF LearntFrom
  <2>2. CASE I = {}
    BY <1>1, <1>2, <2>1, <2>2 DEF LearntFrom
  <2>3. CASE I # {}
    <3>1. Max(I) \in 1 .. Len(w)
      <4>1. Len(w) \in Nat
        OBVIOUS
      <4> HIDE DEF I
      <4> QED
        BY <4>1, <1>1, <2>3, Greatest
    <3>2. (w \o v)[Max(I)] = w[Max(I)]
      <4> HIDE DEF I
      <4> QED
        BY <3>1
    <3> QED
      BY <1>1, <1>2, <2>1, <2>3, <3>2 DEF LearntFrom
  <2> QED
    BY <2>2, <2>3
<1>3. CASE J # {}
  <2>1. Max(J) \in 1 .. Len(v)
    BY <1>1, <1>3
  <2>2. (w \o v)[Len(w) + Max(J)] = v[Max(J)]
    <3> HIDE DEF J
    <3> QED
      BY <2>1
  <2> QED
    BY <1>1, <1>3, <2>2 DEF LearntFrom
<1> QED
  BY <1>2, <1>3

Says(m, a, g) == m.kind \in {"overheard", "own"} /\ m.adr = a /\ m.group = g

LEMMA LearntNone ==
    ASSUME NEW b, NEW v \in Seq(Heard), NEW a \in Addr, NEW g \in Groups,
           \A m \in Range(v) : ~Says(m, a, g)
    PROVE  LearntFrom(b, v)[a][g] = b[a][g]
<1>1. About(v, a, g) = {}
  BY DEF About, Says, Range
<1> QED
  BY <1>1 DEF LearntFrom

LEMMA LearntAs ==
    ASSUME NEW b, NEW v \in Seq(Heard), NEW a \in Addr, NEW g \in Groups,
           \E m \in Range(v) : Says(m, a, g)
    PROVE  \E m \in Range(v) : Says(m, a, g) /\ LearntFrom(b, v)[a][g] = m.val
<1> DEFINE k == Max(About(v, a, g))
<1>1. About(v, a, g) # {}
  BY DEF About, Says, Range
<1>2. k \in About(v, a, g)
  <2>1. Len(v) \in Nat /\ About(v, a, g) \in SUBSET (1 .. Len(v))
    BY DEF About
  <2> QED
    BY <1>1, <2>1, Greatest
<1>3. LearntFrom(b, v)[a][g] = v[k].val
  BY <1>1 DEF LearntFrom
<1> HIDE DEF k
<1>4. v[k] \in Range(v) /\ Says(v[k], a, g)
  BY <1>2 DEF About, Says, Range
<1> QED
  BY <1>3, <1>4

LEMMA PowerJoined ==
    ASSUME NEW h, NEW w \in Seq(Heard), NEW v \in Seq(Heard)
    PROVE  HeardFrom(h, w \o v) = HeardFrom(HeardFrom(h, w), v)
<1> DEFINE I == PowerNews(w)
           J == PowerNews(v)
           K == PowerNews(w \o v)
<1>1. /\ I \in SUBSET (1 .. Len(w)) /\ J \in SUBSET (1 .. Len(v))
      /\ K \in SUBSET (1 .. Len(w) + Len(v))
      /\ Len(w) \in Nat /\ Len(v) \in Nat
  BY DEF PowerNews
<1>2. \A k \in 1 .. Len(w) + Len(v) : (k \in K) <=> IF k <= Len(w) THEN k \in I ELSE k - Len(w) \in J
  <2> TAKE k \in 1 .. Len(w) + Len(v)
  <2>1. (w \o v)[k] = IF k <= Len(w) THEN w[k] ELSE v[k - Len(w)]
    BY Joined
  <2>2. k \in DOMAIN (w \o v) /\ (k <= Len(w) => k \in DOMAIN w)
        /\ (~(k <= Len(w)) => k - Len(w) \in DOMAIN v)
    BY <1>1
  <2> QED
    BY <2>1, <2>2 DEF PowerNews
<1>3. IsJoined(K, Len(w), I, Len(v), J)
  BY <1>1, <1>2 DEF IsJoined
<1>4. /\ (J = {}) => K = I
      /\ (J # {}) => K # {} /\ Max(J) \in J /\ Max(K) = Len(w) + Max(J)
  <2> HIDE DEF I, J, K
  <2> QED
    BY <1>3, LastOf
<1>5. CASE J = {}
  <2>1. CASE I = {}
    BY <1>4, <1>5, <2>1 DEF HeardFrom
  <2>2. CASE I # {}
    <3>1. Max(I) \in 1 .. Len(w)
      <4> HIDE DEF I
      <4> QED
        BY <1>1, <2>2, Greatest
    <3>2. (w \o v)[Max(I)] = w[Max(I)]
      <4> HIDE DEF I
      <4> QED
        BY <3>1
    <3> QED
      BY <1>4, <1>5, <2>2, <3>2 DEF HeardFrom
  <2> QED
    BY <2>1, <2>2
<1>6. CASE J # {}
  <2>1. Max(J) \in 1 .. Len(v)
    BY <1>1, <1>4, <1>6
  <2>2. (w \o v)[Len(w) + Max(J)] = v[Max(J)]
    <3> HIDE DEF J
    <3> QED
      BY <2>1
  <2> QED
    BY <1>4, <1>6, <2>2 DEF HeardFrom
<1> QED
  BY <1>5, <1>6

LEMMA PowerNone ==
    ASSUME NEW h, NEW v \in Seq(Heard), \A m \in Range(v) : m.kind # "power"
    PROVE  HeardFrom(h, v) = h
<1>1. PowerNews(v) = {}
  BY DEF PowerNews, Range
<1> QED
  BY <1>1 DEF HeardFrom

LEMMA PowerAs ==
    ASSUME NEW h, NEW v \in Seq(Heard), \E m \in Range(v) : m.kind = "power"
    PROVE  \E m \in Range(v) : m.kind = "power" /\ HeardFrom(h, v) = m.power
<1> DEFINE k == Max(PowerNews(v))
<1>1. PowerNews(v) # {}
  BY DEF PowerNews, Range
<1>2. k \in PowerNews(v)
  <2>1. Len(v) \in Nat /\ PowerNews(v) \in SUBSET (1 .. Len(v))
    BY DEF PowerNews
  <2> QED
    BY <1>1, <2>1, Greatest
<1>3. HeardFrom(h, v) = v[k].power
  BY <1>1 DEF HeardFrom
<1> HIDE DEF k
<1>4. v[k] \in Range(v) /\ v[k].kind = "power"
  BY <1>2 DEF PowerNews, Range
<1> QED
  BY <1>3, <1>4

LEMMA PowerType ==
    ASSUME NEW h \in Powers, NEW v \in Seq(Heard)
    PROVE  HeardFrom(h, v) \in Powers
<1>1. CASE PowerNews(v) = {}
  BY <1>1 DEF HeardFrom
<1>2. CASE PowerNews(v) # {}
  <2> DEFINE k == Max(PowerNews(v))
  <2>1. k \in PowerNews(v)
    <3>1. Len(v) \in Nat /\ PowerNews(v) \in SUBSET (1 .. Len(v))
      BY DEF PowerNews
    <3> QED
      BY <1>2, <3>1, Greatest
  <2> HIDE DEF k
  <2>2. v[k] \in Heard /\ v[k].kind = "power"
    BY <2>1 DEF PowerNews
  <2>3. v[k].power \in Powers
    BY <2>2, Kinds
  <2> QED
    BY <1>2, <2>3 DEF HeardFrom, k
<1> QED
  BY <1>1, <1>2

LEMMA LearntType ==
    ASSUME NEW b \in [Addr -> States], NEW w \in Seq(Heard)
    PROVE  LearntFrom(b, w) \in [Addr -> States]
<1>1. ASSUME NEW a \in Addr, NEW g \in Groups
      PROVE  LearntFrom(b, w)[a][g] \in ValuesOf(g)
  <2>1. CASE About(w, a, g) = {}
    <3>1. b[a][g] \in ValuesOf(g)
      BY DEF States
    <3> QED
      BY <2>1, <3>1 DEF LearntFrom
  <2>2. CASE About(w, a, g) # {}
    <3> DEFINE k == Max(About(w, a, g))
    <3>1. k \in About(w, a, g)
      <4>1. Len(w) \in Nat /\ About(w, a, g) \in SUBSET (1 .. Len(w))
        BY DEF About
      <4> QED
        BY <2>2, <4>1, Greatest
    <3> HIDE DEF k
    <3>2. w[k] \in Heard /\ w[k].kind \in {"overheard", "own"} /\ w[k].group = g
      BY <3>1 DEF About
    <3>3. w[k].val \in ValuesOf(g)
      BY <3>2, Kinds
    <3> QED
      BY <2>2, <3>3 DEF LearntFrom, k
  <2> QED
    BY <2>1, <2>2
<1>2. ASSUME NEW a \in Addr
      PROVE  LearntFrom(b, w)[a] \in States
  <2>1. LearntFrom(b, w)[a] = [g \in Groups |-> LearntFrom(b, w)[a][g]]
    BY DEF LearntFrom
  <2>2. \A g \in Groups : ValuesOf(g) \subseteq Speeds \cup Bits
    BY DEF ValuesOf
  <2> QED
    BY <1>1, <2>1, <2>2 DEF States
<1>3. LearntFrom(b, w) = [a \in Addr |-> LearntFrom(b, w)[a]]
  BY DEF LearntFrom
<1> QED
  BY <1>2, <1>3

LEMMA AnswerType ==
    ASSUME NEW v \in Seq(Heard)
    PROVE  MayAnswer(v) \in Slots \cup {NoSlot}
<1>1. CASE Calls(v) = {}
  BY <1>1 DEF MayAnswer
<1>2. CASE Calls(v) # {}
  <2> DEFINE k == Max(Calls(v))
  <2>1. k \in Calls(v)
    <3>1. Len(v) \in Nat /\ Calls(v) \in SUBSET (1 .. Len(v))
      BY DEF Calls
    <3> QED
      BY <1>2, <3>1, Greatest
  <2> HIDE DEF k
  <2>2. v[k] \in Heard
    BY <2>1 DEF Calls
  <2>3. (v[k].kind = "inquiry") => v[k].slot \in Slots
    BY <2>2, Kinds
  <2>4. CalledBy(v[k]) \in Slots \cup {NoSlot}
    BY <2>3, XNetAssumption DEF CalledBy
  <2> QED
    BY <1>2, <2>4 DEF MayAnswer, k
<1> QED
  BY <1>1, <1>2

LEMMA AnswerNone ==
    ASSUME NEW v \in Seq(Heard), \A m \in Range(v) : m.kind \notin {"inquiry", "overheard"}
    PROVE  MayAnswer(v) = NoSlot
<1>1. CASE Calls(v) = {}
  BY <1>1 DEF MayAnswer
<1>2. CASE Calls(v) # {}
  <2> DEFINE k == Max(Calls(v))
  <2>1. k \in Calls(v)
    <3>1. Len(v) \in Nat /\ Calls(v) \in SUBSET (1 .. Len(v))
      BY DEF Calls
    <3> QED
      BY <1>2, <3>1, Greatest
  <2> HIDE DEF k
  <2>2. v[k] \in Range(v)
    BY <2>1 DEF Calls, Range
  <2>3. CalledBy(v[k]) = NoSlot
    BY <2>2 DEF CalledBy
  <2> QED
    BY <1>2, <2>3 DEF MayAnswer, k
<1> QED
  BY <1>1, <1>2

LEMMA AnswerLast ==
    ASSUME NEW w \in Seq(Heard), NEW s \in Slots
    PROVE  MayAnswer(w \o <<Inquiry(s)>>) = s
<1> DEFINE v == w \o <<Inquiry(s)>>
           n == Len(w) + 1
<1>1. n \in Nat /\ Len(v) = n /\ v[n] = Inquiry(s) /\ DOMAIN v = 1 .. n
  OBVIOUS
<1>2. n \in Calls(v) /\ Calls(v) \in SUBSET (1 .. n)
  BY <1>1 DEF Calls, Inquiry
<1>3. Max(Calls(v)) = n
  <2>1. Max(Calls(v)) \in Calls(v) /\ Max(Calls(v)) >= n
    BY <1>1, <1>2, Greatest
  <2> DEFINE M == Max(Calls(v))
  <2>2. M \in 1 .. n /\ M >= n
    BY <1>2, <2>1
  <2> HIDE DEF M, n
  <2>3. M = n
    BY <1>1, <2>2
  <2> QED
    BY <2>3 DEF M
<1>4. MayAnswer(v) = CalledBy(v[n])
  BY <1>2, <1>3 DEF MayAnswer
<1> QED
  BY <1>1, <1>4 DEF CalledBy, Inquiry

-----------------------------------------------------------------------------
(* What is put into the ring. *)
LEMMA RangeJoined ==
    ASSUME NEW T, NEW s \in Seq(T), NEW t \in Seq(T)
    PROVE  s \o t \in Seq(T) /\ Range(s \o t) = Range(s) \cup Range(t)
<1>1. s \o t \in Seq(T) /\ DOMAIN (s \o t) = 1 .. Len(s) + Len(t) /\ Len(s) \in Nat /\ Len(t) \in Nat
      /\ DOMAIN s = 1 .. Len(s) /\ DOMAIN t = 1 .. Len(t)
  OBVIOUS
<1>2. ASSUME NEW k \in 1 .. Len(s) + Len(t)
      PROVE  (s \o t)[k] \in Range(s) \cup Range(t)
  <2>1. (s \o t)[k] = IF k <= Len(s) THEN s[k] ELSE t[k - Len(s)]
    BY Joined
  <2>2. (k <= Len(s) => k \in DOMAIN s) /\ (~(k <= Len(s)) => k - Len(s) \in DOMAIN t)
    BY <1>1
  <2> QED
    BY <2>1, <2>2 DEF Range
<1>3. ASSUME NEW k \in 1 .. Len(s)
      PROVE  s[k] \in Range(s \o t)
  <2>1. (s \o t)[k] = s[k] /\ k \in DOMAIN (s \o t)
    BY <1>1
  <2> QED
    BY <2>1 DEF Range
<1>4. ASSUME NEW k \in 1 .. Len(t)
      PROVE  t[k] \in Range(s \o t)
  <2>1. (s \o t)[Len(s) + k] = t[k] /\ Len(s) + k \in DOMAIN (s \o t)
    BY <1>1
  <2> QED
    BY <2>1 DEF Range
<1> QED
  BY <1>1, <1>2, <1>3, <1>4 DEF Range

LEMMA RangeJoinedFour ==
    ASSUME NEW T, NEW a \in Seq(T), NEW b \in Seq(T), NEW c \in Seq(T), NEW d \in Seq(T)
    PROVE  /\ ((a \o b) \o c) \o d \in Seq(T)
           /\ Range(((a \o b) \o c) \o d) = Range(a) \cup Range(b) \cup Range(c) \cup Range(d)
<1>1. PICK ab \in Seq(T) : ab = a \o b /\ Range(ab) = Range(a) \cup Range(b)
  BY ZenonT(40), RangeJoined
<1>2. PICK abc \in Seq(T) : abc = ab \o c /\ Range(abc) = Range(ab) \cup Range(c)
  BY ZenonT(40), RangeJoined
<1>3. abc \o d \in Seq(T) /\ Range(abc \o d) = Range(abc) \cup Range(d)
  BY RangeJoined
<1> QED
  BY <1>1, <1>2, <1>3

LEMMA RangeOne ==
    ASSUME NEW T, NEW m \in T
    PROVE  <<m>> \in Seq(T) /\ Range(<<m>>) = {m}
  BY DEF Range

LEMMA RangeIf ==
    ASSUME NEW T, NEW s \in Seq(T), NEW c \in BOOLEAN
    PROVE  SeqIf(c, s) \in Seq(T) /\ Range(SeqIf(c, s)) = {m \in Range(s) : c}
<1>1. Range(<<>>) = {} /\ <<>> \in Seq(T)
  BY DEF Range
<1> QED
  BY <1>1 DEF SeqIf

LEMMA RangeRepeat ==
    ASSUME NEW T, NEW m \in T, NEW n \in Nat
    PROVE  Repeat(m, n) \in Seq(T) /\ Range(Repeat(m, n)) \subseteq {m}
  BY DEF Repeat, Range

LEMMA MessageTypes ==
    /\ \A s \in Slots : Inquiry(s) \in Messages /\ Reply(s) \in Messages
    /\ \A s \in Slots, a \in Addr : Busy(s, a) \in Messages
    /\ \A a \in Addr, g \in Groups : \A v \in ValuesOf(g) : Overheard(a, g, v) \in Messages
    /\ \A a \in Addr, g \in Groups : \A v \in ValuesOf(g) : Own(a, g, v) \in OwnMessages
    /\ Plain \in Messages
    /\ \A p \in Powers : PowerBroadcast(p) \in Messages
<1>1. \A a \in Addr, g \in Groups : \A v \in ValuesOf(g) : Overheard(a, g, v) \in Messages
  BY GroupsAre DEF Messages, ValuesOf
<1>2. \A a \in Addr, g \in Groups : \A v \in ValuesOf(g) : Own(a, g, v) \in OwnMessages
  BY GroupsAre DEF OwnMessages, ValuesOf
<1> QED
  BY <1>1, <1>2 DEF Messages

LEMMA SlotsFinite ==
    ASSUME NEW S, S \subseteq Slots
    PROVE  IsFiniteSet(S)
<1>1. SlotCount - 1 \in Int /\ 0 \in Int
  BY XNetAssumption
<1>2. IsFiniteSet(Slots)
  BY <1>1, FS_Interval DEF Slots
<1> QED
  BY <1>2, FS_Subset

LEMMA BusyContents ==
    ASSUME NEW S, S \subseteq Slots, NEW a \in Addr
    PROVE  /\ BusyTo(S, a) \in Seq(Messages)
           /\ \A m \in Range(BusyTo(S, a)) : m.kind = "busy"
<1> DEFINE to == SetToSeq(S)
<1>1. to \in Seq(S)
  BY SlotsFinite, Listed
<1> HIDE DEF to
<1>2. \A i \in 1 .. Len(to) : Busy(to[i], a) \in Messages
  BY <1>1, MessageTypes
<1>3. BusyTo(S, a) = [i \in 1 .. Len(to) |-> Busy(to[i], a)] /\ Len(to) \in Nat
  BY <1>1 DEF BusyTo, to
<1> QED
  BY <1>2, <1>3 DEF Range, Busy

Entries == [adr : Addr \cup {NoLoco}, st : States, dirty : SUBSET Groups]

LEMMA OverheardContents ==
    ASSUME NEW e \in Entries, e.adr \in Addr
    PROVE  /\ OverheardState(e) \in Seq(Messages)
           /\ Range(OverheardState(e)) = {Overheard(e.adr, g, e.st[g]) : g \in e.dirty}
<1> DEFINE part(g) == SeqIf(g \in e.dirty, <<Overheard(e.adr, g, e.st[g])>>)
           msg(g) == Overheard(e.adr, g, e.st[g])
           Part(g) == part(g) \in Seq(Messages) /\ Range(part(g)) = {m \in {msg(g)} : g \in e.dirty}
<1>1. ASSUME NEW g \in Groups
      PROVE  msg(g) \in Messages
  <2>1. e.st[g] \in ValuesOf(g)
    BY DEF Entries, States
  <2> QED
    BY <2>1, MessageTypes
<1>2. ASSUME NEW g, g \notin Groups
      PROVE  Part(g)
  <2>1. g \notin e.dirty
    BY <1>2 DEF Entries
  <2>2. part(g) = <<>>
    BY <2>1 DEF SeqIf
  <2>3. <<>> \in Seq(Messages) /\ Range(<<>>) = {}
    BY DEF Range
  <2>4. {m \in {msg(g)} : g \in e.dirty} = {}
    BY <2>1
  <2> HIDE DEF part, msg
  <2> QED
    BY <2>2, <2>3, <2>4
<1>3. ASSUME NEW g \in Groups
      PROVE  Part(g)
  <2>1. <<msg(g)>> \in Seq(Messages) /\ Range(<<msg(g)>>) = {msg(g)}
    <3> HIDE DEF msg
    <3> QED
      BY <1>1, RangeOne
  <2>2. (g \in e.dirty) \in BOOLEAN
    OBVIOUS
  <2> QED
    BY <2>1, <2>2, RangeIf
<1>4. Part("f0") /\ Part("f5") /\ Part("f9") /\ Part("speed")
  <2> HIDE DEF Part
  <2> QED
    BY <1>2, <1>3
<1>5. e.dirty \subseteq {"f0", "f5", "f9", "speed"}
  BY XNetAssumption DEF Entries, Groups
<1>6. OverheardState(e) = part("f0") \o part("f5") \o part("f9") \o part("speed")
  BY DEF OverheardState
<1> DEFINE A == part("f0")
           B == part("f5")
           C == part("f9")
           D == part("speed")
<1>7. /\ A \in Seq(Messages) /\ B \in Seq(Messages) /\ C \in Seq(Messages) /\ D \in Seq(Messages)
      /\ Range(A) = {m \in {msg("f0")} : "f0" \in e.dirty}
      /\ Range(B) = {m \in {msg("f5")} : "f5" \in e.dirty}
      /\ Range(C) = {m \in {msg("f9")} : "f9" \in e.dirty}
      /\ Range(D) = {m \in {msg("speed")} : "speed" \in e.dirty}
  <2> HIDE DEF part, msg
  <2> QED
    BY <1>4
<1>8. OverheardState(e) = ((A \o B) \o C) \o D
  <2> HIDE DEF part
  <2> QED
    BY <1>6, Zenon
<1> HIDE DEF A, B, C, D, part, msg, Part
<1>9. Range(A) \cup Range(B) \cup Range(C) \cup Range(D) = {msg(g) : g \in e.dirty}
  BY <1>5, <1>7
<1>10. /\ ((A \o B) \o C) \o D \in Seq(Messages)
       /\ Range(((A \o B) \o C) \o D) = Range(A) \cup Range(B) \cup Range(C) \cup Range(D)
  BY <1>7, RangeJoinedFour
<1> QED
  BY <1>8, <1>9, <1>10 DEF msg

LEMMA SlotsKept == ASSUME TypeOK PROVE slots \in [Slots -> Addr \cup {Inactive, NoLoco}]
  BY DEF TypeOK

LEMMA RefreshContents ==
    ASSUME TypeOK, NEW e \in Entries, e.adr \in Addr
    PROVE  /\ Refresh(e) \in Seq(Messages)
           /\ \A m \in Range(Refresh(e)) : m.kind \in {"overheard", "busy"}
           /\ \A m \in Range(Refresh(e)) :
                (m.kind = "overheard") =>
                    m.adr = e.adr /\ m.group \in e.dirty /\ m.val = e.st[m.group]
           /\ \A g \in e.dirty : Overheard(e.adr, g, e.st[g]) \in Range(Refresh(e))
<1>1. Notified(e.adr) \subseteq Slots
  BY DEF Notified, Holders, FirstPresent, Present
<1>2. /\ BusyTo(Notified(e.adr), e.adr) \in Seq(Messages)
      /\ \A m \in Range(BusyTo(Notified(e.adr), e.adr)) : m.kind = "busy"
  BY <1>1, BusyContents
<1>3. /\ OverheardState(e) \in Seq(Messages)
      /\ Range(OverheardState(e)) = {Overheard(e.adr, g, e.st[g]) : g \in e.dirty}
  BY OverheardContents
<1>4. /\ Refresh(e) \in Seq(Messages)
      /\ Range(Refresh(e))
            = Range(OverheardState(e)) \cup Range(BusyTo(Notified(e.adr), e.adr))
  BY <1>2, <1>3, RangeJoined DEF Refresh
<1>5. \A m \in Range(OverheardState(e)) :
        m.kind = "overheard" /\ m.adr = e.adr /\ m.group \in e.dirty /\ m.val = e.st[m.group]
  BY <1>3 DEF Overheard
<1> QED
  BY <1>2, <1>3, <1>4, <1>5

LEMMA BusyNoticesContents ==
    ASSUME NEW a \in Addr
    PROVE  BusyNotices(a) \in Seq(Messages) /\ \A m \in Range(BusyNotices(a)) : m.kind = "busy"
<1>1. Losers(a) \subseteq Slots
  BY DEF Losers
<1> QED
  BY <1>1, BusyContents DEF BusyNotices

(* getNextXNetAdr() stays in its range. *)
LEMMA PollType ==
    ASSUME xnetAdr \in 0 .. AdrRange - 1
    PROVE  NextPoll.adr \in 0 .. AdrRange - 1 /\ NextPoll.slot \in Slots
<1> DEFINE n == NextAdr(xnetAdr, AdrRange)
           active == {s \in Slots : slots[s] # Inactive}
           stop == Stop(n % SlotCount, active, SlotCount)
<1>1. SlotCount \in Nat /\ SlotCount > 1 /\ AdrRange \in Nat /\ AdrRange > SlotCount
      /\ SlotCount # 0 /\ AdrRange # 0
  BY XNetAssumption
<1>2. n \in 1 .. AdrRange - 1
  <2>1. CASE (xnetAdr + 1) % AdrRange = 0
    BY <2>1, <1>1 DEF NextAdr
  <2>2. CASE (xnetAdr + 1) % AdrRange # 0
    <3>1. xnetAdr + 1 # AdrRange
      BY <2>2, <1>1, FullMod
    <3>2. n = xnetAdr + 1
      BY <2>2 DEF NextAdr
    <3> QED
      BY <3>1, <3>2, <1>1
  <2> QED
    BY <2>1, <2>2
<1> HIDE DEF n
<1>3. n \in Nat
  BY <1>2, <1>1
<1>4. n % SlotCount \in 0 .. SlotCount - 1
  BY <1>3, <1>1, ModRange
<1>5. stop \in n % SlotCount .. SlotCount
  <2> DEFINE ahead == {s \in active : s >= n % SlotCount}
  <2>1. CASE ahead = {}
    BY <2>1, <1>1, <1>4 DEF Stop
  <2>2. CASE ahead # {}
    <3>1. ahead \in SUBSET Nat
      BY <1>1 DEF Slots
    <3>2. \E s \in ahead : \A t \in ahead : s <= t
      <4> HIDE DEF ahead
      <4> QED
        BY <2>2, <3>1, Least
    <3>3. stop \in ahead
      BY <2>2, <3>2 DEF Stop
    <3> QED
      BY <3>3, <1>1, <1>4 DEF Slots
  <2> QED
    BY <2>1, <2>2
<1>6. NextPoll = IF n < SlotCount THEN [adr |-> n, slot |-> n % SlotCount]
                 ELSE [adr |-> ((n + stop) - (n % SlotCount)) % AdrRange,
                       slot |-> IF stop % SlotCount = 0 THEN 1 ELSE stop]
  BY DEF NextPoll, Poll, n
<1> HIDE DEF stop
<1>7. CASE n < SlotCount
  BY <1>2, <1>4, <1>6, <1>7 DEF Slots
<1>8. CASE ~(n < SlotCount)
  <2>1. (n + stop) - (n % SlotCount) \in Nat
    BY <1>3, <1>4, <1>5, <1>1
  <2>2. ((n + stop) - (n % SlotCount)) % AdrRange \in 0 .. AdrRange - 1
    BY <2>1, <1>1, ModRange
  <2>3. (IF stop % SlotCount = 0 THEN 1 ELSE stop) \in Slots
    <3>1. CASE stop = SlotCount
      BY <3>1, <1>1, FullMod DEF Slots
    <3>2. CASE stop # SlotCount
      BY <3>2, <1>1, <1>4, <1>5 DEF Slots
    <3> QED
      BY <3>1, <3>2
  <2> QED
    BY <2>2, <2>3, <1>6, <1>8
<1> QED
  BY <1>7, <1>8

-----------------------------------------------------------------------------
(* TypeOK, with what it needs: no device is called before one was asked,   *)
(* and a place without a loco is one that is not used.                     *)
TypeInv ==
    /\ TypeOK
    /\ asked = NoSlot => called = NoSlot
    /\ \A i \in 1 .. PendingCount : pending[i].adr = NoLoco => pending[i] = Unused

LEMMA StateValues ==
    /\ Default \in States
    /\ \A st \in States, g \in Groups : st[g] \in ValuesOf(g)
    /\ \A st \in States, g \in Groups : \A v \in ValuesOf(g) :
          /\ [st EXCEPT ![g] = v] \in States
          /\ [st EXCEPT ![g] = v][g] = v
          /\ \A h \in Groups : h # g => [st EXCEPT ![g] = v][h] = st[h]
    /\ ValuesOf("speed") = Speeds /\ \A g \in FnGroups : ValuesOf(g) = Bits
<1>1. Default \in States
  BY XNetAssumption DEF Default, States, ValuesOf
<1>2. \A st \in States, g \in Groups : st[g] \in ValuesOf(g)
  BY DEF States
<1>3. ASSUME NEW st \in States, NEW g \in Groups, NEW v \in ValuesOf(g)
      PROVE  /\ [st EXCEPT ![g] = v] \in States
             /\ [st EXCEPT ![g] = v][g] = v
             /\ \A h \in Groups : h # g => [st EXCEPT ![g] = v][h] = st[h]
  <2>1. v \in Speeds \cup Bits
    BY DEF ValuesOf
  <2>2. st \in [Groups -> Speeds \cup Bits]
    BY DEF States
  <2> QED
    BY <2>1, <2>2 DEF States
<1> QED
  BY <1>1, <1>2, <1>3, GroupsAre DEF ValuesOf

LEMMA TransmitType ==
    ASSUME TypeOK, NEW q \in Rings, NEW before \in Seq(OwnMessages), Transmit(q, before)
    PROVE  /\ tx' \in Rings /\ bus' \in [Addr -> States] /\ heardPower' \in Powers
           /\ called' \in Slots \cup {NoSlot}
<1>1. tx' = Sent(q)
  BY DEF Transmit
<1>2. PICK wire \in {before \o Unsent(q)} :
        bus' = Learnt(wire) /\ heardPower' = PowerHeard(wire) /\ called' = MayAnswer(wire)
  BY DEF Transmit
<1>3. wire \in Seq(Heard)
  <2>1. before \in Seq(Heard)
    BY DEF Heard
  <2>2. PICK u \in Seq(Heard) : u = Unsent(q)
    BY UnsentType DEF Heard
  <2>3. before \o u \in Seq(Heard)
    BY <2>1
  <2> QED
    BY <2>2, <2>3
<1>4. bus \in [Addr -> States] /\ heardPower \in Powers
  BY DEF TypeOK
<1>5. Learnt(wire) = LearntFrom(bus, wire) /\ PowerHeard(wire) = HeardFrom(heardPower, wire)
  BY DEF Learnt, LearntFrom, PowerHeard, HeardFrom
<1>6. LearntFrom(bus, wire) \in [Addr -> States]
  BY <1>3, <1>4, LearntType
<1>7. HeardFrom(heardPower, wire) \in Powers
  BY <1>3, <1>4, PowerType
<1>8. MayAnswer(wire) \in Slots \cup {NoSlot}
  BY <1>3, AnswerType
<1>9. Sent(q) \in Rings
  BY SentType
<1> QED
  BY <1>1, <1>2, <1>5, <1>6, <1>7, <1>8, <1>9

LEMMA ReceivedType ==
    ASSUME TypeInv, NEW d \in Devices, NEW own \in Seq(OwnMessages), NEW replies \in Seq(Messages),
           NEW use \in [Slots -> Addr \cup {Inactive, NoLoco}], Received(d, own, replies, use)
    PROVE  /\ place' = 1 /\ xnetAdr' = xnetAdr /\ asked' = asked /\ asked \in Slots
           /\ slots' = use /\ tx' \in Rings /\ pending' = pending /\ resting' = resting
           /\ bus' \in [Addr -> States] /\ heardPower' \in Powers
           /\ called' \in Slots \cup {NoSlot} /\ overrun' \in BOOLEAN /\ ops' \in 0 .. MaxOps
<1>1. asked \in Slots
  BY XNetAssumption DEF TypeInv, TypeOK, Received
<1>2. tx \in Rings /\ TypeOK
  BY DEF TypeInv, TypeOK, Rings
<1>3. PICK q \in {Queued(tx, replies)} : Transmit(q, own)
  BY DEF Received
<1>4. q \in Rings
  BY <1>2, QueuedType
<1>5. /\ tx' \in Rings /\ bus' \in [Addr -> States] /\ heardPower' \in Powers
      /\ called' \in Slots \cup {NoSlot}
  BY <1>2, <1>3, <1>4, TransmitType
<1>6. overrun' \in BOOLEAN /\ ops' \in 0 .. MaxOps
  BY <1>2, XNetAssumption DEF Received, Operate, TypeOK
<1> QED
  BY <1>1, <1>5, <1>6 DEF Received

Books == [1 .. KnownCount -> [adr : Addr \cup {NoLoco}, st : States]]

LEMMA KnownLeast ==
    ASSUME NEW a, KnownAt(a) # {}
    PROVE  Min(KnownAt(a)) \in KnownAt(a) /\ Min(KnownAt(a)) \in 1 .. KnownCount
<1>1. KnownAt(a) \in SUBSET Nat /\ KnownAt(a) \subseteq 1 .. KnownCount
  BY XNetAssumption DEF KnownAt
<1>2. \E x \in KnownAt(a) : \A y \in KnownAt(a) : x <= y
  BY <1>1, Least
<1>3. Min(KnownAt(a)) \in KnownAt(a)
  BY <1>2 DEF Min
<1> QED
  BY <1>1, <1>3

LEMMA RememberType ==
    ASSUME TypeOK, NEW a \in Addr, NEW st \in States, Remember(a, st)
    PROVE  known' \in Books /\ knownNext' \in 1 .. KnownCount
<1> DEFINE k == IF KnownAt(a) # {} THEN Min(KnownAt(a)) ELSE knownNext
<1>1. known \in Books /\ knownNext \in 1 .. KnownCount /\ KnownCount \in Nat /\ KnownCount # 0
  BY XNetAssumption DEF TypeOK, Books
<1>2. k \in 1 .. KnownCount
  BY <1>1, KnownLeast
<1>3. known' = [known EXCEPT ![k] = [adr |-> a, st |-> st]]
      /\ knownNext' = IF KnownAt(a) # {} THEN knownNext ELSE (knownNext % KnownCount) + 1
  BY DEF Remember
<1> HIDE DEF k
<1>4. known' \in Books
  BY <1>1, <1>2, <1>3 DEF Books
<1>5. (knownNext % KnownCount) + 1 \in 1 .. KnownCount
  <2>1. knownNext \in Nat
    BY <1>1
  <2>2. knownNext % KnownCount \in 0 .. KnownCount - 1
    BY <1>1, <2>1, ModRange
  <2> QED
    BY <1>1, <2>2
<1> QED
  BY <1>1, <1>3, <1>4, <1>5

(* QueueLocoRefresh() takes the place the loco has, or a free one. *)
LEMMA PlaceTaken ==
    ASSUME TypeOK, NEW a \in Addr, NEW i \in PlaceFor(a)
    PROVE  /\ i \in 1 .. PendingCount
           /\ \/ pending[i].adr = a
              \/ pending[i] = Unused /\ \A j \in 1 .. PendingCount : pending[j].adr # a
<1> DEFINE same == {j \in 1 .. PendingCount : pending[j].adr = a}
           free == {j \in 1 .. PendingCount : pending[j] = Unused}
<1>1. PlaceFor(a) = IF same # {} THEN same ELSE IF free # {} THEN {Min(free)} ELSE {}
  BY DEF PlaceFor, Places
<1>2. CASE same # {}
  BY <1>1, <1>2
<1>3. CASE same = {} /\ free # {}
  <2>1. free \in SUBSET Nat
    BY XNetAssumption
  <2>2. \E x \in free : \A y \in free : x <= y
    <3> HIDE DEF free
    <3> QED
      BY <2>1, <1>3, Least
  <2>3. Min(free) \in free
    BY <2>2 DEF Min
  <2> QED
    BY <1>1, <1>3, <2>3
<1> QED
  BY <1>1, <1>2, <1>3

LEMMA QueueType ==
    ASSUME TypeOK, NEW a \in Addr, NEW st \in States, QueueLocoRefresh(a, st)
    PROVE  /\ known' \in Books /\ knownNext' \in 1 .. KnownCount
           /\ pending' \in [1 .. PendingCount -> Entries] /\ unshown' \subseteq Addr \X Groups
<1>1. known' \in Books /\ knownNext' \in 1 .. KnownCount
  BY RememberType DEF QueueLocoRefresh
<1>2. pending \in [1 .. PendingCount -> Entries] /\ unshown \subseteq Addr \X Groups
  BY DEF TypeOK, Entries
<1>3. Changed(a, st) \subseteq Groups
  BY DEF Changed
<1>4. CASE Changed(a, st) = {} \/ PlaceFor(a) = {}
  <2>1. pending' = pending /\ unshown' = unshown \cup ({a} \X Changed(a, st))
    BY <1>4 DEF QueueLocoRefresh
  <2>2. {a} \X Changed(a, st) \subseteq Addr \X Groups
    BY <1>3
  <2> QED
    BY <1>1, <1>2, <2>1, <2>2
<1>5. CASE ~(Changed(a, st) = {} \/ PlaceFor(a) = {})
  <2> DEFINE i == CHOOSE i \in PlaceFor(a) : TRUE
             dirty == Dirty(i, a, st)
  <2>1. /\ pending' = [pending EXCEPT ![i] = [adr |-> a, st |-> st, dirty |-> dirty]]
        /\ unshown' = unshown \ ({a} \X dirty)
    BY <1>5 DEF QueueLocoRefresh
  <2>2. i \in PlaceFor(a)
    BY <1>5
  <2>3. i \in 1 .. PendingCount
    BY <2>2, PlaceTaken
  <2> HIDE DEF i
  <2>4. dirty \subseteq Groups
    BY <1>2, <1>3, <2>3 DEF Dirty, Entries
  <2> HIDE DEF dirty
  <2>5. [adr |-> a, st |-> st, dirty |-> dirty] \in Entries
    BY <2>4 DEF Entries
  <2> QED
    BY <1>1, <1>2, <2>1, <2>3, <2>5
<1> QED
  BY <1>1, <1>4, <1>5

LEMMA TypeParts ==
    TypeOK <=> /\ place \in 0 .. PendingCount + 1 /\ xnetAdr \in 0 .. AdrRange - 1
               /\ asked \in Slots \cup {NoSlot} /\ called \in Slots \cup {NoSlot}
               /\ slots \in [Slots -> Addr \cup {Inactive, NoLoco}]
               /\ tx \in Rings /\ known \in Books /\ knownNext \in 1 .. KnownCount
               /\ pending \in [1 .. PendingCount -> Entries] /\ resting \subseteq 1 .. PendingCount
               /\ railpower \in Powers /\ heardPower \in Powers
               /\ table \in [Addr -> States] /\ bus \in [Addr -> States]
               /\ overrun \in BOOLEAN /\ unshown \subseteq Addr \X Groups /\ ops \in 0 .. MaxOps
  BY DEF TypeOK, Rings, Books, Entries

LEMMA InitType == Init => TypeInv
<1> SUFFICES ASSUME Init PROVE TypeInv
  OBVIOUS
<1>1. /\ SlotCount \in Nat /\ AdrRange \in Nat \ {0} /\ RingSize \in Nat \ {0}
      /\ PendingCount \in Nat \ {0} /\ KnownCount \in Nat \ {0} /\ MaxOps \in Nat
  BY XNetAssumption
<1>2. Default \in States
  BY StateValues
<1>3. PowerBroadcast("csNormal") \in Messages
  BY MessageTypes DEF Powers
<1>4. 1 % RingSize \in 0 .. RingSize - 1
  <2>1. 1 \in Nat
    OBVIOUS
  <2> QED
    BY <1>1, <2>1, ModRange
<1>5. tx \in Rings
  BY <1>3, <1>4 DEF Init, Rings
<1>6. known \in Books /\ pending \in [1 .. PendingCount -> Entries]
  BY <1>2 DEF Init, Books, Entries, Unused
<1>7. /\ place \in 0 .. PendingCount + 1 /\ xnetAdr \in 0 .. AdrRange - 1
      /\ knownNext \in 1 .. KnownCount /\ ops \in 0 .. MaxOps
  BY <1>1 DEF Init
<1>8. /\ asked \in Slots \cup {NoSlot} /\ called \in Slots \cup {NoSlot}
      /\ slots \in [Slots -> Addr \cup {Inactive, NoLoco}] /\ resting \subseteq 1 .. PendingCount
      /\ railpower \in Powers /\ heardPower \in Powers
      /\ overrun \in BOOLEAN /\ unshown \subseteq Addr \X Groups
  BY DEF Init, Powers
<1>9. table \in [Addr -> States] /\ bus \in [Addr -> States]
  BY <1>2 DEF Init
<1>10. TypeOK
  BY <1>5, <1>6, <1>7, <1>8, <1>9 DEF TypeOK, Rings, Books, Entries
<1> QED
  BY <1>10 DEF TypeInv, Init, Unused

LEMMA TimeoutType == ASSUME TypeInv, Timeout PROVE TypeInv'
<1>1. PendingCount \in Nat
  BY XNetAssumption
<1> QED
  BY <1>1 DEF TypeInv, TypeOK, Timeout

LEMMA FlushType ==
    ASSUME TypeInv, NEW i \in 1 .. PendingCount, FlushPlace(i)
    PROVE  TypeInv'
<1>1. /\ tx \in Rings /\ pending \in [1 .. PendingCount -> Entries] /\ Unused \in Entries
      /\ TypeOK /\ PendingCount \in Nat
  BY StateValues, XNetAssumption DEF TypeInv, TypeOK, Rings, Entries, Unused
<1>2. tx' \in Rings
  <2>1. pending[i] \in Entries /\ pending[i].adr \in Addr
    BY <1>1 DEF Entries, TypeInv, FlushPlace, Due
  <2>2. PICK msgs \in Seq(Messages) : msgs = Refresh(pending[i])
    BY <1>1, <2>1, RefreshContents
  <2>3. Queued(tx, msgs) \in Rings
    BY <1>1, QueuedType
  <2> QED
    BY <2>2, <2>3 DEF FlushPlace
<1>3. pending' \in [1 .. PendingCount -> Entries]
      /\ \A j \in 1 .. PendingCount : pending'[j].adr = NoLoco => pending'[j] = Unused
  BY <1>1 DEF FlushPlace, TypeInv
<1>4. place' \in 0 .. PendingCount + 1 /\ overrun' \in BOOLEAN /\ resting' \subseteq 1 .. PendingCount
  BY <1>1 DEF FlushPlace, TypeOK
<1>5. TypeOK'
  BY <1>1, <1>2, <1>3, <1>4 DEF TypeOK, FlushPlace, Rings, Entries
<1> QED
  BY <1>3, <1>5 DEF TypeInv, FlushPlace

LEMMA OpenType == ASSUME TypeInv, OpenWindow PROVE TypeInv'
<1>1. TypeOK /\ tx \in Rings /\ PendingCount \in Nat
  BY XNetAssumption DEF TypeInv, TypeOK, Rings
<1>2. xnetAdr' \in 0 .. AdrRange - 1 /\ asked' \in Slots /\ NextPoll.slot \in Slots
  <2>1. xnetAdr' = NextPoll.adr /\ asked' = NextPoll.slot
    BY DEF OpenWindow
  <2>2. xnetAdr \in 0 .. AdrRange - 1
    BY <1>1 DEF TypeOK
  <2> QED
    BY <2>1, <2>2, PollType
<1>3. PICK s \in Slots : s = NextPoll.slot
  BY <1>2
<1>4. PICK q \in {Opened(tx, s)} : Transmit(q, <<>>)
  BY <1>3 DEF OpenWindow
<1>5. q \in Rings
  <2>1. <<Inquiry(s)>> \in Seq(Messages)
    BY MessageTypes
  <2>2. PICK msgs \in Seq(Messages) : msgs = <<Inquiry(s)>>
    BY <2>1
  <2>3. Queued(tx, msgs) \in Rings
    BY <1>1, QueuedType
  <2> QED
    BY <2>2, <2>3 DEF Opened
<1>6. PICK before \in Seq(OwnMessages) : before = <<>>
  <2>1. <<>> \in Seq(OwnMessages)
    OBVIOUS
  <2> QED
    BY <2>1, Zenon
<1>7. /\ tx' \in Rings /\ bus' \in [Addr -> States] /\ heardPower' \in Powers
      /\ called' \in Slots \cup {NoSlot}
  BY <1>1, <1>4, <1>5, <1>6, TransmitType
<1>8. overrun' \in BOOLEAN /\ place' = 0
  BY <1>1 DEF OpenWindow, TypeOK
<1>9. TypeOK'
  BY <1>1, <1>2, <1>7, <1>8 DEF TypeOK, OpenWindow, Rings
<1> QED
  BY <1>2, <1>9, XNetAssumption DEF TypeInv, OpenWindow

LEMMA WithLocoType ==
    ASSUME TypeOK, NEW a \in Addr
    PROVE  WithLoco(a) \in [Slots -> Addr \cup {Inactive, NoLoco}]
  BY DEF TypeOK, WithLoco

(* All answers: what they book, and what they leave to the caller. *)
LEMMA AnsweredType ==
    ASSUME TypeInv, NEW d \in Devices, NEW own \in Seq(OwnMessages), NEW replies \in Seq(Messages),
           NEW use \in [Slots -> Addr \cup {Inactive, NoLoco}], Received(d, own, replies, use),
           known' \in Books, knownNext' \in 1 .. KnownCount, railpower' \in Powers,
           table' \in [Addr -> States], unshown' \subseteq Addr \X Groups
    PROVE  TypeInv'
<1>1. /\ place' = 1 /\ xnetAdr' = xnetAdr /\ asked' = asked /\ asked \in Slots
      /\ slots' = use /\ tx' \in Rings /\ pending' = pending /\ resting' = resting
      /\ bus' \in [Addr -> States] /\ heardPower' \in Powers
      /\ called' \in Slots \cup {NoSlot} /\ overrun' \in BOOLEAN /\ ops' \in 0 .. MaxOps
  BY ReceivedType
<1>2. PendingCount \in Nat /\ TypeOK
  BY XNetAssumption DEF TypeInv
<1>3. TypeOK'
  BY <1>1, <1>2 DEF TypeOK, Rings, Books
<1> QED
  BY <1>1, <1>3, XNetAssumption DEF TypeInv

LEMMA AskedSlot ==
    ASSUME TypeInv, NEW d \in Devices, NEW own, NEW replies, NEW use, Received(d, own, replies, use)
    PROVE  asked \in Slots
  BY XNetAssumption DEF TypeInv, TypeOK, Received

LEMMA TablesKept ==
    ASSUME TypeInv
    PROVE  /\ TypeOK /\ known \in Books /\ knownNext \in 1 .. KnownCount /\ railpower \in Powers
           /\ table \in [Addr -> States] /\ unshown \subseteq Addr \X Groups
           /\ slots \in [Slots -> Addr \cup {Inactive, NoLoco}] /\ tx \in Rings
           /\ pending \in [1 .. PendingCount -> Entries]
  BY DEF TypeInv, TypeOK, Books, Rings, Entries

LEMMA OwnOne ==
    ASSUME NEW a \in Addr, NEW g \in Groups, NEW v \in ValuesOf(g)
    PROVE  <<Own(a, g, v)>> \in Seq(OwnMessages)
  BY MessageTypes

LEMMA UndoneType ==
    ASSUME TypeInv, NEW a \in Addr, NEW g \in Groups
    PROVE  Undone(a, g) \subseteq Addr \X Groups
<1>1. <<a, g>> \in Addr \X Groups /\ unshown \subseteq Addr \X Groups
  BY TablesKept
<1> QED
  BY <1>1 DEF Undone

LEMMA DriveType ==
    ASSUME TypeInv, NEW d \in Devices, NEW a \in Addr, NEW v \in Speeds, Drive(d, a, v)
    PROVE  TypeInv'
<1> DEFINE st == [table[a] EXCEPT !["speed"] = v]
<1>1. st \in States
  BY TablesKept, StateValues, GroupsAre
<1>2. /\ Received(d, <<Own(a, "speed", v)>>, BusyNotices(a), WithLoco(a))
      /\ table' = [table EXCEPT ![a] = st] /\ Remember(a, st)
      /\ unshown' = Undone(a, "speed") /\ railpower' = railpower
  BY DEF Drive
<1> HIDE DEF st
<1>3. PICK own \in Seq(OwnMessages) : own = <<Own(a, "speed", v)>>
  BY OwnOne, StateValues, GroupsAre
<1>4. PICK replies \in Seq(Messages) : replies = BusyNotices(a)
  BY BusyNoticesContents
<1>5. PICK use \in [Slots -> Addr \cup {Inactive, NoLoco}] : use = WithLoco(a)
  BY TablesKept, WithLocoType
<1>6. Received(d, own, replies, use)
  BY <1>2, <1>3, <1>4, <1>5
<1>7. known' \in Books /\ knownNext' \in 1 .. KnownCount
  BY <1>1, <1>2, TablesKept, RememberType
<1>8. table' \in [Addr -> States] /\ railpower' \in Powers /\ unshown' \subseteq Addr \X Groups
  BY <1>1, <1>2, TablesKept, UndoneType, GroupsAre
<1> QED
  BY <1>6, <1>7, <1>8, AnsweredType

LEMMA PressContents ==
    ASSUME NEW a \in Addr, asked \in Slots
    PROVE  /\ Append(BusyNotices(a), Reply(asked)) \in Seq(Messages)
           /\ \A m \in Range(Append(BusyNotices(a), Reply(asked))) : m.kind \in {"busy", "reply"}
<1>1. PICK s \in Seq(Messages) : s = BusyNotices(a) /\ \A m \in Range(s) : m.kind = "busy"
  BY BusyNoticesContents
<1>2. PICK t \in Seq(Messages) : t = <<Reply(asked)>> /\ Range(t) = {Reply(asked)}
  BY MessageTypes, RangeOne
<1>3. s \o t \in Seq(Messages) /\ Range(s \o t) = Range(s) \cup Range(t)
  BY RangeJoined
<1>4. Append(BusyNotices(a), Reply(asked)) = s \o t
  BY <1>1, <1>2
<1>5. Reply(asked).kind = "reply"
  BY DEF Reply
<1>6. \A m \in Range(s \o t) : m.kind \in {"busy", "reply"}
  BY <1>1, <1>2, <1>3, <1>5
<1> QED
  BY <1>3, <1>4, <1>6

LEMMA PressType ==
    ASSUME TypeInv, NEW d \in Devices, NEW a \in Addr, NEW g \in FnGroups, NEW F \in Bits,
           PressFunction(d, a, g, F)
    PROVE  TypeInv'
<1> DEFINE st == [table[a] EXCEPT ![g] = F]
<1>1. st \in States /\ g \in Groups
  BY TablesKept, StateValues, GroupsAre
<1>2. /\ Received(d, <<Own(a, g, F)>>, Append(BusyNotices(a), Reply(asked)), WithLoco(a))
      /\ table' = [table EXCEPT ![a] = st] /\ Remember(a, st)
      /\ unshown' = Undone(a, g) /\ railpower' = railpower
  BY DEF PressFunction
<1> HIDE DEF st
<1>3. PICK own \in Seq(OwnMessages) : own = <<Own(a, g, F)>>
  BY <1>1, OwnOne, StateValues
<1>4. PICK replies \in Seq(Messages) : replies = Append(BusyNotices(a), Reply(asked))
  BY <1>2, AskedSlot, PressContents
<1>5. PICK use \in [Slots -> Addr \cup {Inactive, NoLoco}] : use = WithLoco(a)
  BY TablesKept, WithLocoType
<1>6. Received(d, own, replies, use)
  BY <1>2, <1>3, <1>4, <1>5
<1>7. known' \in Books /\ knownNext' \in 1 .. KnownCount
  BY <1>1, <1>2, TablesKept, RememberType
<1>8. table' \in [Addr -> States] /\ railpower' \in Powers /\ unshown' \subseteq Addr \X Groups
  BY <1>1, <1>2, TablesKept, UndoneType
<1> QED
  BY <1>6, <1>7, <1>8, AnsweredType

LEMMA NoneOwn == <<>> \in Seq(OwnMessages) /\ Range(<<>>) = {}
  BY DEF Range

(* The answers that change nothing but the slots. *)
LEMMA PlainAnswerType ==
    ASSUME TypeInv, NEW d \in Devices, NEW replies \in Seq(Messages),
           NEW use \in [Slots -> Addr \cup {Inactive, NoLoco}], Received(d, <<>>, replies, use),
           UNCHANGED <<known, knownNext, railpower, table, unshown>>
    PROVE  TypeInv'
<1>1. PICK own \in Seq(OwnMessages) : own = <<>>
  BY NoneOwn, Zenon
<1>2. Received(d, own, replies, use)
  BY <1>1
<1>3. /\ known' \in Books /\ knownNext' \in 1 .. KnownCount /\ railpower' \in Powers
      /\ table' \in [Addr -> States] /\ unshown' \subseteq Addr \X Groups
  BY TablesKept
<1> QED
  BY <1>2, <1>3, AnsweredType

LEMMA RefusedType ==
    ASSUME TypeInv, NEW d \in Devices, NEW a \in Addr, RefusedDrive(d, a)
    PROVE  TypeInv'
<1>1. PICK replies \in Seq(Messages) : replies = BusyNotices(a)
  BY BusyNoticesContents
<1>2. PICK use \in [Slots -> Addr \cup {Inactive, NoLoco}] : use = WithLoco(a)
  BY TablesKept, WithLocoType
<1>3. /\ Received(d, <<>>, replies, use)
      /\ UNCHANGED <<known, knownNext, railpower, table, unshown>>
  BY <1>1, <1>2 DEF RefusedDrive
<1> QED
  BY <1>3, PlainAnswerType

LEMMA ReplyOne ==
    ASSUME asked \in Slots
    PROVE  \E r \in Seq(Messages) : r = <<Reply(asked)>> /\ Range(r) = {Reply(asked)}
<1>1. PICK r \in Messages : r = Reply(asked)
  BY MessageTypes
<1>2. <<r>> \in Seq(Messages) /\ Range(<<r>>) = {r}
  BY RangeOne
<1> QED
  BY <1>1, <1>2

LEMMA SelectType ==
    ASSUME TypeInv, NEW d \in Devices, NEW a \in Addr, Select(d, a)
    PROVE  TypeInv'
<1>1. asked \in Slots
  BY AskedSlot DEF Select
<1>2. PICK replies \in Seq(Messages) : replies = <<Reply(asked)>>
  BY <1>1, ReplyOne
<1>3. PICK use \in [Slots -> Addr \cup {Inactive, NoLoco}] : use = [slots EXCEPT ![asked] = a]
  BY <1>1, TablesKept
<1>4. /\ Received(d, <<>>, replies, use)
      /\ UNCHANGED <<known, knownNext, railpower, table, unshown>>
  BY <1>2, <1>3 DEF Select
<1> QED
  BY <1>4, PlainAnswerType

LEMMA AskStatusType ==
    ASSUME TypeInv, NEW d \in Devices, AskStatus(d)
    PROVE  TypeInv'
<1>1. asked \in Slots
  BY AskedSlot DEF AskStatus
<1>2. PICK replies \in Seq(Messages) : replies = <<Reply(asked)>>
  BY <1>1, ReplyOne
<1>3. PICK use \in [Slots -> Addr \cup {Inactive, NoLoco}] :
        use = [slots EXCEPT ![asked] = IF @ = Inactive THEN NoLoco ELSE @]
  BY <1>1, TablesKept
<1>4. /\ Received(d, <<>>, replies, use)
      /\ UNCHANGED <<known, knownNext, railpower, table, unshown>>
  BY <1>2, <1>3 DEF AskStatus
<1> QED
  BY <1>4, PlainAnswerType

LEMMA OtherRequestType ==
    ASSUME TypeInv, NEW d \in Devices, OtherRequest(d)
    PROVE  TypeInv'
<1>1. asked \in Slots
  BY AskedSlot DEF OtherRequest
<1>2. PICK replies \in Seq(Messages) : replies = <<Reply(asked)>>
  BY <1>1, ReplyOne
<1>3. PICK use \in [Slots -> Addr \cup {Inactive, NoLoco}] : use = slots
  BY TablesKept
<1>4. /\ Received(d, <<>>, replies, use)
      /\ UNCHANGED <<known, knownNext, railpower, table, unshown>>
  BY <1>2, <1>3 DEF OtherRequest
<1> QED
  BY <1>4, PlainAnswerType

LEMMA StopContents ==
    StopMessages \in Seq(Messages) /\ \A m \in Range(StopMessages) : m = Plain
<1>1. Cardinality(Addr) \in Nat
  BY XNetAssumption, FS_CardinalityType
<1> QED
  BY <1>1, MessageTypes, RangeRepeat DEF StopMessages

LEMMA AllStoppedType ==
    ASSUME TypeInv
    PROVE  AllStopped \in [Addr -> States] /\ SpeedsLost \subseteq Addr \X Groups
<1>1. \A a \in Addr : [table[a] EXCEPT !["speed"] = 0] \in States
  BY TablesKept, StateValues, GroupsAre, XNetAssumption
<1> QED
  BY <1>1, GroupsAre DEF AllStopped, SpeedsLost

LEMMA PowerOne ==
    ASSUME NEW p \in Powers
    PROVE  \E s \in Seq(Messages) :
              s = <<PowerBroadcast(p)>> /\ Range(s) = {PowerBroadcast(p)}
<1>1. PICK m \in Messages : m = PowerBroadcast(p)
  BY MessageTypes
<1>2. <<m>> \in Seq(Messages) /\ Range(<<m>>) = {m}
  BY RangeOne
<1> QED
  BY <1>1, <1>2

PowerMessages(p) == <<PowerBroadcast(p)>> \o SeqIf(p # "csNormal", StopMessages)

LEMMA PowerContents ==
    ASSUME NEW p \in Powers
    PROVE  /\ PowerMessages(p) \in Seq(Messages)
           /\ PowerBroadcast(p) \in Range(PowerMessages(p))
           /\ \A m \in Range(PowerMessages(p)) : m \in {Plain, PowerBroadcast(p)}
<1>1. PICK s \in Seq(Messages) : s = <<PowerBroadcast(p)>> /\ Range(s) = {PowerBroadcast(p)}
  BY PowerOne
<1>2. PICK t \in Seq(Messages) :
        t = SeqIf(p # "csNormal", StopMessages) /\ \A m \in Range(t) : m = Plain
  BY StopContents, RangeIf
<1>3. s \o t \in Seq(Messages) /\ Range(s \o t) = Range(s) \cup Range(t)
  BY RangeJoined
<1> QED
  BY <1>1, <1>2, <1>3 DEF PowerMessages

LEMMA SwitchType ==
    ASSUME TypeInv, NEW d \in Devices, NEW p \in Powers, SwitchPower(d, p)
    PROVE  TypeInv'
<1> DEFINE newUse == [slots EXCEPT ![asked] = IF @ = Inactive /\ p # "csEmergencyStop"
                                              THEN NoLoco ELSE @]
<1>1. /\ Received(d, <<>>, PowerMessages(p), newUse)
      /\ railpower' = p
      /\ table' = IF p # "csNormal" THEN AllStopped ELSE table
      /\ unshown' = IF p # "csNormal" THEN unshown \cup SpeedsLost ELSE unshown
      /\ known' = known /\ knownNext' = knownNext
  BY DEF SwitchPower, PowerMessages
<1>2. asked \in Slots
  BY <1>1, AskedSlot
<1>3. PICK own \in Seq(OwnMessages) : own = <<>>
  BY NoneOwn, Zenon
<1>4. PICK replies \in Seq(Messages) : replies = PowerMessages(p)
  BY PowerContents
<1>5. PICK use \in [Slots -> Addr \cup {Inactive, NoLoco}] : use = newUse
  BY <1>2, TablesKept
<1>6. Received(d, own, replies, use)
  BY <1>1, <1>3, <1>4, <1>5
<1>7. /\ known' \in Books /\ knownNext' \in 1 .. KnownCount /\ railpower' \in Powers
      /\ table' \in [Addr -> States] /\ unshown' \subseteq Addr \X Groups
  BY <1>1, TablesKept, AllStoppedType
<1> QED
  BY <1>6, <1>7, AnsweredType

(* The router's calls. *)
LEMMA RoutedType ==
    ASSUME TypeInv, NEW msgs \in Seq(Messages), FromRouter(msgs),
           known' \in Books, knownNext' \in 1 .. KnownCount, railpower' \in Powers,
           pending' \in [1 .. PendingCount -> Entries],
           \A i \in 1 .. PendingCount : pending'[i].adr = NoLoco => pending'[i] = Unused,
           table' \in [Addr -> States], unshown' \subseteq Addr \X Groups
    PROVE  TypeInv'
<1>1. TypeOK /\ tx \in Rings
  BY TablesKept
<1>2. tx' \in Rings
  BY <1>1, QueuedType DEF FromRouter
<1>3. overrun' \in BOOLEAN /\ ops' \in 0 .. MaxOps
  BY <1>1, XNetAssumption DEF FromRouter, Operate, TypeOK
<1>4. TypeOK'
  BY <1>1, <1>2, <1>3 DEF TypeOK, FromRouter, Rings, Books, Entries
<1> QED
  BY <1>4 DEF TypeInv, FromRouter

LEMMA QueueUsed ==
    ASSUME TypeInv, NEW a \in Addr, NEW st, QueueLocoRefresh(a, st)
    PROVE  \A i \in 1 .. PendingCount : pending'[i].adr = NoLoco => pending'[i] = Unused
<1>1. CASE pending' = pending
  BY <1>1 DEF TypeInv
<1>2. CASE ~(Changed(a, st) = {} \/ PlaceFor(a) = {})
  <2> DEFINE i == CHOOSE i \in PlaceFor(a) : TRUE
             dirty == Dirty(i, a, st)
  <2>1. pending' = [pending EXCEPT ![i] = [adr |-> a, st |-> st, dirty |-> dirty]]
    BY <1>2 DEF QueueLocoRefresh
  <2> HIDE DEF i, dirty
  <2>2. pending \in [1 .. PendingCount -> Entries] /\ a # NoLoco
    BY TablesKept, XNetAssumption
  <2> QED
    BY <2>1, <2>2 DEF TypeInv
<1> QED
  BY <1>1, <1>2 DEF QueueLocoRefresh

LEMMA PlainOne == <<Plain>> \in Seq(Messages) /\ \A m \in Range(<<Plain>>) : m = Plain
  BY MessageTypes, RangeOne

LEMMA OthersDriveType ==
    ASSUME TypeInv, NEW a \in Addr, NEW v \in Speeds, OthersDrive(a, v)
    PROVE  TypeInv'
<1> DEFINE st == [table[a] EXCEPT !["speed"] = v]
<1>1. st \in States
  BY TablesKept, StateValues, GroupsAre
<1>2. /\ FromRouter(<<Plain>>) /\ table' = [table EXCEPT ![a] = st]
      /\ QueueLocoRefresh(a, st) /\ railpower' = railpower
  BY DEF OthersDrive
<1> HIDE DEF st
<1>3. PICK msgs \in Seq(Messages) : msgs = <<Plain>>
  BY PlainOne
<1>4. /\ known' \in Books /\ knownNext' \in 1 .. KnownCount
      /\ pending' \in [1 .. PendingCount -> Entries] /\ unshown' \subseteq Addr \X Groups
  BY <1>1, <1>2, TablesKept, QueueType
<1>5. \A i \in 1 .. PendingCount : pending'[i].adr = NoLoco => pending'[i] = Unused
  BY <1>2, QueueUsed
<1>6. table' \in [Addr -> States] /\ railpower' \in Powers /\ FromRouter(msgs)
  BY <1>1, <1>2, <1>3, TablesKept
<1> QED
  BY <1>4, <1>5, <1>6, RoutedType

LEMMA OthersPressType ==
    ASSUME TypeInv, NEW a \in Addr, NEW g \in FnGroups, NEW F \in Bits, OthersPressFunction(a, g, F)
    PROVE  TypeInv'
<1> DEFINE st == [table[a] EXCEPT ![g] = F]
<1>1. st \in States
  BY TablesKept, StateValues, GroupsAre
<1>2. /\ FromRouter(Repeat(Plain, 1 + FnMessages)) /\ table' = [table EXCEPT ![a] = st]
      /\ QueueLocoRefresh(a, st) /\ railpower' = railpower
  BY DEF OthersPressFunction
<1> HIDE DEF st
<1>3. PICK msgs \in Seq(Messages) : msgs = Repeat(Plain, 1 + FnMessages)
  <2>1. 1 + FnMessages \in Nat
    BY DEF FnMessages
  <2> QED
    BY <2>1, MessageTypes, RangeRepeat
<1>4. /\ known' \in Books /\ knownNext' \in 1 .. KnownCount
      /\ pending' \in [1 .. PendingCount -> Entries] /\ unshown' \subseteq Addr \X Groups
  BY <1>1, <1>2, TablesKept, QueueType
<1>5. \A i \in 1 .. PendingCount : pending'[i].adr = NoLoco => pending'[i] = Unused
  BY <1>2, QueueUsed
<1>6. table' \in [Addr -> States] /\ railpower' \in Powers /\ FromRouter(msgs)
  BY <1>1, <1>2, <1>3, TablesKept
<1> QED
  BY <1>4, <1>5, <1>6, RoutedType

LEMMA WithheldType ==
    ASSUME TypeInv, NEW a \in Addr, NEW g \in Groups, NEW v \in ValuesOf(g), Withheld(a, g, v)
    PROVE  TypeInv'
<1> DEFINE st == [table[a] EXCEPT ![g] = v]
<1>1. st \in States /\ <<a, g>> \in Addr \X Groups
  BY TablesKept, StateValues
<1>2. table' = [table EXCEPT ![a] = st] /\ unshown' = unshown \cup {<<a, g>>}
  BY DEF Withheld
<1> HIDE DEF st
<1>3. table' \in [Addr -> States] /\ unshown' \subseteq Addr \X Groups
  BY <1>1, <1>2, TablesKept
<1>4. ops' \in 0 .. MaxOps
  BY XNetAssumption DEF Withheld, Operate, TypeInv, TypeOK
<1>5. TypeOK'
  BY <1>3, <1>4 DEF Withheld, TypeInv, TypeOK
<1> QED
  BY <1>5 DEF TypeInv, Withheld

StopAll == StopMessages \o <<PowerBroadcast("csEmergencyStop")>>

LEMMA StopAllContents ==
    /\ StopAll \in Seq(Messages)
    /\ PowerBroadcast("csEmergencyStop") \in Range(StopAll)
    /\ \A m \in Range(StopAll) : m \in {Plain, PowerBroadcast("csEmergencyStop")}
<1>1. PICK s \in Seq(Messages) :
        s = <<PowerBroadcast("csEmergencyStop")>> /\ Range(s) = {PowerBroadcast("csEmergencyStop")}
  BY PowerOne DEF Powers
<1>2. PICK t \in Seq(Messages) : t = StopMessages /\ \A m \in Range(t) : m = Plain
  BY StopContents
<1>3. t \o s \in Seq(Messages) /\ Range(t \o s) = Range(t) \cup Range(s)
  BY RangeJoined
<1> QED
  BY <1>1, <1>2, <1>3 DEF StopAll

LEMMA OthersStopType == ASSUME TypeInv, OthersStop PROVE TypeInv'
<1>1. PICK msgs \in Seq(Messages) : msgs = StopAll
  BY StopAllContents
<1>2. /\ FromRouter(msgs) /\ railpower' = "csEmergencyStop" /\ table' = AllStopped
      /\ unshown' = unshown \cup SpeedsLost /\ UNCHANGED <<known, knownNext, pending>>
  BY <1>1 DEF OthersStop, StopAll
<1>3. /\ table' \in [Addr -> States] /\ unshown' \subseteq Addr \X Groups /\ railpower' \in Powers
      /\ known' \in Books /\ knownNext' \in 1 .. KnownCount
      /\ pending' \in [1 .. PendingCount -> Entries]
      /\ \A i \in 1 .. PendingCount : pending'[i].adr = NoLoco => pending'[i] = Unused
  BY <1>2, TablesKept, AllStoppedType DEF Powers, TypeInv
<1> QED
  BY <1>2, <1>3, RoutedType

LEMMA OthersResumeType == ASSUME TypeInv, OthersResume PROVE TypeInv'
<1>1. PICK msgs \in Seq(Messages) : msgs = <<PowerBroadcast("csNormal")>>
  BY PowerOne DEF Powers
<1>2. /\ FromRouter(msgs) /\ railpower' = "csNormal"
      /\ UNCHANGED <<known, knownNext, pending, table, unshown>>
  BY <1>1 DEF OthersResume
<1>3. /\ table' \in [Addr -> States] /\ unshown' \subseteq Addr \X Groups /\ railpower' \in Powers
      /\ known' \in Books /\ knownNext' \in 1 .. KnownCount
      /\ pending' \in [1 .. PendingCount -> Entries]
      /\ \A i \in 1 .. PendingCount : pending'[i].adr = NoLoco => pending'[i] = Unused
  BY <1>2, TablesKept DEF Powers, TypeInv
<1> QED
  BY <1>2, <1>3, RoutedType

LEMMA TurnoutContents ==
    \E msgs \in Seq(Messages) :
        msgs = <<Reply(External), Plain>> /\ \A m \in Range(msgs) : m.kind \in {"reply", "plain"}
<1>1. External \in Slots
  BY XNetAssumption
<1>2. <<Reply(External), Plain>> \in Seq(Messages)
  BY <1>1, MessageTypes
<1>3. \A m \in Range(<<Reply(External), Plain>>) : m.kind \in {"reply", "plain"}
  BY DEF Range, Reply, Plain
<1> QED
  BY <1>2, <1>3, Zenon

LEMMA OthersTurnoutType == ASSUME TypeInv, OthersTurnout PROVE TypeInv'
<1>1. PICK msgs \in Seq(Messages) : msgs = <<Reply(External), Plain>>
  BY TurnoutContents
<1>2. /\ FromRouter(msgs) /\ UNCHANGED <<known, knownNext, pending, railpower, table, unshown>>
  BY <1>1 DEF OthersTurnout
<1>3. /\ table' \in [Addr -> States] /\ unshown' \subseteq Addr \X Groups /\ railpower' \in Powers
      /\ known' \in Books /\ knownNext' \in 1 .. KnownCount
      /\ pending' \in [1 .. PendingCount -> Entries]
      /\ \A i \in 1 .. PendingCount : pending'[i].adr = NoLoco => pending'[i] = Unused
  BY <1>2, TablesKept DEF Powers, TypeInv
<1> QED
  BY <1>2, <1>3, RoutedType

LEMMA RestedType ==
    ASSUME TypeInv, NEW i \in 1 .. PendingCount, Rested(i)
    PROVE  TypeInv'
  BY DEF TypeInv, TypeOK, Rested

LEMMA TypeStep == ASSUME TypeInv, [Next]_vars PROVE TypeInv'
<1>1. CASE UNCHANGED vars
  BY <1>1 DEF vars, TypeInv, TypeOK
<1>2. CASE Timeout
  BY <1>2, TimeoutType
<1>3. CASE OpenWindow
  BY <1>3, OpenType
<1>4. CASE Answer
  <2>1. PICK d \in Devices :
        \/ AskStatus(d) \/ OtherRequest(d)
        \/ \E p \in Powers : SwitchPower(d, p)
        \/ \E a \in Addr :
            \/ Select(d, a) \/ RefusedDrive(d, a)
            \/ \E v \in Speeds : Drive(d, a, v)
            \/ \E g \in FnGroups, F \in Bits : PressFunction(d, a, g, F)
    BY <1>4 DEF Answer
  <2> QED
    BY <2>1, AskStatusType, OtherRequestType, SwitchType, SelectType, RefusedType, DriveType,
       PressType
<1>5. CASE Others
  BY <1>5, OthersStopType, OthersResumeType, OthersTurnoutType, OthersDriveType, OthersPressType,
     WithheldType DEF Others
<1>6. CASE \E i \in 1 .. PendingCount : FlushPlace(i) \/ Rested(i)
  BY <1>6, FlushType, RestedType
<1> QED
  BY <1>1, <1>2, <1>3, <1>4, <1>5, <1>6 DEF Next

-----------------------------------------------------------------------------
(* Why the throttles show what the table holds.  RefreshKnown and the      *)
(* queued refreshes agree with the table wherever nothing was given up; so *)
(* a change that is not queued is no change for the throttles, and what is *)
(* not waiting in the queue is on the bus or in the ring behind everything *)
(* older.  In a window the ring holds no loco state.                       *)
Orderly(wire) ==
    \A m \in Range(wire) : m.kind # "inquiry" /\ ((m.kind = "overheard") => place # 0)
RingSound == Packed(tx) /\ Orderly(Unsent(tx)) /\ called \in {NoSlot, asked}

PowerSound == HeardFrom(heardPower, Unsent(tx)) = railpower

KnownSound ==
    /\ \A j, k \in 1 .. KnownCount :
         (known[j].adr # NoLoco /\ known[j].adr = known[k].adr) => j = k
    /\ \A k \in 1 .. KnownCount, a \in Addr, g \in Groups :
         (known[k].adr = a /\ <<a, g>> \notin unshown) => known[k].st[g] = table[a][g]

PendingSound ==
    /\ \A i, j \in 1 .. PendingCount :
         (pending[i].adr # NoLoco /\ pending[i].adr = pending[j].adr) => i = j
    /\ \A i \in 1 .. PendingCount, a \in Addr, g \in Groups :
         (pending[i].adr = a /\ g \in pending[i].dirty /\ <<a, g>> \notin unshown)
            => pending[i].st[g] = table[a][g]

Waiting(a, g) == \E i \in 1 .. PendingCount : pending[i].adr = a /\ g \in pending[i].dirty
Shown(a, g) == LearntFrom(bus, Unsent(tx))[a][g]
BusSound ==
    \A a \in Addr, g \in Groups :
        <<a, g>> \notin unshown => Waiting(a, g) \/ Shown(a, g) = table[a][g]

LEMMA WireQueued ==
    ASSUME TypeInv, Packed(tx), NEW msgs \in Seq(Messages), ~Overwrites(tx, msgs)
    PROVE  /\ Queued(tx, msgs) \in Rings /\ Packed(Queued(tx, msgs))
           /\ Unsent(Queued(tx, msgs)) = Unsent(tx) \o msgs
           /\ Unsent(tx) \in Seq(Messages)
           /\ Range(Unsent(tx) \o msgs) = Range(Unsent(tx)) \cup Range(msgs)
<1>1. tx \in Rings
  BY TablesKept
<1>2. PICK w \in Seq(Messages) : w = Unsent(tx)
  BY <1>1, UnsentType
<1>3. Range(w \o msgs) = Range(w) \cup Range(msgs)
  BY RangeJoined
<1> QED
  BY <1>1, <1>2, <1>3, QueuedType, QueuedPacked

LEMMA WireEmpty ==
    ASSUME NEW h, NEW b, NEW a \in Addr, NEW g \in Groups
    PROVE  Range(<<>>) = {} /\ HeardFrom(h, <<>>) = h /\ LearntFrom(b, <<>>)[a][g] = b[a][g]
<1>1. About(<<>>, a, g) = {} /\ PowerNews(<<>>) = {} /\ Range(<<>>) = {}
  BY DEF About, PowerNews, Range
<1> QED
  BY <1>1 DEF LearntFrom, HeardFrom

(* After an answer: the ring is empty, and only the device's own message   *)
(* counted for the throttles.                                              *)
LEMMA AnsweredSound ==
    ASSUME TypeInv, ~overrun, RingSound, PowerSound, NEW d \in Devices,
           NEW own \in Seq(OwnMessages), NEW replies \in Seq(Messages),
           \A m \in Range(replies) : m.kind \notin {"inquiry", "overheard"},
           NEW use, Received(d, own, replies, use), ~overrun'
    PROVE  /\ RingSound'
           /\ HeardFrom(heardPower', Unsent(tx')) = HeardFrom(railpower, replies)
           /\ \A a \in Addr, g \in Groups :
                 Shown(a, g)' = LearntFrom(bus, own)[a][g] /\ Shown(a, g) = bus[a][g]
<1>1. /\ tx \in Rings /\ Packed(tx) /\ place = 0 /\ ~Overwrites(tx, replies)
      /\ place' = 1 /\ asked' = asked
  BY TablesKept DEF RingSound, Received, Operate
<1>2. PICK w \in Seq(Messages) : w = Unsent(tx)
  BY <1>1, UnsentType
<1>3. PICK q \in {Queued(tx, replies)} : Transmit(q, own)
  BY DEF Received
<1>4. q \in Rings /\ Packed(q) /\ Unsent(q) = w \o replies /\ Range(w \o replies) = Range(w) \cup Range(replies)
  BY <1>1, <1>2, WireQueued
<1>5. PICK wire \in {own \o Unsent(q)} :
        tx' = Sent(q) /\ bus' = Learnt(wire) /\ heardPower' = PowerHeard(wire)
        /\ called' = MayAnswer(wire)
  BY <1>3 DEF Transmit
<1>6. PICK u \in Seq(Messages) : u = w \o replies /\ Range(u) = Range(w) \cup Range(replies)
  <2>1. w \o replies \in Seq(Messages)
    OBVIOUS
  <2> QED
    BY <1>4, <2>1, Zenon
<1>7. u \in Seq(Heard) /\ own \in Seq(Heard) /\ w \in Seq(Heard) /\ replies \in Seq(Heard)
      /\ Range(u) \subseteq Messages
  BY DEF Heard, Range
<1>8. /\ wire = own \o u /\ Range(own \o u) = Range(own) \cup Range(u) /\ wire \in Seq(Heard)
      /\ HeardFrom(heardPower, own \o u) = HeardFrom(HeardFrom(heardPower, own), u)
      /\ \A a \in Addr, g \in Groups :
            LearntFrom(bus, own \o u)[a][g] = LearntFrom(LearntFrom(bus, own), u)[a][g]
  <2>1. PICK o \in Seq(Heard), v \in Seq(Heard) : o = own /\ v = u
    BY <1>7
  <2>2. o \o v \in Seq(Heard) /\ Range(o \o v) = Range(o) \cup Range(v)
    BY RangeJoined
  <2>3. HeardFrom(heardPower, o \o v) = HeardFrom(HeardFrom(heardPower, o), v)
    BY PowerJoined
  <2>4. \A a \in Addr, g \in Groups :
            LearntFrom(bus, o \o v)[a][g] = LearntFrom(LearntFrom(bus, o), v)[a][g]
    BY LearntJoined
  <2> QED
    BY <1>4, <1>5, <1>6, <2>1, <2>2, <2>3, <2>4
<1>9. \A m \in Range(u) : m.kind \notin {"inquiry", "overheard", "own"}
  <2>1. \A m \in Range(w) : m.kind \notin {"inquiry", "overheard"}
    BY <1>1, <1>2 DEF RingSound, Orderly
  <2>2. \A m \in Messages : m.kind # "own"
    BY DEF Messages, Inquiry, Reply, Busy, Overheard, Plain, PowerBroadcast
  <2> QED
    BY <1>6, <1>7, <2>1, <2>2
<1>10. \A m \in Range(own) : m.kind = "own"
  <2>1. Range(own) \subseteq OwnMessages
    BY DEF Range
  <2>2. \A m \in OwnMessages : m.kind = "own"
    BY DEF OwnMessages, Own
  <2> QED
    BY <2>1, <2>2
<1>11. called' = NoSlot
  <2>1. \A m \in Range(wire) : m.kind \notin {"inquiry", "overheard"}
    BY <1>8, <1>9, <1>10
  <2> QED
    BY <1>5, <1>8, <2>1, AnswerNone
<1>12. Packed(tx') /\ Unsent(tx') = <<>>
  BY <1>4, <1>5, SentPacked
<1>13. RingSound'
  BY <1>11, <1>12, WireEmpty DEF RingSound, Orderly, Range
<1>14. heardPower' = HeardFrom(railpower, replies)
  <2>1. heardPower' = HeardFrom(heardPower, wire)
    BY <1>5 DEF PowerHeard, HeardFrom
  <2>2. HeardFrom(heardPower, wire) = HeardFrom(HeardFrom(heardPower, own), u)
    BY <1>8
  <2>3. HeardFrom(heardPower, own) = heardPower
    BY <1>7, <1>10, PowerNone
  <2>4. HeardFrom(heardPower, u) = HeardFrom(HeardFrom(heardPower, w), replies)
    BY <1>6, <1>7, PowerJoined
  <2>5. HeardFrom(heardPower, w) = railpower
    BY <1>2 DEF PowerSound
  <2> QED
    BY <2>1, <2>2, <2>3, <2>4, <2>5
<1>15. ASSUME NEW a \in Addr, NEW g \in Groups
       PROVE  Shown(a, g)' = LearntFrom(bus, own)[a][g] /\ Shown(a, g) = bus[a][g]
  <2>1. bus' = LearntFrom(bus, wire)
    BY <1>5 DEF Learnt, LearntFrom
  <2>2. LearntFrom(bus, wire)[a][g] = LearntFrom(LearntFrom(bus, own), u)[a][g]
    BY <1>8
  <2>3. \A m \in Range(u) : ~Says(m, a, g)
    BY <1>9 DEF Says
  <2>4. LearntFrom(LearntFrom(bus, own), u)[a][g] = LearntFrom(bus, own)[a][g]
    BY <1>7, <2>3, LearntNone
  <2>5. LearntFrom(bus, w)[a][g] = bus[a][g]
    <3>1. \A m \in Range(w) : ~Says(m, a, g)
      BY <1>6, <2>3
    <3> QED
      BY <1>7, <3>1, LearntNone
  <2>6. LearntFrom(bus', <<>>)[a][g] = bus'[a][g]
    BY WireEmpty
  <2> QED
    BY <1>2, <1>12, <2>1, <2>2, <2>4, <2>5, <2>6 DEF Shown
<1>16. HeardFrom(heardPower', <<>>) = heardPower'
  BY DEF HeardFrom, PowerNews
<1> QED
  BY <1>12, <1>13, <1>14, <1>15, <1>16

(* After a call of the router: the ring is longer. *)
LEMMA RoutedSound ==
    ASSUME TypeInv, ~overrun, RingSound, PowerSound, NEW msgs \in Seq(Messages),
           \A m \in Range(msgs) : m.kind \notin {"inquiry", "overheard"},
           FromRouter(msgs), ~overrun'
    PROVE  /\ RingSound'
           /\ HeardFrom(heardPower', Unsent(tx')) = HeardFrom(railpower, msgs)
           /\ \A a \in Addr, g \in Groups : Shown(a, g)' = Shown(a, g)
<1>1. /\ tx \in Rings /\ Packed(tx) /\ ~Overwrites(tx, msgs) /\ tx' = Queued(tx, msgs)
      /\ place' = place /\ asked' = asked /\ called' = called /\ bus' = bus
      /\ heardPower' = heardPower
  BY TablesKept DEF RingSound, FromRouter
<1>2. PICK w \in Seq(Messages) : w = Unsent(tx)
  BY <1>1, UnsentType
<1>3. Packed(tx') /\ Unsent(tx') = w \o msgs /\ Range(w \o msgs) = Range(w) \cup Range(msgs)
  BY <1>1, <1>2, WireQueued
<1>4. RingSound'
  BY <1>1, <1>2, <1>3 DEF RingSound, Orderly
<1>5. w \in Seq(Heard) /\ msgs \in Seq(Heard) /\ Range(msgs) \subseteq Messages
  BY DEF Heard, Range
<1>6. HeardFrom(heardPower, w \o msgs) = HeardFrom(HeardFrom(heardPower, w), msgs)
  BY <1>5, PowerJoined
<1>7. HeardFrom(heardPower, w) = railpower
  BY <1>2 DEF PowerSound
<1>8. ASSUME NEW a \in Addr, NEW g \in Groups
      PROVE  LearntFrom(bus, w \o msgs)[a][g] = LearntFrom(bus, w)[a][g]
  <2>1. LearntFrom(bus, w \o msgs)[a][g] = LearntFrom(LearntFrom(bus, w), msgs)[a][g]
    BY <1>5, LearntJoined
  <2>2. \A m \in Range(msgs) : ~Says(m, a, g)
    <3>1. \A m \in Messages : m.kind # "own"
      BY DEF Messages, Inquiry, Reply, Busy, Overheard, Plain, PowerBroadcast
    <3> QED
      BY <1>5, <3>1 DEF Says
  <2> QED
    BY <1>5, <2>1, <2>2, LearntNone
<1> QED
  BY <1>1, <1>2, <1>3, <1>4, <1>6, <1>7, <1>8 DEF Shown

(* Steps that change the table only where they give up. *)
OnlyUnshown ==
    \A a \in Addr, g \in Groups :
        <<a, g>> \notin unshown' => <<a, g>> \notin unshown /\ table'[a][g] = table[a][g]

LEMMA KeptKnown ==
    ASSUME KnownSound, known' = known, OnlyUnshown
    PROVE  KnownSound'
  BY DEF KnownSound, OnlyUnshown

LEMMA KeptPending ==
    ASSUME PendingSound, pending' = pending, OnlyUnshown
    PROVE  PendingSound'
  BY DEF PendingSound, OnlyUnshown

LEMMA KeptBus ==
    ASSUME BusSound, pending' = pending, OnlyUnshown,
           \A a \in Addr, g \in Groups : Shown(a, g)' = Shown(a, g)
    PROVE  BusSound'
  BY DEF BusSound, Waiting, OnlyUnshown

(* A step that changes one loco; "unshown" of the others stays. *)
OnlyLoco(a, st) ==
    /\ table' = [table EXCEPT ![a] = st]
    /\ \A b \in Addr, g \in Groups : b # a => (<<b, g>> \in unshown' <=> <<b, g>> \in unshown)

LEMMA RememberSound ==
    ASSUME TypeInv, KnownSound, NEW a \in Addr, NEW st \in States, Remember(a, st), OnlyLoco(a, st)
    PROVE  KnownSound'
<1> DEFINE k == IF KnownAt(a) # {} THEN Min(KnownAt(a)) ELSE knownNext
<1>1. known \in Books /\ knownNext \in 1 .. KnownCount /\ a # NoLoco
      /\ table \in [Addr -> States]
  BY TablesKept, XNetAssumption
<1>2. k \in 1 .. KnownCount /\ \A j \in 1 .. KnownCount : known[j].adr = a => j = k
  <2>1. CASE KnownAt(a) # {}
    <3>1. k \in KnownAt(a)
      BY <2>1, KnownLeast
    <3> HIDE DEF k
    <3> QED
      BY <1>1, <3>1 DEF KnownAt, KnownSound
  <2>2. CASE KnownAt(a) = {}
    BY <1>1, <2>2 DEF KnownAt
  <2> QED
    BY <2>1, <2>2
<1>3. known' = [known EXCEPT ![k] = [adr |-> a, st |-> st]]
  BY DEF Remember
<1> HIDE DEF k
<1>4. /\ known'[k] = [adr |-> a, st |-> st]
      /\ \A j \in 1 .. KnownCount : j # k => known'[j] = known[j] /\ known'[j].adr # a
  BY <1>1, <1>2, <1>3 DEF Books
<1>5. table'[a] = st /\ \A b \in Addr : b # a => table'[b] = table[b]
  BY <1>1 DEF OnlyLoco
<1>6. \A i, j \in 1 .. KnownCount :
        (known'[i].adr # NoLoco /\ known'[i].adr = known'[j].adr) => i = j
  BY <1>2, <1>4 DEF KnownSound
<1>7. ASSUME NEW j \in 1 .. KnownCount, NEW b \in Addr, NEW g \in Groups,
             known'[j].adr = b, <<b, g>> \notin unshown'
      PROVE  known'[j].st[g] = table'[b][g]
  <2>1. CASE j = k
    BY <1>4, <1>5, <1>7, <2>1
  <2>2. CASE j # k
    <3>1. b # a /\ known[j].adr = b /\ known'[j] = known[j]
      BY <1>4, <1>7, <2>2
    <3>2. <<b, g>> \notin unshown
      BY <1>7, <3>1 DEF OnlyLoco
    <3>3. known[j].st[g] = table[b][g]
      BY <3>1, <3>2 DEF KnownSound
    <3> QED
      BY <1>5, <3>1, <3>3
  <2> QED
    BY <2>1, <2>2
<1> QED
  BY <1>6, <1>7 DEF KnownSound

(* What RefreshKnown says of a loco decides what is queued. *)
LEMMA UnchangedIsShown ==
    ASSUME TypeInv, KnownSound, NEW a \in Addr, NEW st, NEW g \in Groups,
           g \notin Changed(a, st), <<a, g>> \notin unshown
    PROVE  st[g] = table[a][g]
<1>1. KnownAt(a) # {}
  BY DEF Changed
<1>2. PICK k \in 1 .. KnownCount : k = Min(KnownAt(a)) /\ k \in KnownAt(a)
  BY <1>1, KnownLeast
<1>3. known[k].adr = a /\ known[k].st[g] = st[g]
  BY <1>1, <1>2 DEF KnownAt, Changed
<1> QED
  BY <1>3 DEF KnownSound

LEMMA QueueSound ==
    ASSUME TypeInv, KnownSound, PendingSound, NEW a \in Addr, NEW st \in States,
           QueueLocoRefresh(a, st), table' = [table EXCEPT ![a] = st]
    PROVE  /\ KnownSound' /\ PendingSound'
           /\ (BusSound /\ \A b \in Addr, g \in Groups : Shown(b, g)' = Shown(b, g)) => BusSound'
<1>1. /\ TypeOK /\ pending \in [1 .. PendingCount -> Entries] /\ a # NoLoco
      /\ table \in [Addr -> States]
  BY TablesKept, XNetAssumption
<1>2. OnlyLoco(a, st)
  BY DEF OnlyLoco, QueueLocoRefresh
<1>3. KnownSound'
  BY <1>2, RememberSound DEF QueueLocoRefresh
<1>4. table'[a] = st /\ \A b \in Addr : b # a => table'[b] = table[b]
  BY <1>1 DEF OnlyLoco
<1>5. CASE Changed(a, st) = {} \/ PlaceFor(a) = {}
  <2>1. pending' = pending /\ unshown' = unshown \cup ({a} \X Changed(a, st))
    BY <1>5 DEF QueueLocoRefresh
  <2>2. OnlyUnshown
    <3> SUFFICES ASSUME NEW b \in Addr, NEW g \in Groups, <<b, g>> \notin unshown'
                 PROVE  <<b, g>> \notin unshown /\ table'[b][g] = table[b][g]
      BY DEF OnlyUnshown
    <3>1. <<b, g>> \notin unshown /\ (b = a => g \notin Changed(a, st))
      BY <2>1
    <3>2. CASE b = a
      BY <1>4, <3>1, <3>2, UnchangedIsShown
    <3> QED
      BY <1>4, <3>1, <3>2
  <2> QED
    BY <1>3, <2>1, <2>2, KeptPending, KeptBus
<1>6. CASE ~(Changed(a, st) = {} \/ PlaceFor(a) = {})
  <2> DEFINE i == CHOOSE i \in PlaceFor(a) : TRUE
             dirty == Dirty(i, a, st)
  <2>1. /\ pending' = [pending EXCEPT ![i] = [adr |-> a, st |-> st, dirty |-> dirty]]
        /\ unshown' = unshown \ ({a} \X dirty)
    BY <1>6 DEF QueueLocoRefresh
  <2>2. i \in PlaceFor(a)
    BY <1>6
  <2> HIDE DEF i
  <2>3. /\ i \in 1 .. PendingCount
        /\ \/ pending[i].adr = a
           \/ pending[i] = Unused /\ \A j \in 1 .. PendingCount : pending[j].adr # a
    BY <1>1, <2>2, PlaceTaken
  <2>4. pending[i].dirty \subseteq dirty /\ Changed(a, st) \subseteq dirty
    BY DEF Dirty
  <2> HIDE DEF dirty
  <2>5. /\ pending'[i] = [adr |-> a, st |-> st, dirty |-> dirty]
        /\ \A j \in 1 .. PendingCount : j # i => pending'[j] = pending[j]
    BY <1>1, <2>1, <2>3
  <2>6. \A j \in 1 .. PendingCount : pending[j].adr = a => j = i
    BY <1>1, <2>3 DEF PendingSound
  <2>7. ASSUME NEW j \in 1 .. PendingCount, NEW k \in 1 .. PendingCount,
               pending'[j].adr # NoLoco, pending'[j].adr = pending'[k].adr
        PROVE  j = k
    <3>1. CASE j = i \/ k = i
      BY <2>5, <2>6, <2>7, <3>1
    <3>2. CASE j # i /\ k # i
      BY <2>5, <2>7, <3>2 DEF PendingSound
    <3> QED
      BY <3>1, <3>2
  <2>8. ASSUME NEW j \in 1 .. PendingCount, NEW b \in Addr, NEW g \in Groups,
               pending'[j].adr = b, g \in pending'[j].dirty, <<b, g>> \notin unshown'
        PROVE  pending'[j].st[g] = table'[b][g]
    <3>1. CASE j = i
      BY <1>4, <2>5, <2>8, <3>1
    <3>2. CASE j # i
      <4>1. b # a /\ pending'[j] = pending[j]
        BY <2>5, <2>6, <2>8, <3>2
      <4>2. <<b, g>> \notin unshown
        BY <1>2, <2>8, <4>1 DEF OnlyLoco
      <4>3. pending[j].st[g] = table[b][g]
        BY <2>8, <4>1, <4>2 DEF PendingSound
      <4> QED
        BY <1>4, <4>1, <4>3
    <3> QED
      BY <3>1, <3>2
  <2>9. PendingSound'
    BY <2>7, <2>8 DEF PendingSound
  <2>10. ASSUME BusSound, \A b \in Addr, g \in Groups : Shown(b, g)' = Shown(b, g)
         PROVE  BusSound'
    <3> SUFFICES ASSUME NEW b \in Addr, NEW g \in Groups, <<b, g>> \notin unshown',
                        ~Waiting(b, g)'
                 PROVE  Shown(b, g)' = table'[b][g]
      BY DEF BusSound
    <3>1. CASE b = a
      <4>1. g \notin dirty
        BY <2>3, <2>5, <3>1 DEF Waiting
      <4>2. <<a, g>> \notin unshown
        BY <2>1, <3>1, <4>1
      <4>3. ~Waiting(a, g)
        BY <2>4, <2>6, <4>1 DEF Waiting
      <4>4. Shown(a, g) = table[a][g]
        BY <2>10, <4>2, <4>3 DEF BusSound
      <4>5. st[g] = table[a][g]
        BY <2>4, <4>1, <4>2, UnchangedIsShown
      <4> QED
        BY <1>4, <2>10, <3>1, <4>4, <4>5
    <3>2. CASE b # a
      <4>1. <<b, g>> \notin unshown
        BY <1>2, <3>2 DEF OnlyLoco
      <4>2. ~Waiting(b, g)
        <5> SUFFICES ASSUME NEW j \in 1 .. PendingCount, pending[j].adr = b, g \in pending[j].dirty
                     PROVE  FALSE
          BY DEF Waiting
        <5>1. j # i
          BY <2>3, <3>2 DEF Unused
        <5> QED
          BY <2>5, <5>1 DEF Waiting
      <4>3. Shown(b, g) = table[b][g]
        BY <2>10, <4>1, <4>2 DEF BusSound
      <4> QED
        BY <1>4, <2>10, <3>2, <4>3
    <3> QED
      BY <3>1, <3>2
  <2> QED
    BY <1>3, <2>9, <2>10
<1> QED
  BY <1>5, <1>6

Safe == KnownSound /\ PendingSound /\ (overrun \/ (RingSound /\ PowerSound /\ BusSound))

(* A device's own message changes one value of its loco; a refresh of that *)
(* value still queued would undo it, and is given up by "Undone".          *)
LEMMA OwnSound ==
    ASSUME TypeInv, Safe, NEW d \in Devices, NEW a \in Addr, NEW g \in Groups, NEW v \in ValuesOf(g),
           NEW replies \in Seq(Messages), \A m \in Range(replies) : m.kind \in {"busy", "reply"},
           NEW use, Received(d, <<Own(a, g, v)>>, replies, use),
           table' = [table EXCEPT ![a] = [table[a] EXCEPT ![g] = v]],
           Remember(a, [table[a] EXCEPT ![g] = v]), unshown' = Undone(a, g), railpower' = railpower
    PROVE  Safe'
<1> DEFINE st == [table[a] EXCEPT ![g] = v]
<1>1. /\ st \in States /\ st[g] = v /\ \A h \in Groups : h # g => st[h] = table[a][h]
      /\ table \in [Addr -> States] /\ a # NoLoco
  <2>1. table \in [Addr -> States] /\ table[a] \in States /\ a # NoLoco
    BY TablesKept, XNetAssumption
  <2>2. PICK old \in States : old = table[a]
    BY <2>1
  <2>3. /\ [old EXCEPT ![g] = v] \in States /\ [old EXCEPT ![g] = v][g] = v
        /\ \A h \in Groups : h # g => [old EXCEPT ![g] = v][h] = old[h]
    BY StateValues
  <2> QED
    BY <2>1, <2>2, <2>3
<1>2. table' = [table EXCEPT ![a] = st] /\ Remember(a, st) /\ pending' = pending
  BY DEF Received
<1> HIDE DEF st
<1>3. \A b \in Addr, h \in Groups : <<b, h>> # <<a, g>> => (<<b, h>> \in unshown' <=> <<b, h>> \in unshown)
  BY DEF Undone
<1>4. OnlyLoco(a, st)
  BY <1>2, <1>3 DEF OnlyLoco
<1>5. KnownSound'
  BY <1>1, <1>2, <1>4, RememberSound DEF Safe
<1>6. \A b \in Addr, h \in Groups : <<b, h>> # <<a, g>> => table'[b][h] = table[b][h]
  BY <1>1, <1>2
<1>7. PendingSound'
  <2>1. ASSUME NEW i \in 1 .. PendingCount, NEW b \in Addr, NEW h \in Groups,
               pending[i].adr = b, h \in pending[i].dirty, <<b, h>> \notin unshown'
        PROVE  pending[i].st[h] = table'[b][h]
    <3>1. <<b, h>> # <<a, g>>
      BY <2>1 DEF Undone
    <3> QED
      BY <1>3, <1>6, <2>1, <3>1 DEF Safe, PendingSound
  <2> QED
    BY <1>2, <2>1 DEF Safe, PendingSound
<1>8. ASSUME ~overrun'
      PROVE  RingSound' /\ PowerSound' /\ BusSound'
  <2>1. ~overrun /\ RingSound /\ PowerSound /\ BusSound
    BY <1>8 DEF Safe, Received
  <2>2. PICK m \in OwnMessages : m = Own(a, g, v)
    BY MessageTypes
  <2>3. PICK own \in Seq(OwnMessages) : own = <<Own(a, g, v)>> /\ Range(own) = {Own(a, g, v)}
    BY <2>2, RangeOne
  <2>4. \A m1 \in Range(replies) : m1.kind \notin {"inquiry", "overheard"} /\ m1.kind # "power"
    OBVIOUS
  <2>5. Received(d, own, replies, use)
    BY <2>3
  <2>6. /\ RingSound'
        /\ HeardFrom(heardPower', Unsent(tx')) = HeardFrom(railpower, replies)
        /\ \A b \in Addr, h \in Groups :
              Shown(b, h)' = LearntFrom(bus, own)[b][h] /\ Shown(b, h) = bus[b][h]
    BY <1>8, <2>1, <2>4, <2>5, AnsweredSound
  <2>7. HeardFrom(railpower, replies) = railpower
    <3>1. replies \in Seq(Heard)
      BY DEF Heard
    <3> QED
      BY <2>4, <3>1, PowerNone
  <2>8. own \in Seq(Heard)
    BY DEF Heard
  <2>9. ASSUME NEW b \in Addr, NEW h \in Groups, <<b, h>> \notin unshown', ~Waiting(b, h)'
        PROVE  Shown(b, h)' = table'[b][h]
    <3>1. CASE <<b, h>> = <<a, g>>
      <4>1. Says(Own(a, g, v), a, g) /\ Own(a, g, v).val = v
        BY DEF Says, Own
      <4>2. /\ \E m1 \in Range(own) : Says(m1, a, g)
            /\ \A m1 \in Range(own) : Says(m1, a, g) => m1.val = v
        BY <2>3, <4>1
      <4>3. LearntFrom(bus, own)[a][g] = v
        <5>1. PICK w \in Seq(Heard) : w = own
          BY <2>8
        <5>2. \E m1 \in Range(w) : Says(m1, a, g)
          BY <4>2, <5>1
        <5>3. \E m1 \in Range(w) : Says(m1, a, g) /\ LearntFrom(bus, w)[a][g] = m1.val
          BY <5>2, LearntAs
        <5> QED
          BY <4>2, <5>1, <5>3
      <4>4. table'[a][g] = v /\ b = a /\ h = g
        BY <1>1, <1>2, <3>1
      <4>5. Shown(b, h)' = LearntFrom(bus, own)[b][h]
        BY <2>6
      <4>6. LearntFrom(bus, own)[b][h] = v /\ table'[b][h] = v
        BY <4>3, <4>4
      <4> QED
        BY <4>5, <4>6
    <3>2. CASE <<b, h>> # <<a, g>>
      <4>1. ~Says(Own(a, g, v), b, h)
        BY <3>2 DEF Says, Own
      <4>2. LearntFrom(bus, own)[b][h] = bus[b][h]
        BY ZenonT(40), <2>3, <2>8, <4>1, LearntNone
      <4>3. <<b, h>> \notin unshown /\ ~Waiting(b, h)
        BY <1>2, <1>3, <2>9, <3>2 DEF Waiting
      <4>4. Shown(b, h) = table[b][h]
        BY <2>1, <4>3 DEF BusSound
      <4> QED
        BY <1>6, <2>6, <3>2, <4>2, <4>4
    <3> QED
      BY <3>1, <3>2
  <2> QED
    BY <2>6, <2>7, <2>9 DEF BusSound, PowerSound
<1> QED
  BY <1>5, <1>7, <1>8 DEF Safe

(* The other answers change no value that is shown. *)
LEMMA QuietSound ==
    ASSUME TypeInv, Safe, NEW d \in Devices, NEW replies \in Seq(Messages),
           \A m \in Range(replies) : m.kind \notin {"inquiry", "overheard"},
           NEW use, Received(d, <<>>, replies, use), known' = known, OnlyUnshown,
           railpower' = HeardFrom(railpower, replies)
    PROVE  Safe'
<1>1. pending' = pending
  BY DEF Received
<1>2. KnownSound' /\ PendingSound'
  BY <1>1, KeptKnown, KeptPending DEF Safe
<1>3. ASSUME ~overrun'
      PROVE  RingSound' /\ PowerSound' /\ BusSound'
  <2>1. ~overrun /\ RingSound /\ PowerSound /\ BusSound
    BY <1>3 DEF Safe, Received
  <2>2. PICK own \in Seq(OwnMessages) : own = <<>>
    BY NoneOwn, Zenon
  <2>3. Received(d, own, replies, use)
    BY <2>2
  <2>4. /\ RingSound'
        /\ HeardFrom(heardPower', Unsent(tx')) = HeardFrom(railpower, replies)
        /\ \A b \in Addr, h \in Groups :
              Shown(b, h)' = LearntFrom(bus, own)[b][h] /\ Shown(b, h) = bus[b][h]
    BY <1>3, <2>1, <2>3, AnsweredSound
  <2>5. \A b \in Addr, h \in Groups : Shown(b, h)' = Shown(b, h)
    BY <2>2, <2>4, WireEmpty
  <2>6. BusSound'
    BY <1>1, <2>1, <2>5, KeptBus
  <2> QED
    BY <2>4, <2>6 DEF PowerSound
<1> QED
  BY <1>2, <1>3 DEF Safe

LEMMA DriveSound ==
    ASSUME TypeInv, Safe, NEW d \in Devices, NEW a \in Addr, NEW v \in Speeds, Drive(d, a, v)
    PROVE  Safe'
<1>1. PICK replies \in Seq(Messages) :
        replies = BusyNotices(a) /\ \A m \in Range(replies) : m.kind = "busy"
  BY BusyNoticesContents
<1>2. "speed" \in Groups /\ v \in ValuesOf("speed")
  BY GroupsAre, StateValues
<1>3. /\ Received(d, <<Own(a, "speed", v)>>, replies, WithLoco(a))
      /\ table' = [table EXCEPT ![a] = [table[a] EXCEPT !["speed"] = v]]
      /\ Remember(a, [table[a] EXCEPT !["speed"] = v])
      /\ unshown' = Undone(a, "speed") /\ railpower' = railpower
  BY <1>1 DEF Drive
<1> QED
  BY <1>1, <1>2, <1>3, OwnSound

LEMMA PressSound ==
    ASSUME TypeInv, Safe, NEW d \in Devices, NEW a \in Addr, NEW g \in FnGroups, NEW F \in Bits,
           PressFunction(d, a, g, F)
    PROVE  Safe'
<1>1. asked \in Slots
  BY AskedSlot DEF PressFunction
<1>2. PICK replies \in Seq(Messages) :
        /\ replies = Append(BusyNotices(a), Reply(asked))
        /\ \A m \in Range(replies) : m.kind \in {"busy", "reply"}
  BY <1>1, PressContents
<1>3. g \in Groups /\ F \in ValuesOf(g)
  BY GroupsAre, StateValues
<1>4. /\ Received(d, <<Own(a, g, F)>>, replies, WithLoco(a))
      /\ table' = [table EXCEPT ![a] = [table[a] EXCEPT ![g] = F]]
      /\ Remember(a, [table[a] EXCEPT ![g] = F])
      /\ unshown' = Undone(a, g) /\ railpower' = railpower
  BY <1>2 DEF PressFunction
<1> QED
  BY <1>2, <1>3, <1>4, OwnSound

LEMMA NothingChanged ==
    ASSUME table' = table, unshown' = unshown
    PROVE  OnlyUnshown
  BY DEF OnlyUnshown

LEMMA NoPower ==
    ASSUME NEW msgs \in Seq(Messages), \A m \in Range(msgs) : m.kind # "power"
    PROVE  HeardFrom(railpower, msgs) = railpower
<1>1. msgs \in Seq(Heard)
  BY DEF Heard
<1> QED
  BY <1>1, PowerNone

LEMMA RefusedSound ==
    ASSUME TypeInv, Safe, NEW d \in Devices, NEW a \in Addr, RefusedDrive(d, a)
    PROVE  Safe'
<1>1. PICK replies \in Seq(Messages) :
        replies = BusyNotices(a) /\ \A m \in Range(replies) : m.kind = "busy"
  BY BusyNoticesContents
<1>2. Received(d, <<>>, replies, WithLoco(a)) /\ known' = known /\ railpower' = railpower
      /\ OnlyUnshown
  BY <1>1, NothingChanged DEF RefusedDrive
<1>3. /\ HeardFrom(railpower, replies) = railpower
      /\ \A m \in Range(replies) : m.kind \notin {"inquiry", "overheard"}
  BY <1>1, NoPower
<1> QED
  BY <1>2, <1>3, QuietSound

LEMMA ReplyQuiet ==
    ASSUME asked \in Slots
    PROVE  \E replies \in Seq(Messages) :
              /\ replies = <<Reply(asked)>> /\ HeardFrom(railpower, replies) = railpower
              /\ \A m \in Range(replies) : m.kind \notin {"inquiry", "overheard"}
<1>1. PICK replies \in Seq(Messages) :
        replies = <<Reply(asked)>> /\ Range(replies) = {Reply(asked)}
  BY ReplyOne
<1>2. \A m \in Range(replies) : m.kind = "reply"
  BY <1>1 DEF Reply
<1> QED
  BY <1>1, <1>2, NoPower

LEMMA SelectSound ==
    ASSUME TypeInv, Safe, NEW d \in Devices, NEW a \in Addr, Select(d, a)
    PROVE  Safe'
<1>1. asked \in Slots
  BY AskedSlot DEF Select
<1>2. PICK replies \in Seq(Messages) :
        /\ replies = <<Reply(asked)>> /\ HeardFrom(railpower, replies) = railpower
        /\ \A m \in Range(replies) : m.kind \notin {"inquiry", "overheard"}
  BY <1>1, ReplyQuiet
<1>3. /\ Received(d, <<>>, replies, [slots EXCEPT ![asked] = a])
      /\ known' = known /\ railpower' = railpower /\ OnlyUnshown
  BY <1>2, NothingChanged DEF Select
<1> QED
  BY <1>2, <1>3, QuietSound

LEMMA AskStatusSound ==
    ASSUME TypeInv, Safe, NEW d \in Devices, AskStatus(d)
    PROVE  Safe'
<1>1. asked \in Slots
  BY AskedSlot DEF AskStatus
<1>2. PICK replies \in Seq(Messages) :
        /\ replies = <<Reply(asked)>> /\ HeardFrom(railpower, replies) = railpower
        /\ \A m \in Range(replies) : m.kind \notin {"inquiry", "overheard"}
  BY <1>1, ReplyQuiet
<1>3. /\ Received(d, <<>>, replies,
                  [slots EXCEPT ![asked] = IF @ = Inactive THEN NoLoco ELSE @])
      /\ known' = known /\ railpower' = railpower /\ OnlyUnshown
  BY <1>2, NothingChanged DEF AskStatus
<1> QED
  BY <1>2, <1>3, QuietSound

LEMMA OtherRequestSound ==
    ASSUME TypeInv, Safe, NEW d \in Devices, OtherRequest(d)
    PROVE  Safe'
<1>1. asked \in Slots
  BY AskedSlot DEF OtherRequest
<1>2. PICK replies \in Seq(Messages) :
        /\ replies = <<Reply(asked)>> /\ HeardFrom(railpower, replies) = railpower
        /\ \A m \in Range(replies) : m.kind \notin {"inquiry", "overheard"}
  BY <1>1, ReplyQuiet
<1>3. /\ Received(d, <<>>, replies, slots)
      /\ known' = known /\ railpower' = railpower /\ OnlyUnshown
  BY <1>2, NothingChanged DEF OtherRequest
<1> QED
  BY <1>2, <1>3, QuietSound

(* emergencyStopAll() for the locos is given up for those that ran. *)
LEMMA StoppedUnshown ==
    ASSUME TypeInv, table' = AllStopped, unshown' = unshown \cup SpeedsLost
    PROVE  OnlyUnshown
<1> SUFFICES ASSUME NEW a \in Addr, NEW g \in Groups, <<a, g>> \notin unshown'
             PROVE  <<a, g>> \notin unshown /\ table'[a][g] = table[a][g]
  BY DEF OnlyUnshown
<1>1. <<a, g>> \notin unshown /\ <<a, g>> \notin SpeedsLost
  OBVIOUS
<1>2. table \in [Addr -> States] /\ table[a] \in States
  BY TablesKept
<1>3. table'[a] = [table[a] EXCEPT !["speed"] = 0]
  BY DEF AllStopped
<1>4. CASE g = "speed"
  <2>1. table[a]["speed"] = 0
    BY <1>1, <1>4 DEF SpeedsLost
  <2> QED
    BY <1>1, <1>2, <1>3, <1>4, <2>1 DEF States
<1>5. CASE g # "speed"
  BY <1>1, <1>2, <1>3, <1>5 DEF States
<1> QED
  BY <1>4, <1>5

LEMMA SwitchSound ==
    ASSUME TypeInv, Safe, NEW d \in Devices, NEW p \in Powers, SwitchPower(d, p)
    PROVE  Safe'
<1>1. PICK replies \in Seq(Messages) :
        /\ replies = PowerMessages(p) /\ PowerBroadcast(p) \in Range(replies)
        /\ \A m \in Range(replies) : m \in {Plain, PowerBroadcast(p)}
  BY PowerContents
<1>2. PICK use : Received(d, <<>>, replies, use)
  BY <1>1 DEF SwitchPower, PowerMessages
<1>3. /\ railpower' = p /\ known' = known
      /\ table' = IF p # "csNormal" THEN AllStopped ELSE table
      /\ unshown' = IF p # "csNormal" THEN unshown \cup SpeedsLost ELSE unshown
  BY DEF SwitchPower
<1>4. OnlyUnshown
  BY <1>3, StoppedUnshown, NothingChanged
<1>5. /\ Plain.kind = "plain" /\ PowerBroadcast(p).kind = "power" /\ PowerBroadcast(p).power = p
  BY DEF Plain, PowerBroadcast
<1>6. HeardFrom(railpower, replies) = p
  <2>1. replies \in Seq(Heard)
    BY DEF Heard
  <2>2. \E m \in Range(replies) : m.kind = "power" /\ HeardFrom(railpower, replies) = m.power
    BY <1>1, <1>5, <2>1, PowerAs
  <2> QED
    BY <1>1, <1>5, <2>2
<1>7. \A m \in Range(replies) : m.kind \notin {"inquiry", "overheard"}
  BY <1>1, <1>5
<1> QED
  BY <1>2, <1>3, <1>4, <1>6, <1>7, QuietSound

(* The router's calls. *)
LEMMA CalledSound ==
    ASSUME TypeInv, Safe, NEW msgs \in Seq(Messages),
           \A m \in Range(msgs) : m.kind \notin {"inquiry", "overheard"},
           FromRouter(msgs), KnownSound', PendingSound',
           (BusSound /\ \A a \in Addr, g \in Groups : Shown(a, g)' = Shown(a, g)) => BusSound',
           railpower' = HeardFrom(railpower, msgs)
    PROVE  Safe'
<1>1. ASSUME ~overrun'
      PROVE  RingSound' /\ PowerSound' /\ BusSound'
  <2>1. ~overrun /\ RingSound /\ PowerSound /\ BusSound
    BY <1>1 DEF Safe, FromRouter
  <2>2. /\ RingSound'
        /\ HeardFrom(heardPower', Unsent(tx')) = HeardFrom(railpower, msgs)
        /\ \A a \in Addr, g \in Groups : Shown(a, g)' = Shown(a, g)
    BY <1>1, <2>1, RoutedSound
  <2> QED
    BY <2>1, <2>2 DEF PowerSound
<1> QED
  BY <1>1 DEF Safe

LEMMA OthersDriveSound ==
    ASSUME TypeInv, Safe, NEW a \in Addr, NEW v \in Speeds, OthersDrive(a, v)
    PROVE  Safe'
<1> DEFINE st == [table[a] EXCEPT !["speed"] = v]
<1>1. st \in States
  BY TablesKept, StateValues, GroupsAre
<1>2. /\ FromRouter(<<Plain>>) /\ table' = [table EXCEPT ![a] = st]
      /\ QueueLocoRefresh(a, st) /\ railpower' = railpower
  BY DEF OthersDrive
<1> HIDE DEF st
<1>3. PICK msgs \in Seq(Messages) : msgs = <<Plain>> /\ \A m \in Range(msgs) : m = Plain
  BY PlainOne
<1>4. \A m \in Range(msgs) : m.kind = "plain"
  BY <1>3 DEF Plain
<1>5. HeardFrom(railpower, msgs) = railpower
  BY <1>4, NoPower
<1>6. /\ KnownSound' /\ PendingSound'
      /\ (BusSound /\ \A b \in Addr, g \in Groups : Shown(b, g)' = Shown(b, g)) => BusSound'
  BY <1>1, <1>2, QueueSound DEF Safe
<1>7. FromRouter(msgs)
  BY <1>2, <1>3
<1> QED
  BY <1>2, <1>4, <1>5, <1>6, <1>7, CalledSound

LEMMA OthersPressSound ==
    ASSUME TypeInv, Safe, NEW a \in Addr, NEW g \in FnGroups, NEW F \in Bits,
           OthersPressFunction(a, g, F)
    PROVE  Safe'
<1> DEFINE st == [table[a] EXCEPT ![g] = F]
<1>1. st \in States
  BY TablesKept, StateValues, GroupsAre
<1>2. /\ FromRouter(Repeat(Plain, 1 + FnMessages)) /\ table' = [table EXCEPT ![a] = st]
      /\ QueueLocoRefresh(a, st) /\ railpower' = railpower
  BY DEF OthersPressFunction
<1> HIDE DEF st
<1>3. PICK msgs \in Seq(Messages) :
        msgs = Repeat(Plain, 1 + FnMessages) /\ \A m \in Range(msgs) : m = Plain
  <2>1. 1 + FnMessages \in Nat
    BY DEF FnMessages
  <2> QED
    BY <2>1, MessageTypes, RangeRepeat
<1>4. \A m \in Range(msgs) : m.kind = "plain"
  BY <1>3 DEF Plain
<1>5. HeardFrom(railpower, msgs) = railpower
  BY <1>4, NoPower
<1>6. /\ KnownSound' /\ PendingSound'
      /\ (BusSound /\ \A b \in Addr, h \in Groups : Shown(b, h)' = Shown(b, h)) => BusSound'
  BY <1>1, <1>2, QueueSound DEF Safe
<1>7. FromRouter(msgs)
  BY <1>2, <1>3
<1> QED
  BY <1>2, <1>4, <1>5, <1>6, <1>7, CalledSound

(* The router's calls that queue no refresh. *)
LEMMA UnqueuedSound ==
    ASSUME TypeInv, Safe, NEW msgs \in Seq(Messages),
           \A m \in Range(msgs) : m.kind \notin {"inquiry", "overheard"},
           FromRouter(msgs), known' = known, pending' = pending, OnlyUnshown,
           railpower' = HeardFrom(railpower, msgs)
    PROVE  Safe'
<1>1. KnownSound' /\ PendingSound'
  BY KeptKnown, KeptPending DEF Safe
<1>2. (BusSound /\ \A a \in Addr, g \in Groups : Shown(a, g)' = Shown(a, g)) => BusSound'
  BY KeptBus
<1> QED
  BY <1>1, <1>2, CalledSound

LEMMA OthersStopSound == ASSUME TypeInv, Safe, OthersStop PROVE Safe'
<1> DEFINE p == "csEmergencyStop"
<1>1. PICK msgs \in Seq(Messages) :
        /\ msgs = StopAll /\ PowerBroadcast(p) \in Range(msgs)
        /\ \A m \in Range(msgs) : m \in {Plain, PowerBroadcast(p)}
  BY StopAllContents
<1>2. /\ FromRouter(msgs) /\ railpower' = p /\ known' = known /\ pending' = pending
      /\ table' = AllStopped /\ unshown' = unshown \cup SpeedsLost
  BY <1>1 DEF OthersStop, StopAll
<1>3. OnlyUnshown
  BY <1>2, StoppedUnshown
<1>4. /\ Plain.kind = "plain" /\ PowerBroadcast(p).kind = "power" /\ PowerBroadcast(p).power = p
  BY DEF Plain, PowerBroadcast
<1>5. HeardFrom(railpower, msgs) = p
  <2>1. msgs \in Seq(Heard)
    BY DEF Heard
  <2>2. \E m \in Range(msgs) : m.kind = "power" /\ HeardFrom(railpower, msgs) = m.power
    BY <1>1, <1>4, <2>1, PowerAs
  <2> QED
    BY <1>1, <1>4, <2>2
<1>6. \A m \in Range(msgs) : m.kind \notin {"inquiry", "overheard"}
  BY <1>1, <1>4
<1> QED
  BY <1>2, <1>3, <1>5, <1>6, UnqueuedSound

LEMMA OthersResumeSound == ASSUME TypeInv, Safe, OthersResume PROVE Safe'
<1> DEFINE p == "csNormal"
<1>1. PICK msgs \in Seq(Messages) :
        msgs = <<PowerBroadcast(p)>> /\ Range(msgs) = {PowerBroadcast(p)}
  BY PowerOne DEF Powers
<1>2. /\ FromRouter(msgs) /\ railpower' = p /\ known' = known /\ pending' = pending
      /\ OnlyUnshown
  BY <1>1, NothingChanged DEF OthersResume
<1>3. PowerBroadcast(p).kind = "power" /\ PowerBroadcast(p).power = p
  BY DEF PowerBroadcast
<1>4. HeardFrom(railpower, msgs) = p
  <2>1. msgs \in Seq(Heard)
    BY DEF Heard
  <2>2. \E m \in Range(msgs) : m.kind = "power" /\ HeardFrom(railpower, msgs) = m.power
    BY <1>1, <1>3, <2>1, PowerAs
  <2> QED
    BY <1>1, <1>3, <2>2
<1>5. \A m \in Range(msgs) : m.kind \notin {"inquiry", "overheard"}
  BY <1>1, <1>3
<1> QED
  BY <1>2, <1>4, <1>5, UnqueuedSound

LEMMA OthersTurnoutSound == ASSUME TypeInv, Safe, OthersTurnout PROVE Safe'
<1>1. PICK msgs \in Seq(Messages) :
        msgs = <<Reply(External), Plain>> /\ \A m \in Range(msgs) : m.kind \in {"reply", "plain"}
  BY TurnoutContents
<1>2. /\ FromRouter(msgs) /\ railpower' = railpower /\ known' = known /\ pending' = pending
      /\ OnlyUnshown
  BY <1>1, NothingChanged DEF OthersTurnout
<1>3. HeardFrom(railpower, msgs) = railpower
  BY <1>1, NoPower
<1>4. \A m \in Range(msgs) : m.kind \notin {"inquiry", "overheard"}
  BY <1>1
<1> QED
  BY <1>2, <1>3, <1>4, UnqueuedSound

(* Steps that leave the ring and the bus alone. *)
LEMMA StillSound ==
    ASSUME Safe, known' = known, pending' = pending, OnlyUnshown, tx' = tx, bus' = bus,
           heardPower' = heardPower, railpower' = railpower, called' = called, asked' = asked,
           overrun' = overrun, place' = place \/ place' # 0
    PROVE  Safe'
<1>1. KnownSound' /\ PendingSound'
  BY KeptKnown, KeptPending DEF Safe
<1>2. ASSUME ~overrun'
      PROVE  RingSound' /\ PowerSound' /\ BusSound'
  <2>1. RingSound /\ PowerSound /\ BusSound
    BY <1>2 DEF Safe
  <2>2. \A a \in Addr, g \in Groups : Shown(a, g)' = Shown(a, g)
    BY DEF Shown
  <2>3. BusSound'
    BY <2>1, <2>2, KeptBus
  <2> QED
    BY <2>1, <2>3 DEF RingSound, Orderly, PowerSound
<1> QED
  BY <1>1, <1>2 DEF Safe

LEMMA WithheldSound ==
    ASSUME TypeInv, Safe, NEW a \in Addr, NEW g \in Groups, NEW v \in ValuesOf(g), Withheld(a, g, v)
    PROVE  Safe'
<1>1. table \in [Addr -> States] /\ \A b \in Addr : table[b] \in [Groups -> Speeds \cup Bits]
  BY TablesKept DEF States
<1>2. table' = [table EXCEPT ![a] = [table[a] EXCEPT ![g] = v]] /\ unshown' = unshown \cup {<<a, g>>}
  BY DEF Withheld
<1>3. OnlyUnshown
  BY <1>1, <1>2 DEF OnlyUnshown
<1> QED
  BY <1>3, StillSound DEF Withheld

LEMMA TimeoutSound == ASSUME Safe, Timeout PROVE Safe'
<1>1. OnlyUnshown
  BY NothingChanged DEF Timeout
<1> QED
  BY <1>1, StillSound DEF Timeout

LEMMA RestedSound == ASSUME Safe, NEW i, Rested(i) PROVE Safe'
<1>1. OnlyUnshown
  BY NothingChanged DEF Rested
<1> QED
  BY <1>1, StillSound DEF Rested

LEMMA StutterSound == ASSUME Safe, UNCHANGED vars PROVE Safe'
<1>1. OnlyUnshown
  BY NothingChanged DEF vars
<1> QED
  BY <1>1, StillSound DEF vars

(* flushPendingRefresh(): what was waiting is in the ring, behind all that *)
(* is older.                                                               *)
LEMMA FlushSound ==
    ASSUME TypeInv, Safe, NEW i \in 1 .. PendingCount, FlushPlace(i)
    PROVE  Safe'
<1> DEFINE e == pending[i]
<1>1. /\ pending \in [1 .. PendingCount -> Entries] /\ e \in Entries /\ e.adr \in Addr /\ TypeOK
      /\ place' # 0
  <2>1. pending \in [1 .. PendingCount -> Entries] /\ TypeOK /\ NoLoco \notin Addr
    BY TablesKept, XNetAssumption
  <2> QED
    BY <2>1 DEF Entries, TypeInv, FlushPlace, Due
<1> HIDE DEF e
<1>2. PICK msgs \in Seq(Messages) :
        /\ msgs = Refresh(e)
        /\ \A m \in Range(msgs) : m.kind \in {"overheard", "busy"}
        /\ \A m \in Range(msgs) : (m.kind = "overheard") =>
              m.adr = e.adr /\ m.group \in e.dirty /\ m.val = e.st[m.group]
        /\ \A g \in e.dirty : Overheard(e.adr, g, e.st[g]) \in Range(msgs)
  BY <1>1, RefreshContents
<1>3. /\ tx' = Queued(tx, msgs) /\ overrun' = (overrun \/ Overwrites(tx, msgs))
      /\ pending' = [pending EXCEPT ![i] = Unused]
      /\ UNCHANGED <<known, railpower, table, bus, heardPower, called, asked, unshown>>
  BY <1>2 DEF FlushPlace, e
<1>4. pending'[i] = Unused /\ \A j \in 1 .. PendingCount : j # i => pending'[j] = pending[j]
  BY <1>1, <1>3
<1>5. KnownSound'
  BY <1>3 DEF Safe, KnownSound
<1>6. PendingSound'
  BY <1>3, <1>4 DEF Safe, PendingSound, Unused
<1>7. ASSUME ~overrun'
      PROVE  RingSound' /\ PowerSound' /\ BusSound'
  <2>1. ~overrun /\ RingSound /\ PowerSound /\ BusSound /\ ~Overwrites(tx, msgs)
    BY <1>3, <1>7 DEF Safe
  <2>2. PICK w \in Seq(Messages) : w = Unsent(tx)
    BY TablesKept, UnsentType
  <2>3. Packed(tx') /\ Unsent(tx') = w \o msgs /\ Range(w \o msgs) = Range(w) \cup Range(msgs)
    BY <1>3, <2>1, <2>2, WireQueued DEF RingSound
  <2>4. RingSound'
    BY <1>1, <1>2, <1>3, <2>1, <2>2, <2>3 DEF RingSound, Orderly
  <2>5. w \in Seq(Heard) /\ msgs \in Seq(Heard) /\ Range(msgs) \subseteq Messages
    BY DEF Heard, Range
  <2>6. PowerSound'
    <3>1. HeardFrom(heardPower, w \o msgs) = HeardFrom(HeardFrom(heardPower, w), msgs)
      BY <2>5, PowerJoined
    <3>2. HeardFrom(heardPower, w) = railpower
      BY <2>1, <2>2 DEF PowerSound
    <3>3. HeardFrom(railpower, msgs) = railpower
      BY <1>2, NoPower
    <3> QED
      BY <1>3, <2>3, <3>1, <3>2, <3>3 DEF PowerSound
  <2>7. ASSUME NEW a \in Addr, NEW g \in Groups, <<a, g>> \notin unshown', ~Waiting(a, g)'
        PROVE  Shown(a, g)' = table'[a][g]
    <3>1. Shown(a, g)' = LearntFrom(LearntFrom(bus, w), msgs)[a][g]
      BY <1>3, <2>3, <2>5, LearntJoined DEF Shown
    <3>2. CASE a = e.adr /\ g \in e.dirty
      <4>1. e.st[g] = table[a][g]
        BY <1>3, <2>7, <3>2 DEF Safe, PendingSound, e
      <4>2. Says(Overheard(a, g, e.st[g]), a, g)
        BY DEF Says, Overheard
      <4>3. \E m \in Range(msgs) : Says(m, a, g)
        BY <1>2, <3>2, <4>2
      <4>4. \E m \in Range(msgs) :
              Says(m, a, g) /\ LearntFrom(LearntFrom(bus, w), msgs)[a][g] = m.val
        BY <2>5, <4>3, LearntAs
      <4>5. \A m \in Range(msgs) : Says(m, a, g) => m.val = e.st[g]
        BY <1>2 DEF Says
      <4> QED
        BY <1>3, <3>1, <4>1, <4>4, <4>5
    <3>3. CASE ~(a = e.adr /\ g \in e.dirty)
      <4>1. \A m \in Range(msgs) : ~Says(m, a, g)
        BY <1>2, <3>3 DEF Says
      <4>2. LearntFrom(LearntFrom(bus, w), msgs)[a][g] = LearntFrom(bus, w)[a][g]
        BY <2>5, <4>1, LearntNone
      <4>3. ~Waiting(a, g)
        BY <1>4, <2>7, <3>3 DEF Waiting, e
      <4>4. Shown(a, g) = table[a][g]
        BY <1>3, <2>1, <2>7, <4>3 DEF BusSound
      <4> QED
        BY <1>3, <2>2, <3>1, <4>2, <4>4 DEF Shown
    <3> QED
      BY <3>2, <3>3
  <2> QED
    BY <2>4, <2>6, <2>7 DEF BusSound
<1> QED
  BY <1>5, <1>6, <1>7 DEF Safe

(* The new call is the last of the messages that go out before the window. *)
LEMMA OpenSound == ASSUME TypeInv, Safe, OpenWindow PROVE Safe'
<1>1. /\ known' = known /\ pending' = pending /\ railpower' = railpower /\ OnlyUnshown
  BY NothingChanged DEF OpenWindow
<1>2. KnownSound' /\ PendingSound'
  BY <1>1, KeptKnown, KeptPending DEF Safe
<1>3. PICK s \in Slots : s = NextPoll.slot
  <2>1. xnetAdr \in 0 .. AdrRange - 1
    BY TablesKept DEF TypeOK
  <2> QED
    BY <2>1, PollType
<1>4. PICK msgs \in Seq(Messages) : msgs = <<Inquiry(s)>>
  <2>1. PICK m \in Messages : m = Inquiry(s)
    BY MessageTypes
  <2> QED
    BY <2>1, RangeOne
<1>5. /\ asked' = s /\ overrun' = (overrun \/ Overwrites(tx, msgs))
      /\ \E q \in {Queued(tx, msgs)} : Transmit(q, <<>>)
  BY <1>3, <1>4 DEF OpenWindow, Opened
<1>6. ASSUME ~overrun'
      PROVE  RingSound' /\ PowerSound' /\ BusSound'
  <2>1. ~overrun /\ RingSound /\ PowerSound /\ BusSound /\ ~Overwrites(tx, msgs)
    BY <1>5, <1>6 DEF Safe
  <2>2. PICK w \in Seq(Messages) : w = Unsent(tx)
    BY TablesKept, UnsentType
  <2>3. PICK q \in {Queued(tx, msgs)} : Transmit(q, <<>>)
    BY <1>5
  <2>4. q \in Rings /\ Packed(q) /\ Unsent(q) = w \o msgs
    BY <2>1, <2>2, WireQueued DEF RingSound
  <2>5. PICK wire \in {<<>> \o Unsent(q)} :
          tx' = Sent(q) /\ bus' = Learnt(wire) /\ heardPower' = PowerHeard(wire)
          /\ called' = MayAnswer(wire)
    BY <2>3 DEF Transmit
  <2>6. wire = w \o msgs
    BY <2>4, <2>5
  <2>7. Packed(tx') /\ Unsent(tx') = <<>>
    BY <2>4, <2>5, SentPacked
  <2>8. w \in Seq(Heard) /\ msgs \in Seq(Heard)
    BY DEF Heard
  <2>9. called' = s
    <3>1. MayAnswer(w \o <<Inquiry(s)>>) = s
      BY <2>8, AnswerLast
    <3> QED
      BY <1>4, <2>5, <2>6, <3>1
  <2>10. RingSound'
    BY <1>5, <2>7, <2>9 DEF RingSound, Orderly, Range
  <2>11. \A m \in Range(msgs) : m.kind = "inquiry"
    BY <1>4 DEF Range, Inquiry
  <2>12. PowerSound'
    <3>1. heardPower' = HeardFrom(heardPower, w \o msgs)
      BY <2>5, <2>6 DEF PowerHeard, HeardFrom
    <3>2. HeardFrom(heardPower, w \o msgs) = HeardFrom(HeardFrom(heardPower, w), msgs)
      BY <2>8, PowerJoined
    <3>3. HeardFrom(heardPower, w) = railpower
      BY <2>1, <2>2 DEF PowerSound
    <3>4. HeardFrom(railpower, msgs) = railpower
      BY <2>11, NoPower
    <3>5. HeardFrom(heardPower', <<>>) = heardPower'
      BY DEF HeardFrom, PowerNews
    <3> QED
      BY <1>1, <2>7, <3>1, <3>2, <3>3, <3>4, <3>5 DEF PowerSound
  <2>13. ASSUME NEW a \in Addr, NEW g \in Groups
         PROVE  Shown(a, g)' = Shown(a, g)
    <3>1. bus' = LearntFrom(bus, w \o msgs)
      BY <2>5, <2>6 DEF Learnt, LearntFrom
    <3>2. LearntFrom(bus, w \o msgs)[a][g] = LearntFrom(LearntFrom(bus, w), msgs)[a][g]
      BY <2>8, LearntJoined
    <3>3. \A m \in Range(msgs) : ~Says(m, a, g)
      BY <2>11 DEF Says
    <3>4. LearntFrom(LearntFrom(bus, w), msgs)[a][g] = LearntFrom(bus, w)[a][g]
      BY <2>8, <3>3, LearntNone
    <3>5. LearntFrom(bus', <<>>)[a][g] = bus'[a][g]
      BY WireEmpty
    <3> QED
      BY <2>2, <2>7, <3>1, <3>2, <3>4, <3>5 DEF Shown
  <2>14. BusSound'
    BY <1>1, <2>1, <2>13, KeptBus
  <2> QED
    BY <2>10, <2>12, <2>14
<1> QED
  BY <1>2, <1>6 DEF Safe

LEMMA InitSound == Init => Safe
<1> SUFFICES ASSUME Init PROVE Safe
  OBVIOUS
<1> DEFINE start == PowerBroadcast("csNormal")
<1>1. RingSize \in Nat /\ RingSize # 0 /\ NoLoco \notin Addr
  BY XNetAssumption
<1>2. start \in Messages /\ start # Empty /\ start.kind = "power" /\ start.power = "csNormal"
  BY MessageTypes DEF Powers, PowerBroadcast, Empty
<1> HIDE DEF start
<1>3. /\ tx.ring = [i \in 0 .. RingSize - 1 |-> IF i = 0 THEN start ELSE Empty]
      /\ tx.put = 1 % RingSize
  BY DEF Init, start
<1>4. tx \in Rings
  BY InitType, TablesKept
<1>5. Packed(tx)
  <2>1. 1 \in 0 .. RingSize /\ \A i \in 0 .. RingSize - 1 : (tx.ring[i] # Empty) <=> (i < 1)
    BY <1>1, <1>2, <1>3
  <2> QED
    BY <1>3, <2>1 DEF Packed
<1>6. PICK w \in Seq(Heard) : w = Unsent(tx) /\ Range(w) = {start}
  <2>1. /\ Filled(tx) \in 0 .. RingSize
        /\ \A i \in 0 .. RingSize - 1 : (tx.ring[i] # Empty) <=> (i < Filled(tx))
    BY <1>4, <1>5, PackedFilled
  <2>2. 0 < Filled(tx)
    <3>1. 0 \in 0 .. RingSize - 1 /\ tx.ring[0] # Empty
      BY <1>1, <1>2, <1>3
    <3> QED
      BY <2>1, <3>1
  <2>3. ~(1 < Filled(tx))
    <3> SUFFICES ASSUME 1 < Filled(tx) PROVE FALSE
      OBVIOUS
    <3>1. 1 \in 0 .. RingSize - 1
      BY <1>1, <2>1
    <3>2. tx.ring[1] = Empty
      BY <1>3, <3>1
    <3> QED
      BY <2>1, <3>1, <3>2
  <2>4. Filled(tx) = 1
    BY <2>1, <2>2, <2>3
  <2>5. Unsent(tx) = [i \in 1 .. 1 |-> tx.ring[i - 1]]
    BY <2>4 DEF Unsent
  <2>6. tx.ring[1 - 1] = start
    BY <1>1, <1>3
  <2>7. Range(Unsent(tx)) = {start}
    BY <2>5, <2>6 DEF Range
  <2>8. Unsent(tx) \in Seq(Heard)
    BY <1>4, UnsentType DEF Heard
  <2> QED
    BY <2>7, <2>8, Zenon
<1>7. RingSound
  BY <1>2, <1>5, <1>6 DEF RingSound, Orderly, Init
<1>8. PowerSound
  <2>1. \E m \in Range(w) : m.kind = "power"
    BY <1>2, <1>6
  <2>2. \E m \in Range(w) : m.kind = "power" /\ HeardFrom(heardPower, w) = m.power
    BY <2>1, PowerAs
  <2> QED
    BY <1>2, <1>6, <2>2 DEF PowerSound, Init
<1>9. BusSound
  <2>1. ASSUME NEW a \in Addr, NEW g \in Groups
        PROVE  Shown(a, g) = table[a][g]
    <3>1. \A m \in Range(w) : ~Says(m, a, g)
      BY <1>2, <1>6 DEF Says
    <3>2. LearntFrom(bus, w)[a][g] = bus[a][g]
      BY <3>1, LearntNone
    <3> QED
      BY <1>6, <3>2 DEF Shown, Init
  <2> QED
    BY <2>1 DEF BusSound
<1>10. KnownSound /\ PendingSound
  BY <1>1 DEF Init, KnownSound, PendingSound, Unused
<1> QED
  BY <1>7, <1>8, <1>9, <1>10 DEF Safe

LEMMA SafeStep == ASSUME TypeInv, Safe, [Next]_vars PROVE Safe'
<1>1. CASE UNCHANGED vars
  BY <1>1, StutterSound
<1>2. CASE Timeout
  BY <1>2, TimeoutSound
<1>3. CASE OpenWindow
  BY <1>3, OpenSound
<1>4. CASE Answer
  <2>1. PICK d \in Devices :
        \/ AskStatus(d) \/ OtherRequest(d)
        \/ \E p \in Powers : SwitchPower(d, p)
        \/ \E a \in Addr :
            \/ Select(d, a) \/ RefusedDrive(d, a)
            \/ \E v \in Speeds : Drive(d, a, v)
            \/ \E g \in FnGroups, F \in Bits : PressFunction(d, a, g, F)
    BY <1>4 DEF Answer
  <2> QED
    BY <2>1, AskStatusSound, OtherRequestSound, SwitchSound, SelectSound, RefusedSound, DriveSound,
       PressSound
<1>5. CASE Others
  BY <1>5, OthersStopSound, OthersResumeSound, OthersTurnoutSound, OthersDriveSound,
     OthersPressSound, WithheldSound DEF Others
<1>6. CASE \E i \in 1 .. PendingCount : FlushPlace(i) \/ Rested(i)
  BY <1>6, FlushSound, RestedSound
<1> QED
  BY <1>1, <1>2, <1>3, <1>4, <1>5, <1>6 DEF Next

-----------------------------------------------------------------------------
(* The ring, the refreshes and the books keep their form, even when the    *)
(* ring has run over: XNetsend() and getNextXNetAdr() stay in range.       *)
THEOREM TypeCorrect == Spec => []TypeOK
<1>1. Init => TypeInv
  BY InitType
<1>2. TypeInv /\ [Next]_vars => TypeInv'
  BY TypeStep
<1>3. TypeInv => TypeOK
  BY DEF TypeInv
<1> QED
  BY <1>1, <1>2, <1>3, PTL DEF Spec

IInv == TypeInv /\ Safe

LEMMA Inductive == Spec => []IInv
<1>1. Init => IInv
  BY InitType, InitSound DEF IInv
<1>2. IInv /\ [Next]_vars => IInv'
  BY TypeStep, SafeStep DEF IInv
<1> QED
  BY <1>1, <1>2, PTL DEF Spec

(* While no message was lost, the device that has the bus is the one its   *)
(* message will be booked to.                                              *)
THEOREM AnswersAlwaysForItself == Spec => []AnswersForItself
<1>1. IInv => AnswersForItself
  BY DEF IInv, Safe, RingSound, AnswersForItself
<1> QED
  BY <1>1, Inductive, PTL

(* With nothing left in the ring, throttles have heard what the loco table *)
(* holds and the power state, except for what the code itself gives up.    *)
THEOREM AlwaysMirrored == Spec => []Mirrored
<1>1. IInv => Mirrored
  <2> SUFFICES ASSUME IInv, ~overrun, EmptyRing
               PROVE  /\ heardPower = railpower
                      /\ \A a \in Addr, g \in Groups :
                           (<<a, g>> \notin unshown
                            /\ \A i \in 1 .. PendingCount : pending[i].adr # a)
                              => bus[a][g] = table[a][g]
    BY DEF Mirrored
  <2>1. TypeInv /\ PowerSound /\ BusSound /\ tx \in Rings
    BY TablesKept DEF IInv, Safe
  <2>2. Filled(tx) = 0
    <3>1. Filled(tx) \in 0 .. RingSize /\ \A i \in 0 .. Filled(tx) - 1 : tx.ring[i] # Empty
      BY <2>1, FilledIs
    <3> SUFFICES ASSUME Filled(tx) # 0 PROVE FALSE
      OBVIOUS
    <3>2. 0 \in 0 .. Filled(tx) - 1 /\ 0 \in 0 .. RingSize - 1
      BY <3>1, RingSizeType
    <3> QED
      BY <3>1, <3>2 DEF EmptyRing
  <2>3. Unsent(tx) = <<>>
    <3>1. Unsent(tx) \in Seq(Messages) /\ Len(Unsent(tx)) = 0
      BY <2>1, <2>2, UnsentType
    <3> QED
      BY <3>1
  <2>4. heardPower = railpower
    <3>1. HeardFrom(heardPower, <<>>) = heardPower
      BY DEF HeardFrom, PowerNews
    <3> QED
      BY <2>1, <2>3, <3>1 DEF PowerSound
  <2>5. ASSUME NEW a \in Addr, NEW g \in Groups, <<a, g>> \notin unshown,
               \A i \in 1 .. PendingCount : pending[i].adr # a
        PROVE  bus[a][g] = table[a][g]
    <3>1. Shown(a, g) = table[a][g]
      BY <2>1, <2>5 DEF BusSound, Waiting
    <3> QED
      BY <2>3, <3>1, WireEmpty DEF Shown
  <2> QED
    BY <2>4, <2>5
<1> QED
  BY <1>1, Inductive, PTL

-----------------------------------------------------------------------------
(* Remainders, of numbers written as a multiple and a rest.                *)
LEMMA RestOf ==
    ASSUME NEW c \in Nat, c # 0, NEW q \in Nat, NEW r \in 0 .. c - 1
    PROVE  (q * c + r) % c = r
  OBVIOUS

LEMMA RestExists ==
    ASSUME NEW c \in Nat, c # 0, NEW x \in Nat
    PROVE  \E q \in Nat, r \in 0 .. c - 1 : x = q * c + r
<1>1. x \div c \in Nat /\ x = (x \div c) * c + (x % c)
  OBVIOUS
<1>2. x % c \in 0 .. c - 1
  BY ModRange
<1> QED
  BY <1>1, <1>2

LEMMA WholeBlocks ==
    ASSUME NEW c \in Nat, c # 0, NEW q \in Nat, NEW r \in 0 .. c - 1, NEW m \in Nat,
           q * c + r < m * c
    PROVE  (q + 1) * c <= m * c /\ (q + 1) * c = q * c + c
  OBVIOUS

(* getNextXNetAdr() without the remainders: the next address in the first  *)
(* round, and from then on the first known one in what is left of a round, *)
(* or the start of the next.                                               *)
FirstRoundPoll(n) == n < SlotCount /\ NextPoll = [adr |-> n, slot |-> n]
LaterPoll(n, t, stop) ==
    /\ n >= SlotCount /\ t \in 0 .. SlotCount - 1 /\ stop \in t .. SlotCount
    /\ \A s \in Slots : (slots[s] # Inactive /\ s >= t) => stop <= s
    /\ \/ /\ stop < SlotCount /\ NextPoll.adr = (n - t) + stop
          /\ NextPoll.adr % SlotCount = stop
          /\ stop # 0 => NextPoll.slot = stop
       \/ /\ stop = SlotCount /\ NextPoll.slot = 1
          /\ NextPoll.adr \in {(n - t) + SlotCount, 0} /\ NextPoll.adr % SlotCount = 0

LEMMA PollCases ==
    ASSUME xnetAdr \in 0 .. AdrRange - 1
    PROVE  \E r \in 0 .. SlotCount - 1 :
             /\ xnetAdr % SlotCount = r
             /\ \/ /\ xnetAdr = AdrRange - 1 /\ r = SlotCount - 1 /\ FirstRoundPoll(1)
                \/ /\ xnetAdr + 1 < SlotCount /\ r = xnetAdr /\ FirstRoundPoll(xnetAdr + 1)
                \/ \E stop \in 0 .. SlotCount :
                     LaterPoll(xnetAdr + 1, IF r = SlotCount - 1 THEN 0 ELSE r + 1, stop)
<1> DEFINE c == SlotCount
           n == NextAdr(xnetAdr, AdrRange)
<1>1. c \in Nat /\ c > 1 /\ c # 0 /\ AdrRange \in Nat /\ AdrRange > c /\ AdrRange # 0
      /\ AdrRange % c = 0
  <2>1. SlotCount \in Nat \ {0, 1} /\ AdrRange \in Nat /\ AdrRange > SlotCount
    BY XNetAssumption
  <2>2. AdrRange % SlotCount = 0
    BY XNetAssumption
  <2>3. SlotCount \in Nat /\ SlotCount > 1 /\ SlotCount # 0 /\ AdrRange # 0
    BY <2>1
  <2> QED
    BY <2>1, <2>2, <2>3
<1>2. PICK q \in Nat, r \in 0 .. c - 1 : xnetAdr = q * c + r
  <2>1. xnetAdr \in Nat
    BY <1>1
  <2> HIDE DEF c
  <2> QED
    BY <2>1, <1>1, RestExists
<1>3. xnetAdr % c = r
  BY <1>1, <1>2, RestOf
<1>4. PICK m \in Nat : AdrRange = m * c
  <2>1. PICK p \in Nat, s \in 0 .. c - 1 : AdrRange = p * c + s
    BY <1>1, RestExists
  <2>2. s = 0
    BY <1>1, <2>1, RestOf
  <2> QED
    BY <2>1, <2>2, <1>1
<1>5. (q + 1) * c <= m * c /\ (q + 1) * c = q * c + c
  BY <1>1, <1>2, <1>4, WholeBlocks
<1>6. n = IF xnetAdr = AdrRange - 1 THEN 1 ELSE xnetAdr + 1
  <2>1. CASE xnetAdr = AdrRange - 1
    <3>1. (xnetAdr + 1) % AdrRange = 0
      BY <1>1, <2>1, FullMod
    <3> QED
      BY <2>1, <3>1 DEF NextAdr
  <2>2. CASE xnetAdr # AdrRange - 1
    <3>1. xnetAdr + 1 \in Nat /\ xnetAdr + 1 < AdrRange
      BY <1>1, <2>2
    <3>2. (xnetAdr + 1) % AdrRange = xnetAdr + 1
      BY <1>1, <3>1, SmallMod
    <3> QED
      BY <2>2, <3>1, <3>2 DEF NextAdr
  <2> QED
    BY <2>1, <2>2
<1> DEFINE active == {s \in Slots : slots[s] # Inactive}
           stop == Stop(n % c, active, c)
<1>7. NextPoll = IF n < c THEN [adr |-> n, slot |-> n % c]
                 ELSE [adr |-> ((n + stop) - (n % c)) % AdrRange,
                       slot |-> IF stop % c = 0 THEN 1 ELSE stop]
  BY DEF NextPoll, Poll
<1>8. n \in 0 .. AdrRange - 1
  BY <1>1, <1>6
<1>9. ASSUME n < c PROVE FirstRoundPoll(n)
  <2>1. n % c = n
    BY <1>1, <1>8, <1>9, SmallMod
  <2> QED
    BY <2>1, <1>7, <1>9 DEF FirstRoundPoll
<1>10. CASE xnetAdr = AdrRange - 1
  <2>1. n = 1 /\ n < c
    BY <1>1, <1>6, <1>10
  <2>2. PICK p \in Nat : p + 1 = m
    <3>1. m # 0
      BY <1>1, <1>4
    <3>2. m - 1 \in Nat /\ (m - 1) + 1 = m
      BY <3>1
    <3> QED
      BY <3>2
  <2>3. m * c = p * c + c
    BY <2>2, <1>1
  <2>4. PICK e \in 0 .. c - 1 : e = c - 1
    BY <1>1
  <2>5. xnetAdr = p * c + e
    BY <2>3, <2>4, <1>4, <1>10, <1>1
  <2>6. r = c - 1
    BY <2>4, <2>5, <1>1, <1>3, RestOf
  <2> HIDE DEF n
  <2> QED
    BY <2>1, <2>6, <1>3, <1>9, <1>10
<1>11. CASE xnetAdr + 1 < c
  <2>1. n = xnetAdr + 1
    BY <1>1, <1>6, <1>11
  <2>2. r = xnetAdr
    BY <1>1, <1>3, <1>11, SmallMod
  <2> HIDE DEF n
  <2> QED
    BY <2>1, <2>2, <1>3, <1>9, <1>11
<1>12. CASE xnetAdr # AdrRange - 1 /\ ~(xnetAdr + 1 < c)
  <2> DEFINE t == IF r = c - 1 THEN 0 ELSE r + 1
  <2>1. n = xnetAdr + 1 /\ n >= c
    BY <1>1, <1>6, <1>8, <1>12
  <2>2. PICK p \in Nat : n = p * c + t /\ t \in 0 .. c - 1 /\ p * c + c <= m * c
    <3>1. CASE r = c - 1
      <4>1. n = (q + 1) * c + 0 /\ q + 1 \in Nat
        BY <2>1, <3>1, <1>1, <1>2, <1>5
      <4>2. (q + 1) * c + 0 < m * c /\ 0 \in 0 .. c - 1
        BY <4>1, <1>1, <1>4, <1>8
      <4>3. ((q + 1) + 1) * c <= m * c /\ ((q + 1) + 1) * c = (q + 1) * c + c
        BY <4>1, <4>2, <1>1, WholeBlocks
      <4> QED
        BY <3>1, <4>1, <4>2, <4>3
    <3>2. CASE r # c - 1
      BY <2>1, <3>2, <1>1, <1>2, <1>5
    <3> QED
      BY <3>1, <3>2
  <2>3. n % c = t
    <3> HIDE DEF n, t, c
    <3>1. (p * c + t) % c = t
      BY <2>2, <1>1, RestOf
    <3> QED
      BY <3>1, <2>2
  <2>4. stop \in t .. c /\ \A s \in Slots : (slots[s] # Inactive /\ s >= t) => stop <= s
    <3> DEFINE ahead == {s \in active : s >= t}
    <3>1. ahead \in SUBSET Nat /\ \A s \in ahead : s < c
      BY <1>1 DEF Slots
    <3>2. CASE ahead = {}
      <4>1. stop = c
        BY <2>3, <3>2 DEF Stop
      <4> QED
        BY <4>1, <3>2, <2>2, <1>1
    <3>3. CASE ahead # {}
      <4>1. \E s \in ahead : \A u \in ahead : s <= u
        <5> HIDE DEF ahead
        <5> QED
          BY <3>1, <3>3, Least
      <4>2. stop \in ahead /\ \A u \in ahead : stop <= u
        BY <2>3, <3>3, <4>1 DEF Stop
      <4>3. stop \in Nat /\ stop >= t /\ stop < c
        BY <4>2, <3>1
      <4>4. stop \in t .. c
        BY <4>3, <2>2, <1>1
      <4> QED
        BY <4>2, <4>4
    <3> QED
      BY <3>2, <3>3
  <2> HIDE DEF stop, n, t
  <2>5. (n + stop) - (n % c) = p * c + stop /\ n - t = p * c
    BY <2>2, <2>3, <2>4, <1>1
  <2>6. NextPoll = [adr |-> (p * c + stop) % AdrRange,
                    slot |-> IF stop % c = 0 THEN 1 ELSE stop]
    BY <1>7, <2>1, <2>5, <1>1, <1>8
  <2>7. CASE stop < c
    <3>1. stop \in 0 .. c - 1 /\ p * c + stop \in Nat /\ p * c + stop < AdrRange
      BY <2>2, <2>4, <2>7, <1>1, <1>4
    <3>2. NextPoll.adr = p * c + stop
      BY <2>6, <3>1, <1>1, SmallMod
    <3>3. NextPoll.adr % c = stop
      BY <3>1, <3>2, <1>1, RestOf
    <3>4. stop # 0 => NextPoll.slot = stop
      <4>1. stop % c = stop
        BY <3>1, <1>1, SmallMod
      <4> QED
        BY <4>1, <2>6
    <3>5. NextPoll.adr = (n - t) + stop
      BY <3>2, <2>5
    <3>6. LaterPoll(n, t, stop) /\ stop \in 0 .. c
      BY <2>1, <2>2, <2>4, <2>7, <3>1, <3>3, <3>4, <3>5 DEF LaterPoll
    <3> QED
      BY <3>6, <2>1, <1>3 DEF t
  <2>8. CASE stop = c
    <3>1. NextPoll.slot = 1
      BY <2>6, <2>8, <1>1, FullMod
    <3>2. p * c + c \in Nat /\ p * c + c <= AdrRange /\ p + 1 \in Nat /\ (p + 1) * c + 0 = p * c + c
      BY <2>2, <1>1, <1>4
    <3>3. CASE p * c + c = AdrRange
      <4>1. NextPoll.adr = 0
        BY <2>6, <2>8, <3>3, <1>1, FullMod
      <4>2. NextPoll.adr % c = 0
        BY <4>1, <1>1, SmallMod
      <4>3. LaterPoll(n, t, stop)
        BY <2>1, <2>2, <2>4, <2>8, <3>1, <4>1, <4>2 DEF LaterPoll
      <4> QED
        BY <4>3, <2>1, <2>8, <1>1, <1>3 DEF t
    <3>4. CASE p * c + c # AdrRange
      <4>1. NextPoll.adr = p * c + c
        BY <2>6, <2>8, <3>2, <3>4, <1>1, SmallMod
      <4>2. NextPoll.adr % c = 0
        <5>1. 0 \in 0 .. c - 1 /\ NextPoll.adr = (p + 1) * c + 0
          BY <4>1, <3>2, <1>1
        <5> QED
          BY <5>1, <3>2, <1>1, RestOf
      <4>3. NextPoll.adr = (n - t) + c
        BY <4>1, <2>5
      <4>4. LaterPoll(n, t, stop)
        BY <2>1, <2>2, <2>4, <2>8, <3>1, <4>2, <4>3 DEF LaterPoll
      <4> QED
        BY <4>4, <2>1, <2>8, <1>1, <1>3 DEF t
    <3> QED
      BY <3>3, <3>4
  <2> QED
    BY <2>4, <2>7, <2>8, <1>1
<1> QED
  BY <1>10, <1>11, <1>12

LEMMA PollAdvances ==
    ASSUME TypeOK, NEW s \in Slots \ {0}, OpenWindow
    PROVE  \/ asked' = s
           \/ /\ FirstRound(s)' < FirstRound(s)
              /\ slots[s] # Inactive => AnyRound(s)' < AnyRound(s)
<1>1. xnetAdr \in 0 .. AdrRange - 1 /\ xnetAdr' = NextPoll.adr /\ asked' = NextPoll.slot
  BY DEF TypeOK, OpenWindow
<1>2. SlotCount \in Nat /\ SlotCount > 1 /\ AdrRange \in Nat /\ AdrRange > SlotCount
      /\ s \in 1 .. SlotCount - 1
  BY XNetAssumption DEF Slots
<1>3. PICK r \in 0 .. SlotCount - 1 :
        /\ xnetAdr % SlotCount = r
        /\ \/ /\ xnetAdr = AdrRange - 1 /\ r = SlotCount - 1 /\ FirstRoundPoll(1)
           \/ /\ xnetAdr + 1 < SlotCount /\ r = xnetAdr /\ FirstRoundPoll(xnetAdr + 1)
           \/ \E stop \in 0 .. SlotCount :
                LaterPoll(xnetAdr + 1, IF r = SlotCount - 1 THEN 0 ELSE r + 1, stop)
  BY <1>1, PollCases
<1>4. AnyRound(s) = IF r < s THEN s - r ELSE SlotCount + s - r
  BY <1>3 DEF AnyRound
<1>5. CASE /\ xnetAdr = AdrRange - 1 /\ r = SlotCount - 1 /\ FirstRoundPoll(1)
  <2>1. xnetAdr' = 1 /\ asked' = 1 /\ 1 % SlotCount = 1
    BY <1>1, <1>2, <1>5, SmallMod DEF FirstRoundPoll
  <2>2. s # 1 => FirstRound(s)' = s - 1 /\ AnyRound(s)' = s - 1
    BY <2>1, <1>2 DEF FirstRound, AnyRound
  <2>3. FirstRound(s) = s + 1 /\ AnyRound(s) = s + 1
    BY <1>2, <1>4, <1>5 DEF FirstRound
  <2> QED
    BY <2>1, <2>2, <2>3, <1>2
<1>6. CASE /\ xnetAdr + 1 < SlotCount /\ r = xnetAdr /\ FirstRoundPoll(xnetAdr + 1)
  <2>1. xnetAdr' = xnetAdr + 1 /\ asked' = xnetAdr + 1
    BY <1>1, <1>6 DEF FirstRoundPoll
  <2>2. xnetAdr' % SlotCount = xnetAdr + 1
    BY <2>1, <1>1, <1>2, <1>6, SmallMod
  <2>3. AnyRound(s)' = IF xnetAdr + 1 < s THEN s - (xnetAdr + 1)
                       ELSE SlotCount + s - (xnetAdr + 1)
    BY <2>2 DEF AnyRound
  <2>4. FirstRound(s)' = IF xnetAdr + 1 < s THEN s - (xnetAdr + 1)
                         ELSE AdrRange + s - (xnetAdr + 1)
    BY <2>1 DEF FirstRound
  <2> QED
    BY <2>1, <2>3, <2>4, <1>1, <1>2, <1>4, <1>6 DEF FirstRound
<1>7. ASSUME NEW stop \in 0 .. SlotCount,
             LaterPoll(xnetAdr + 1, IF r = SlotCount - 1 THEN 0 ELSE r + 1, stop), asked' # s
      PROVE  /\ FirstRound(s)' < FirstRound(s)
             /\ slots[s] # Inactive => AnyRound(s)' < AnyRound(s)
  <2> DEFINE t == IF r = SlotCount - 1 THEN 0 ELSE r + 1
  <2>1. /\ xnetAdr + 1 >= SlotCount /\ t \in 0 .. SlotCount - 1 /\ stop \in t .. SlotCount
        /\ (slots[s] # Inactive /\ s >= t) => stop <= s
    BY <1>7, <1>2 DEF LaterPoll
  <2>2. FirstRound(s) = AdrRange + s - xnetAdr
    BY <2>1, <1>1, <1>2 DEF FirstRound
  <2>3. CASE /\ stop < SlotCount /\ NextPoll.adr = ((xnetAdr + 1) - t) + stop
             /\ NextPoll.adr % SlotCount = stop
             /\ stop # 0 => NextPoll.slot = stop
    <3>1. stop # s
      BY <2>3, <1>1, <1>2, <1>7
    <3>2. xnetAdr' \in Nat /\ xnetAdr' > xnetAdr
      <4>1. PICK t0 \in 0 .. SlotCount - 1 : t0 = t
        BY <2>1
      <4>2. xnetAdr' = ((xnetAdr + 1) - t0) + stop /\ stop \in t0 .. SlotCount
        BY <2>1, <2>3, <4>1, <1>1
      <4> QED
        BY <4>2, <4>1, <1>1, <1>2
    <3>3. FirstRound(s)' = AdrRange + s - xnetAdr'
      BY <3>2, <2>1, <1>1, <1>2 DEF FirstRound
    <3>4. AnyRound(s)' = IF stop < s THEN s - stop ELSE SlotCount + s - stop
      BY <2>3, <1>1 DEF AnyRound
    <3>5. FirstRound(s)' < FirstRound(s)
      BY <3>2, <3>3, <2>2, <2>3, <2>1, <1>1, <1>2
    <3>6. slots[s] # Inactive => AnyRound(s)' < AnyRound(s)
      BY <3>1, <3>4, <2>1, <1>2, <1>4
    <3> QED
      BY <3>5, <3>6
  <2>4. CASE /\ stop = SlotCount /\ NextPoll.slot = 1
             /\ NextPoll.adr \in {((xnetAdr + 1) - t) + SlotCount, 0}
             /\ NextPoll.adr % SlotCount = 0
    <3>1. AnyRound(s)' = s
      BY <2>4, <1>1, <1>2 DEF AnyRound
    <3>2. slots[s] # Inactive => AnyRound(s)' < AnyRound(s)
      BY <3>1, <2>1, <2>4, <1>2, <1>4
    <3>3. CASE xnetAdr' = 0
      <4>1. FirstRound(s)' = s
        BY <3>3, <1>2 DEF FirstRound
      <4> QED
        BY <4>1, <3>2, <2>2, <1>1, <1>2
    <3>4. CASE xnetAdr' = ((xnetAdr + 1) - t) + SlotCount
      <4>1. PICK t0 \in 0 .. SlotCount - 1 : t0 = t
        BY <2>1
      <4>2. xnetAdr' \in Nat /\ xnetAdr' > xnetAdr
        <5>1. xnetAdr' = ((xnetAdr + 1) - t0) + SlotCount
          BY <3>4, <4>1
        <5> QED
          BY <5>1, <1>1, <1>2
      <4>3. FirstRound(s)' = AdrRange + s - xnetAdr'
        BY <4>2, <2>1, <1>1, <1>2 DEF FirstRound
      <4>4. FirstRound(s)' < FirstRound(s)
        BY <4>2, <4>3, <2>2, <1>1, <1>2
      <4> QED
        BY <4>4, <3>2
    <3> QED
      BY <3>3, <3>4, <2>4, <1>1
  <2> QED
    BY <2>3, <2>4, <1>7 DEF LaterPoll
<1> QED
  BY <1>3, <1>5, <1>6, <1>7

(* No device is starved of windows: each one opened is its own or brings   *)
(* its turn nearer, whatever the numbers of slots and of addresses.        *)
THEOREM NobodyStarves == Spec => PollingIsFair
<1>1. TypeInv /\ [Next]_vars
        => [place' = 0 =>
              \A s \in Slots \ {0} :
                 \/ asked' = s
                 \/ /\ FirstRound(s)' < FirstRound(s)
                    /\ slots[s] # Inactive => AnyRound(s)' < AnyRound(s)]_place
  <2> SUFFICES ASSUME TypeInv, [Next]_vars, place' # place, place' = 0, NEW s \in Slots \ {0}
               PROVE  \/ asked' = s
                      \/ /\ FirstRound(s)' < FirstRound(s)
                         /\ slots[s] # Inactive => AnyRound(s)' < AnyRound(s)
    OBVIOUS
  <2>1. OpenWindow
    <3>1. ~Timeout /\ \A i \in 1 .. PendingCount : ~FlushPlace(i) /\ ~Rested(i)
      BY DEF Timeout, FlushPlace, Rested
    <3>2. ~Answer
      BY DEF Answer, AskStatus, OtherRequest, SwitchPower, Select, RefusedDrive, Drive,
             PressFunction, Received
    <3>3. ~Others
      BY DEF Others, OthersStop, OthersResume, OthersTurnout, OthersDrive, OthersPressFunction,
             Withheld, FromRouter
    <3>4. ~UNCHANGED vars
      BY DEF vars
    <3> QED
      BY <3>1, <3>2, <3>3, <3>4 DEF Next
  <2> QED
    BY <2>1, PollAdvances DEF TypeInv
<1>2. Init => TypeInv
  BY InitType
<1>3. TypeInv /\ [Next]_vars => TypeInv'
  BY TypeStep
<1> QED
  BY <1>1, <1>2, <1>3, PTL DEF Spec, PollingIsFair

-----------------------------------------------------------------------------
(* Bytes.  A byte made of bits has these bits, and a message closed by the  *)
(* exclusive or of its bytes has an even number of ones in every place.     *)
Bits8 == [0 .. 7 -> {0, 1}]

LEMMA Weights ==
    /\ Weight[1] = 1 /\ Weight[2] = 2 /\ Weight[3] = 4 /\ Weight[4] = 8
    /\ Weight[5] = 16 /\ Weight[6] = 32 /\ Weight[7] = 64 /\ Weight[8] = 128
BY DEF Weight

LEMMA BitAt ==
    ASSUME NEW b
    PROVE  /\ Bit(b, 0) = (b \div 1) % 2 /\ Bit(b, 1) = (b \div 2) % 2
           /\ Bit(b, 2) = (b \div 4) % 2 /\ Bit(b, 3) = (b \div 8) % 2
           /\ Bit(b, 4) = (b \div 16) % 2 /\ Bit(b, 5) = (b \div 32) % 2
           /\ Bit(b, 6) = (b \div 64) % 2 /\ Bit(b, 7) = (b \div 128) % 2
BY Weights DEF Bit

LEMMA BitsBack ==
    ASSUME NEW bits \in Bits8
    PROVE  /\ FromBits(bits) \in 0 .. 255
           /\ \A i \in 0 .. 7 : Bit(FromBits(bits), i) = bits[i]
<1>1. /\ bits[0] \in {0, 1} /\ bits[1] \in {0, 1} /\ bits[2] \in {0, 1} /\ bits[3] \in {0, 1}
      /\ bits[4] \in {0, 1} /\ bits[5] \in {0, 1} /\ bits[6] \in {0, 1} /\ bits[7] \in {0, 1}
  BY DEF Bits8
<1> DEFINE b == FromBits(bits)
<1>2. b = bits[0] + 2 * bits[1] + 4 * bits[2] + 8 * bits[3]
            + 16 * bits[4] + 32 * bits[5] + 64 * bits[6] + 128 * bits[7]
  BY DEF FromBits
<1> HIDE DEF b
<1>4. /\ b \in 0 .. 255
      /\ (b \div 1) % 2 = bits[0] /\ (b \div 2) % 2 = bits[1] /\ (b \div 4) % 2 = bits[2]
      /\ (b \div 8) % 2 = bits[3] /\ (b \div 16) % 2 = bits[4] /\ (b \div 32) % 2 = bits[5]
      /\ (b \div 64) % 2 = bits[6] /\ (b \div 128) % 2 = bits[7]
  <2>1. PICK b0 \in {0, 1}, b1 \in {0, 1}, b2 \in {0, 1}, b3 \in {0, 1} :
          b0 = bits[0] /\ b1 = bits[1] /\ b2 = bits[2] /\ b3 = bits[3]
    BY <1>1
  <2>4. PICK b4 \in {0, 1}, b5 \in {0, 1}, b6 \in {0, 1}, b7 \in {0, 1} :
          b4 = bits[4] /\ b5 = bits[5] /\ b6 = bits[6] /\ b7 = bits[7]
    BY <1>1
  <2>2. b = b0 + 2 * b1 + 4 * b2 + 8 * b3 + 16 * b4 + 32 * b5 + 64 * b6 + 128 * b7
    BY <1>2, <2>1, <2>4
  <2>3. /\ b \in 0 .. 255
        /\ (b \div 1) % 2 = b0 /\ (b \div 2) % 2 = b1 /\ (b \div 4) % 2 = b2
        /\ (b \div 8) % 2 = b3 /\ (b \div 16) % 2 = b4 /\ (b \div 32) % 2 = b5
        /\ (b \div 64) % 2 = b6 /\ (b \div 128) % 2 = b7
    BY <2>2
  <2> QED
    BY <2>1, <2>3, <2>4
<1>5. ASSUME NEW i \in 0 .. 7 PROVE Bit(b, i) = bits[i]
  <2>1. i = 0 \/ i = 1 \/ i = 2 \/ i = 3 \/ i = 4 \/ i = 5 \/ i = 6 \/ i = 7
    OBVIOUS
  <2> QED
    BY <1>4, <2>1, BitAt
<1> QED
  BY <1>4, <1>5 DEF b

LEMMA BitType == ASSUME NEW b \in Nat, NEW i \in 0 .. 7 PROVE Bit(b, i) \in {0, 1}
<1>1. i = 0 \/ i = 1 \/ i = 2 \/ i = 3 \/ i = 4 \/ i = 5 \/ i = 6 \/ i = 7
  OBVIOUS
<1> QED
  BY <1>1, BitAt

LEMMA ByteOfBits ==
    ASSUME NEW F, NEW S, NEW fn \in Seq(S)
    PROVE  /\ ByteOf(F, fn) \in 0 .. 255
           /\ \A i \in 0 .. 7 : Bit(ByteOf(F, fn), i) = 1 <=> i < Len(fn) /\ fn[i + 1] \in F
<1> DEFINE bits == [i \in 0 .. 7 |-> IF i < Len(fn) /\ fn[i + 1] \in F THEN 1 ELSE 0]
<1>1. bits \in Bits8
  BY DEF Bits8
<1>2. ByteOf(F, fn) = FromBits(bits)
  BY DEF ByteOf
<1>3. \A i \in 0 .. 7 : bits[i] = IF i < Len(fn) /\ fn[i + 1] \in F THEN 1 ELSE 0
  OBVIOUS
<1> HIDE DEF bits
<1>4. ASSUME NEW i \in 0 .. 7
      PROVE  Bit(ByteOf(F, fn), i) = 1 <=> i < Len(fn) /\ fn[i + 1] \in F
  <2>1. Bit(FromBits(bits), i) = bits[i]
    BY <1>1, BitsBack, Zenon
  <2>2. (bits[i] = 1) <=> (i < Len(fn) /\ fn[i + 1] \in F)
    BY <1>3
  <2> QED
    BY <1>2, <2>1, <2>2, Zenon
<1> QED
  BY <1>1, <1>2, <1>4, BitsBack

LEMMA HavingFinite ==
    ASSUME NEW s \in Seq(Nat), NEW i
    PROVE  IsFiniteSet(Having(s, i)) /\ Cardinality(Having(s, i)) \in Nat
           /\ Having(s, i) \subseteq 1 .. Len(s)
<1>1. DOMAIN s = 1 .. Len(s) /\ Len(s) \in Nat
  OBVIOUS
<1>2. Having(s, i) \subseteq 1 .. Len(s)
  BY <1>1 DEF Having
<1>3. IsFiniteSet(1 .. Len(s))
  BY <1>1, FS_Interval
<1> QED
  BY <1>2, <1>3, FS_Subset, FS_CardinalityType

LEMMA XorBits ==
    ASSUME NEW s \in Seq(Nat)
    PROVE  /\ XorOf(s) \in 0 .. 255 /\ XorOf(s) \in Nat
           /\ \A i \in 0 .. 7 : Bit(XorOf(s), i) = Cardinality(Having(s, i)) % 2
<1> DEFINE bits == [i \in 0 .. 7 |-> Cardinality(Having(s, i)) % 2]
<1>1. \A i \in 0 .. 7 : Cardinality(Having(s, i)) % 2 \in {0, 1}
  BY HavingFinite
<1>2. bits \in Bits8 /\ XorOf(s) = FromBits(bits)
  BY <1>1 DEF Bits8, XorOf
<1>3. \A i \in 0 .. 7 : bits[i] = Cardinality(Having(s, i)) % 2
  OBVIOUS
<1> HIDE DEF bits
<1>4. FromBits(bits) \in 0 .. 255 /\ \A i \in 0 .. 7 : Bit(FromBits(bits), i) = bits[i]
  BY <1>2, BitsBack
<1>5. \A x \in 0 .. 255 : x \in Nat
  OBVIOUS
<1> QED
  BY <1>2, <1>3, <1>4, <1>5, Zenon

LEMMA ClosedIsEven == ASSUME NEW s \in Seq(Nat) PROVE XorOf(Append(s, XorOf(s))) = 0
<1> DEFINE c == XorOf(s)
           t == Append(s, c)
<1>1. c \in Nat /\ \A i \in 0 .. 7 : Bit(c, i) = Cardinality(Having(s, i)) % 2
  BY XorBits, Zenon
<1> HIDE DEF c
<1>2. t \in Seq(Nat) /\ DOMAIN t = 1 .. Len(s) + 1 /\ Len(s) \in Nat
  BY <1>1
<1>3. t[Len(s) + 1] = c /\ \A k \in 1 .. Len(s) : t[k] = s[k]
  BY <1>1
<1> HIDE DEF t
<1>4. ASSUME NEW i \in 0 .. 7 PROVE Cardinality(Having(t, i)) % 2 = 0
  <2> DEFINE H == Having(s, i)
             n == Cardinality(H)
  <2>1. IsFiniteSet(H) /\ n \in Nat /\ H \subseteq 1 .. Len(s)
    BY HavingFinite
  <2>2. CASE Bit(c, i) = 1
    <3>1. Having(t, i) = H \cup {Len(s) + 1} /\ Len(s) + 1 \notin H
      <4>1. \A k \in 1 .. Len(s) + 1 : k \in 1 .. Len(s) \/ k = Len(s) + 1
        BY <1>2
      <4>2. DOMAIN s = 1 .. Len(s) /\ \A k \in 1 .. Len(s) : k \in 1 .. Len(s) + 1
        BY <1>2
      <4>3. Len(s) + 1 \in 1 .. Len(s) + 1 /\ Len(s) + 1 \notin 1 .. Len(s)
        BY <1>2
      <4>4. Having(t, i) = H \cup {Len(s) + 1}
        BY <1>2, <1>3, <2>2, <4>1, <4>2, <4>3, Zenon DEF Having
      <4> QED
        BY <2>1, <4>3, <4>4, Zenon
    <3> HIDE DEF H
    <3>2. Cardinality(Having(t, i)) = n + 1
      BY <2>1, <3>1, FS_AddElement
    <3>3. n % 2 = 1
      BY <1>1, <2>2 DEF H
    <3> HIDE DEF n
    <3> QED
      BY <2>1, <3>2, <3>3
  <2>3. CASE Bit(c, i) # 1
    <3>1. Having(t, i) = H
      <4>1. \A k \in 1 .. Len(s) + 1 : k \in 1 .. Len(s) \/ k = Len(s) + 1
        BY <1>2
      <4>2. DOMAIN s = 1 .. Len(s) /\ \A k \in 1 .. Len(s) : k \in 1 .. Len(s) + 1
        BY <1>2
      <4> QED
        BY <1>2, <1>3, <2>3, <4>1, <4>2, Zenon DEF Having
    <3>2. n % 2 = 0
      <4>1. n % 2 # 1
        BY <1>1, <2>3
      <4> HIDE DEF n
      <4> QED
        BY <4>1, <2>1
    <3> QED
      BY <3>1, <3>2
  <2> QED
    BY <2>2, <2>3
<1>5. [i \in 0 .. 7 |-> Cardinality(Having(t, i)) % 2] = [i \in 0 .. 7 |-> 0]
  BY <1>4
<1>6. FromBits([i \in 0 .. 7 |-> 0]) = 0
  BY DEF FromBits
<1> QED
  BY <1>5, <1>6 DEF XorOf, t, c

-----------------------------------------------------------------------------
(* The conversions of the XpressNet codec. *)
LEMMA SpeedByteBits ==
    ASSUME NEW speed \in 0 .. TopSpeed, NEW dir \in {0, 1}, NEW b, b = SpeedByte(speed, dir)
    PROVE  /\ b \in Nat
           /\ b % 128 = speed /\ b % 16 = speed % 16
           /\ (b \div 16) % 2 = (speed \div 16) % 2
           /\ 1 - Bit(b, 7) = dir /\ Bit(b, 7) \in {0, 1}
<1>1. b = speed \/ b = speed + 128
  BY DEF SpeedByte, TopSpeed
<1>2. (dir = 1) => (b = speed)
  BY DEF SpeedByte, TopSpeed
<1>3. (dir = 0) => (b = speed + 128)
  BY DEF SpeedByte, TopSpeed
<1>4. /\ b \in Nat /\ b % 128 = speed /\ b % 16 = speed % 16
      /\ (b \div 16) % 2 = (speed \div 16) % 2
  BY <1>1 DEF TopSpeed
<1>5. (b \div 128) % 2 = 1 - dir
  BY <1>2, <1>3 DEF TopSpeed
<1>6. Bit(b, 7) = 1 - dir
  BY <1>5, BitAt
<1>7. 1 - Bit(b, 7) = dir /\ Bit(b, 7) \in {0, 1}
  BY <1>6
<1> QED
  BY <1>4, <1>7

\* The byte of 27 and 28 steps, the lowest bit of the step moved.
LEMMA ScrambledBack ==
    ASSUME NEW v \in Nat, NEW speed \in 0 .. 28, NEW dir \in {0, 1},
           v % 16 = speed % 16, (v \div 16) % 2 = (speed \div 16) % 2,
           1 - Bit(v, 7) = dir, Bit(v, 7) \in {0, 1}, NEW steps \in {27, 28}
    PROVE  LET b == Scrambled(steps, v)
           IN  RawStep(steps, b) = speed /\ 1 - Bit(b, 7) = dir
<1> DEFINE b == Scrambled(steps, v)
<1>1. PICK hi \in Int, lo \in Int, r \in {0, 1} :
         /\ hi = (speed \div 16) % 2 /\ lo = speed % 16 /\ r = Bit(v, 7)
         /\ b = 2 * lo + hi + 128 * r
  <2>1. Bit(v, 4) = (v \div 16) % 2
    BY BitAt
  <2>2. b = 2 * (v % 16) + Bit(v, 4) + 128 * Bit(v, 7)
    BY DEF Scrambled
  <2> QED
    BY <2>1, <2>2
<1>2. hi \in {0, 1} /\ 0 <= lo /\ lo <= 15 /\ speed = 16 * hi + lo
  BY <1>1
<1> HIDE DEF b
<1>3. (b \div 2) % 16 = lo /\ (b \div 1) % 2 = hi /\ (b \div 128) % 2 = r
  <2>1. CASE r = 0
    <3>1. b = 2 * lo + hi
      BY <1>1, <1>2, <2>1
    <3>2. b \div 2 = lo /\ (b \div 128) % 2 = 0 /\ (b \div 1) % 2 = hi
      BY <1>2, <3>1
    <3> QED
      BY <1>2, <2>1, <3>2
  <2>2. CASE r = 1
    <3>1. b = 2 * lo + hi + 128
      BY <1>1, <1>2, <2>2
    <3>2. b \div 2 = lo + 64 /\ (b \div 128) % 2 = 1 /\ (b \div 1) % 2 = hi
      BY <1>2, <3>1
    <3>3. (lo + 64) % 16 = lo
      BY <1>2
    <3> QED
      BY <2>2, <3>2, <3>3
  <2> QED
    BY <2>1, <2>2
<1>4. Bit(b, 0) = hi /\ Bit(b, 7) = r
  BY <1>3, BitAt
<1>5. RawStep(steps, b) = lo + 16 * hi
  <2>1. steps # 14
    OBVIOUS
  <2>2. RawStep(steps, b) = ((b \div 2) % 16) + 16 * Bit(b, 0)
    BY <2>1, Zenon DEF RawStep
  <2> QED
    BY <1>3, <1>4, <2>2
<1>6. RawStep(steps, b) = speed
  BY <1>2, <1>5
<1>7. 1 - Bit(b, 7) = dir
  BY <1>1, <1>4
<1> QED
  BY <1>6, <1>7 DEF b

LEMMA DriveLemma == DriveSurvives
<1> SUFFICES ASSUME NEW speed \in 0 .. TopSpeed, NEW dir \in {0, 1}
             PROVE  /\ Drive128(SpeedByte(speed, dir)) = {[speed |-> speed, dir |-> dir]}
                    /\ \A steps \in {14, 27, 28} : speed <= steps =>
                         DriveStepped(steps, Scrambled(steps, SpeedByte(speed, dir)))
                           = {[speed |-> (speed * TopSpeed) \div steps, dir |-> dir]}
  BY Zenon DEF DriveSurvives
<1>4. PICK v : v = SpeedByte(speed, dir)
  OBVIOUS
<1>1. /\ v \in Nat /\ v = SpeedByte(speed, dir)
      /\ v % 128 = speed /\ v % 16 = speed % 16 /\ (v \div 16) % 2 = (speed \div 16) % 2
      /\ 1 - Bit(v, 7) = dir /\ Bit(v, 7) \in {0, 1}
  BY <1>4, SpeedByteBits
<1>2. Drive128(v) = {[speed |-> speed, dir |-> dir]}
  <2>1. ~(speed > TopSpeed)
    BY DEF TopSpeed
  <2> QED
    BY <1>1, <2>1, Zenon DEF Drive128
<1>3. ASSUME NEW steps \in {14, 27, 28}, speed <= steps
      PROVE  DriveStepped(steps, Scrambled(steps, v))
               = {[speed |-> (speed * TopSpeed) \div steps, dir |-> dir]}
  <2>1. PICK b : b = Scrambled(steps, v)
    OBVIOUS
  <2>2. RawStep(steps, b) = speed /\ 1 - Bit(b, 7) = dir
    <3>1. CASE steps = 14
      BY <1>1, <2>1, <3>1 DEF Scrambled, RawStep
    <3>2. CASE steps \in {27, 28}
      <4>1. speed \in 0 .. 28
        BY <1>3, <3>2 DEF TopSpeed
      <4> QED
        BY <1>1, <2>1, <3>2, <4>1, ScrambledBack
    <3> QED
      BY <3>1, <3>2
  <2>3. ~(speed > steps)
    BY <1>3 DEF TopSpeed
  <2> QED
    BY <2>1, <2>2, <2>3, Zenon DEF DriveStepped
<1> QED
  BY <1>1, <1>2, <1>3, Zenon

-----------------------------------------------------------------------------
LEMMA GroupTypes ==
    ASSUME NEW g \in 1 .. 5
    PROVE  GroupBits(g) \in Seq(Nat) /\ Len(GroupBits(g)) <= 8
<1>1. \A k \in {12, 20} : [i \in 1 .. 8 |-> k + i] \in Seq(Nat)
                          /\ Len([i \in 1 .. 8 |-> k + i]) = 8
  <2> SUFFICES ASSUME NEW k \in {12, 20}
               PROVE  [i \in 1 .. 8 |-> k + i] \in Seq(Nat)
                      /\ Len([i \in 1 .. 8 |-> k + i]) = 8
    OBVIOUS
  <2>1. [i \in 1 .. 8 |-> k + i] \in [1 .. 8 -> Nat] /\ 8 \in Nat
    OBVIOUS
  <2> QED
    BY <2>1
<1>2. CASE g = 1
  BY <1>2 DEF GroupBits
<1>3. CASE g = 2
  BY <1>3 DEF GroupBits
<1>4. CASE g = 3
  BY <1>4 DEF GroupBits
<1>5. CASE g = 4
  <2>1. GroupBits(g) = [i \in 1 .. 8 |-> 12 + i]
    BY <1>5 DEF GroupBits
  <2> QED
    BY <1>1, <2>1
<1>6. CASE g = 5
  <2>1. GroupBits(g) = [i \in 1 .. 8 |-> 20 + i]
    BY <1>6 DEF GroupBits
  <2> QED
    BY <1>1, <2>1
<1> QED
  BY <1>2, <1>3, <1>4, <1>5, <1>6

LEMMA MergeBack ==
    ASSUME NEW F, NEW G, NEW g \in 1 .. 5
    PROVE  LET fn == {GroupBits(g)[i] : i \in DOMAIN GroupBits(g)}
           IN  MergeGroup(G, g, BuildGroup(F, g)) = (G \ fn) \cup (F \cap fn)
<1>1. PICK s \in Seq(Nat) : s = GroupBits(g) /\ Len(s) <= 8
  BY GroupTypes
<1>2. PICK b : b = BuildGroup(F, g) /\ b = ByteOf(F, s)
  BY <1>1 DEF BuildGroup
<1>3. ASSUME NEW j \in DOMAIN s PROVE (Bit(b, j - 1) = 1) <=> (s[j] \in F)
  <2>1. PICK n \in Nat : n = Len(s) /\ n <= 8 /\ j \in 1 .. n
    <3>1. j \in 1 .. Len(s) /\ Len(s) \in Nat
      OBVIOUS
    <3> QED
      BY <1>1, <3>1
  <2>2. j - 1 \in 0 .. 7 /\ j - 1 < Len(s) /\ (j - 1) + 1 = j
    <3>1. ASSUME NEW k \in 1 .. n PROVE k - 1 \in 0 .. 7 /\ k - 1 < n /\ (k - 1) + 1 = k
      BY <2>1
    <3> QED
      BY <2>1, <3>1, Zenon
  <2>3. PICK i \in 0 .. 7 : i = j - 1
    BY <2>2
  <2>4. (Bit(ByteOf(F, s), i) = 1) <=> (i < Len(s) /\ s[i + 1] \in F)
    BY ByteOfBits
  <2> QED
    BY <1>2, <2>2, <2>3, <2>4
<1> DEFINE all == {s[i] : i \in DOMAIN s}
           on == {s[i] : i \in {j \in DOMAIN s : Bit(b, j - 1) = 1}}
<1>4. MergeGroup(G, g, b) = (G \ all) \cup on
  BY <1>1, Zenon DEF MergeGroup
<1>5. on = F \cap all
  BY <1>3, Zenon
<1>6. all = {GroupBits(g)[i] : i \in DOMAIN GroupBits(g)}
  BY <1>1
<1> HIDE DEF all, on
<1>7. MergeGroup(G, g, BuildGroup(F, g)) = (G \ all) \cup (F \cap all)
  BY <1>2, <1>4, <1>5
<1> QED
  BY <1>6, <1>7

LEMMA FunctionsLemma == FunctionsSurvive
<1>1. {GroupOf(i) : i \in {32, 33, 34, 35, 243, 40}} = 1 .. 5
  BY DEF GroupOf
<1>2. ASSUME NEW F \in FnSets, NEW G \in FnSets, NEW g \in 1 .. 5
      PROVE  LET fn == {GroupBits(g)[i] : i \in DOMAIN GroupBits(g)}
             IN  MergeGroup(G, g, BuildGroup(F, g)) = (G \ fn) \cup (F \cap fn)
  BY MergeBack
<1> QED
  BY <1>1, <1>2, Zenon DEF FunctionsSurvive

-----------------------------------------------------------------------------
LEMMA ClosedKeeps ==
    ASSUME NEW s \in Seq(Nat)
    PROVE  XorHolds(Closed(s)) /\ \A i \in 1 .. Len(s) : Closed(s)[i] = s[i]
<1>1. XorOf(s) \in Nat
  BY XorBits, Zenon
<1>2. PICK c \in Nat : c = XorOf(s)
  BY <1>1
<1>3. \A i \in 1 .. Len(s) : Append(s, c)[i] = s[i]
  OBVIOUS
<1>4. XorOf(Append(s, c)) = 0
  BY <1>2, ClosedIsEven, Zenon
<1> QED
  BY <1>2, <1>3, <1>4, Zenon DEF Closed, XorHolds

\* The addresses that fit beside the two bits of the mark.
FourteenBits == 0 .. 16383

LEMMA AddressBack ==
    ASSUME NEW a \in FourteenBits
    PROVE  /\ ReadAddress(Address(a)[1], Address(a)[2]) = a
           /\ ReadAddress(AddressUnmarked(a)[1], AddressUnmarked(a)[2]) = a
           /\ Address(a) \in Seq(Nat) /\ a % 256 \in Nat
<1>1. PICK m \in Int, l \in Int : m = a \div 256 /\ l = a % 256
  BY DEF FourteenBits
<1>2. 0 <= m /\ m <= 63 /\ 0 <= l /\ 256 * m + l = a
  BY <1>1 DEF FourteenBits
<1>3. m % 64 = m /\ (m + 192) % 64 = m /\ (m + 0) % 64 = m
  BY <1>2
<1>4. PICK h \in Nat : h = m + (IF a > 99 THEN 192 ELSE 0) /\ h % 64 = m
  <2>1. m + 192 \in Nat /\ m + 0 \in Nat
    BY <1>2
  <2> QED
    BY <1>3, <2>1
<1>5. Address(a) = <<h, l>> /\ AddressUnmarked(a) = <<m, l>>
  BY <1>1, <1>4 DEF Address, AddressUnmarked
<1>6. ReadAddress(h, l) = a /\ ReadAddress(m, l) = a
  BY <1>2, <1>3, <1>4 DEF ReadAddress
<1>7. l \in Nat
  BY <1>2
<1>8. <<h, l>> \in Seq(Nat)
  BY <1>7
<1> QED
  BY <1>1, <1>5, <1>6, <1>7, <1>8

LEMMA AddressesLemma == AddressesSurvive
<1> SUFFICES ASSUME NEW a \in WireAddr
             PROVE  /\ ReadAddress(Address(a)[1], Address(a)[2]) = a
                    /\ ReadAddress(AddressUnmarked(a)[1], AddressUnmarked(a)[2]) = a
                    /\ XorHolds(DriveMessage(a, 19, a % 256))
  BY DEF AddressesSurvive
<1>1. a \in FourteenBits
  BY XNetCodecAssumption DEF FourteenBits
<1>2. PICK adr \in Seq(Nat), b \in Nat : adr = Address(a) /\ b = a % 256
  BY <1>1, AddressBack
<1>3. PICK s : s = <<228, 19>> \o adr \o <<b>>
  OBVIOUS
<1>4. s \in Seq(Nat)
  <2>1. <<228, 19>> \in Seq(Nat) /\ <<b>> \in Seq(Nat)
    OBVIOUS
  <2>2. <<228, 19>> \o adr \in Seq(Nat)
    BY <2>1
  <2> QED
    BY <1>3, <2>1, <2>2
<1>5. XorHolds(Closed(s))
  BY <1>4, ClosedKeeps
<1>6. DriveMessage(a, 19, a % 256) = Closed(s)
  BY <1>2, <1>3, Zenon DEF DriveMessage
<1> QED
  BY <1>1, <1>5, <1>6, AddressBack

-----------------------------------------------------------------------------
\* Setting the parity bit leaves the seven bits below it as they are.
LEMMA ParityBit ==
    ASSUME NEW me \in 0 .. 127, NEW p \in {0, 1}
    PROVE  LET call == me + 128 * p
           IN  /\ Bit(call, 7) = p
               /\ \A i \in 0 .. 6 : Bit(call, i) = Bit(me, i)
<1> DEFINE call == me + 128 * p
<1>1. call = me \/ call = me + 128
  OBVIOUS
<1>2. (call \div 128) % 2 = p
  OBVIOUS
<1> HIDE DEF call
<1>3. /\ (call \div 1) % 2 = (me \div 1) % 2 /\ (call \div 2) % 2 = (me \div 2) % 2
      /\ (call \div 4) % 2 = (me \div 4) % 2 /\ (call \div 8) % 2 = (me \div 8) % 2
      /\ (call \div 16) % 2 = (me \div 16) % 2 /\ (call \div 32) % 2 = (me \div 32) % 2
      /\ (call \div 64) % 2 = (me \div 64) % 2
  <2>1. CASE call = me
    BY <2>1
  <2>2. CASE call = me + 128
    <3>1. /\ (call \div 1) % 2 = (me \div 1) % 2 /\ (call \div 2) % 2 = (me \div 2) % 2
          /\ (call \div 4) % 2 = (me \div 4) % 2
      BY <2>2
    <3>2. (call \div 8) % 2 = (me \div 8) % 2 /\ (call \div 16) % 2 = (me \div 16) % 2
      BY <2>2
    <3>3. (call \div 32) % 2 = (me \div 32) % 2 /\ (call \div 64) % 2 = (me \div 64) % 2
      BY <2>2
    <3> QED
      BY <3>1, <3>2, <3>3
  <2> QED
    BY <1>1, <2>1, <2>2
<1>4. Bit(call, 7) = p
  BY <1>2, BitAt
<1>5. ASSUME NEW i \in 0 .. 6 PROVE Bit(call, i) = Bit(me, i)
  <2>1. i = 0 \/ i = 1 \/ i = 2 \/ i = 3 \/ i = 4 \/ i = 5 \/ i = 6
    OBVIOUS
  <2>2. /\ Bit(call, 0) = Bit(me, 0) /\ Bit(call, 1) = Bit(me, 1)
        /\ Bit(call, 2) = Bit(me, 2) /\ Bit(call, 3) = Bit(me, 3)
        /\ Bit(call, 4) = Bit(me, 4) /\ Bit(call, 5) = Bit(me, 5)
        /\ Bit(call, 6) = Bit(me, 6)
    BY <1>3, BitAt
  <2> QED
    BY <2>1, <2>2
<1> QED
  BY <1>4, <1>5 DEF call

LEMMA CallsLemma == CallsSurvive
<1> SUFFICES ASSUME NEW s \in 0 .. 31, NEW kind \in {0, 64, 96}
             PROVE  LET call == CallByte(kind + s)
                    IN  SlotOf(call) = s /\ (Ones(call) + Bit(call, 7)) % 2 = 0
  BY Zenon DEF CallsSurvive
<1>1. PICK me \in 0 .. 127 : me = kind + s /\ me % 32 = s /\ me % 128 = me
  <2>1. kind + s \in 0 .. 127 /\ (kind + s) % 32 = s /\ (kind + s) % 128 = kind + s
    OBVIOUS
  <2> QED
    BY <2>1
<1>2. Ones(me) \in Nat
  <2>1. IsFiniteSet(0 .. 6)
    <3>1. PICK n \in Int : n = 6
      OBVIOUS
    <3>2. IsFiniteSet(0 .. n)
      BY FS_Interval
    <3> QED
      BY <3>1, <3>2
  <2>2. IsFiniteSet({i \in 0 .. 6 : Bit(me, i) = 1})
    BY <2>1, FS_Subset
  <2> QED
    BY <2>2, FS_CardinalityType DEF Ones
<1>3. PICK p \in {0, 1} : p = Ones(me) % 2
  BY <1>2
<1>4. PICK call : call = me + 128 * p /\ call = CallByte(me)
  BY <1>1, <1>3 DEF CallByte
<1>5. Bit(call, 7) = p /\ \A i \in 0 .. 6 : Bit(call, i) = Bit(me, i)
  BY <1>4, ParityBit
<1>6. Ones(call) = Ones(me)
  BY <1>5, Zenon DEF Ones
<1>7. (Ones(me) + p) % 2 = 0
  <2>1. PICK n \in Nat : n = Ones(me)
    BY <1>2
  <2> QED
    BY <1>3, <2>1
<1>8. SlotOf(call) = s
  BY <1>1, <1>4 DEF SlotOf
<1> QED
  BY <1>1, <1>4, <1>5, <1>6, <1>7, <1>8

-----------------------------------------------------------------------------
Numbered == 1 .. 1024           \* the turnouts the bus has numbers for

LEMMA TurnoutBack ==
    ASSUME NEW t \in Numbered, NEW d \in {0, 1}
    PROVE  LET m == TurnoutMessage(t, d)
           IN  TurnoutCommand(m[2], m[3]) = {[turnout |-> t, diverging |-> d]} /\ XorHolds(m)
<1>1. PICK d1 \in Nat, q \in Nat :
         /\ d1 = ((t - 1) \div 4) % 256 /\ q = (t - 1) % 4
         /\ q <= 3 /\ 4 * d1 + q + 1 = t
  <2>1. PICK w \in Int : w = t - 1 /\ 0 <= w /\ w <= 1023
    BY DEF Numbered
  <2>2. PICK c \in Int : c = w \div 4 /\ 0 <= c /\ c <= 255 /\ 4 * c + (w % 4) = w
    BY <2>1
  <2>3. c % 256 = c
    BY <2>2
  <2>4. w % 4 \in Nat /\ w % 4 <= 3
    BY <2>1
  <2> QED
    BY <2>1, <2>2, <2>3, <2>4 DEF Numbered
<1>2. PICK d2 \in Nat : d2 = 128 + 2 * q + 8 + d
  <2>1. 128 + 2 * q + 8 + d \in Nat
    OBVIOUS
  <2> QED
    BY <2>1
<1>3. (d2 \div 8) % 2 = 1 /\ (d2 \div 2) % 4 = q /\ d2 % 2 = d
  <2>1. q = 0 \/ q = 1 \/ q = 2 \/ q = 3
    <3>1. q <= 3
      BY <1>1
    <3> QED
      BY <3>1
  <2>2. ASSUME NEW k \in {0, 1, 2, 3}, q = k
        PROVE  (d2 \div 8) % 2 = 1 /\ (d2 \div 2) % 4 = k /\ d2 % 2 = d
    <3>1. CASE d = 0
      BY <1>2, <2>2, <3>1
    <3>2. CASE d = 1
      BY <1>2, <2>2, <3>2
    <3> QED
      BY <3>1, <3>2
  <2> QED
    BY <2>1, <2>2
<1>4. Bit(d2, 3) # 0
  <2>1. Bit(d2, 3) = 1
    BY <1>3, BitAt
  <2> QED
    BY <2>1
<1>5. d1 * 4 + q + 1 = t
  BY <1>1
<1>6. TurnoutCommand(d1, d2) = {[turnout |-> t, diverging |-> d]}
  BY <1>3, <1>4, <1>5, Zenon DEF TurnoutCommand
<1>7. PICK s \in Seq(Nat) : s = <<82, d1, d2>> /\ Len(s) = 3 /\ s[2] = d1 /\ s[3] = d2
  <2>1. <<82, d1, d2>> \in Seq(Nat)
    OBVIOUS
  <2> QED
    BY <2>1
<1>8. PICK m : m = Closed(s) /\ m = TurnoutMessage(t, d)
  <2>1. TurnoutMessage(t, d) = Closed(<<82, d1, d2>>)
    BY <1>1, <1>2, Zenon DEF TurnoutMessage
  <2> QED
    BY <1>7, <2>1
<1>9. XorHolds(m) /\ \A i \in 1 .. Len(s) : m[i] = s[i]
  BY <1>8, ClosedKeeps
<1>10. m[2] = d1 /\ m[3] = d2
  BY <1>7, <1>9
<1> QED
  BY <1>6, <1>8, <1>9, <1>10

LEMMA StatusBack ==
    ASSUME NEW t \in Numbered, NEW d \in {0, 1}
    PROVE  \E n \in {0, 1} :
             LET group == (t - 1) \div 4
                 nibble == TurnoutStatus(group, n, [x \in {t} |-> d]) % 16
             IN  \/ t = TurnoutPair(group, n)[1] /\ nibble = 1 + d
                 \/ t = TurnoutPair(group, n)[2] /\ nibble = 4 * (1 + d)
<1>1. PICK group \in Int, n \in {0, 1}, r \in {0, 1} :
         group = (t - 1) \div 4 /\ t = 4 * group + 2 * n + r + 1
  <2>1. PICK group \in Int, q \in Int : group = (t - 1) \div 4 /\ q = (t - 1) % 4
    BY DEF Numbered
  <2>2. 0 <= q /\ q <= 3 /\ t = 4 * group + q + 1
    BY <2>1 DEF Numbered
  <2>3. \E n \in {0, 1}, r \in {0, 1} : q = 2 * n + r
    BY <2>2
  <2>4. PICK n \in {0, 1}, r \in {0, 1} : q = 2 * n + r
    BY <2>3
  <2>5. t = 4 * group + 2 * n + r + 1
    BY <2>2, <2>4
  <2> QED
    BY <2>1, <2>5
<1> DEFINE pos == [x \in {t} |-> d]
           z(x) == IF x \notin DOMAIN pos THEN 0 ELSE IF pos[x] = 1 THEN 2 ELSE 1
           one == 4 * group + 2 * n + 1
           two == 4 * group + 2 * n + 2
<1>2. TurnoutPair(group, n) = <<one, two>> /\ one # two
  BY DEF TurnoutPair
<1>3. z(t) = 1 + d /\ \A x : (x # t) => (z(x) = 0)
  OBVIOUS
<1>4. TurnoutStatus(group, n, pos) = 16 * n + 4 * z(two) + z(one)
  <2>1. TurnoutPair(group, n)[1] = one /\ TurnoutPair(group, n)[2] = two
    BY <1>2
  <2> QED
    BY <2>1, Zenon DEF TurnoutStatus
<1>5. TurnoutPair(group, n)[1] = one /\ TurnoutPair(group, n)[2] = two
  BY <1>2
<1> HIDE DEF z
<1>6. CASE r = 0
  <2>1. t = one /\ z(one) = 1 + d /\ z(two) = 0
    BY <1>1, <1>2, <1>3, <1>6
  <2>2. (16 * n + 4 * z(two) + z(one)) % 16 = 1 + d
    BY <2>1
  <2> QED
    BY <1>1, <1>4, <1>5, <2>1, <2>2, Zenon
<1>7. CASE r = 1
  <2>1. t = two /\ z(two) = 1 + d /\ z(one) = 0
    BY <1>1, <1>2, <1>3, <1>7
  <2>2. (16 * n + 4 * z(two) + z(one)) % 16 = 4 * (1 + d)
    BY <2>1
  <2> QED
    BY <1>1, <1>4, <1>5, <2>1, <2>2, Zenon
<1> QED
  BY <1>6, <1>7

LEMMA TurnoutsLemma == TurnoutsSurvive
<1> SUFFICES ASSUME NEW t \in Numbered, NEW d \in {0, 1}
             PROVE  /\ LET m == TurnoutMessage(t, d)
                       IN  /\ TurnoutCommand(m[2], m[3]) = {[turnout |-> t, diverging |-> d]}
                           /\ XorHolds(m)
                    /\ \E n \in {0, 1} :
                         LET group == (t - 1) \div 4
                             nibble == TurnoutStatus(group, n, [x \in {t} |-> d]) % 16
                         IN  \/ t = TurnoutPair(group, n)[1] /\ nibble = 1 + d
                             \/ t = TurnoutPair(group, n)[2] /\ nibble = 4 * (1 + d)
  BY DEF TurnoutsSurvive, Numbered
<1> QED
  BY TurnoutBack, StatusBack, Zenon

\* Nothing of a message is lost on the bus: what the bridge writes, a bridge
\* reads back, for every speed, function, address, call and turnout.
THEOREM MessagesLoseNothing == NothingLost
BY DriveLemma, FunctionsLemma, AddressesLemma, CallsLemma, TurnoutsLemma DEF NothingLost

\* Whatever the bus does, its messages and what is made of them agree.
THEOREM MessagesCorrect == Spec => []BytesKeepState
<1>1. BytesKeepState
  BY MessagesLoseNothing DEF BytesKeepState
<1>. QED BY <1>1, PTL
=============================================================================
