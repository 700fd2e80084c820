---------------------------- MODULE LayoutProofs ----------------------------
(***************************************************************************)
(* Turnouts and run state end up as ECoS has them, for any number of       *)
(* turnouts, objects and places in the two tables.                         *)
(***************************************************************************)
EXTENDS Layout, FiniteSetTheorems, WellFoundedInduction, TLAPS

-----------------------------------------------------------------------------
(* Looking something up in a table. *)
LEMMA LeastIn ==
    ASSUME NEW n \in Nat, NEW I \in SUBSET (1 .. n), I # {}
    PROVE  Min(I) \in I /\ \A y \in I : Min(I) =< y
<1> DEFINE T == {0 .. y : y \in I}
<1>1. T \subseteq FiniteSubsetsOf(Nat) /\ T # {}
  <2>1. \A y \in I : 0 .. y \in SUBSET Nat /\ IsFiniteSet(0 .. y)
    BY FS_Interval
  <2> QED
    BY <2>1 DEF FiniteSubsetsOf
<1>2. PICK t \in T : \A u \in T : ~(<<u, t>> \in StrictSubsetOrdering(Nat))
  BY <1>1, FS_StrictSubsetOrderingWellFounded, WFMin
<1>3. PICK x \in I : t = 0 .. x
  OBVIOUS
<1>4. ASSUME NEW y \in I
      PROVE  x =< y
  <2>1. ~(0 .. y \subseteq 0 .. x /\ 0 .. y # 0 .. x)
    <3>1. ~(<<0 .. y, 0 .. x>> \in StrictSubsetOrdering(Nat))
      BY <1>2, <1>3
    <3> DEFINE Y == 0 .. y
               X == 0 .. x
    <3>2. Y \in SUBSET Nat /\ X \in SUBSET Nat
      OBVIOUS
    <3> HIDE DEF Y, X
    <3>3. <<Y, X>> \notin StrictSubsetOrdering(Nat) => ~(Y \subseteq X /\ Y # X)
      BY <3>2 DEF StrictSubsetOrdering
    <3> QED
      BY <3>1, <3>3 DEF X, Y
  <2>2. x \in Nat /\ y \in Nat
    OBVIOUS
  <2>3. ~(y < x)
    <3>1. SUFFICES ASSUME y < x
                   PROVE  FALSE
      OBVIOUS
    <3>2. 0 .. y \subseteq 0 .. x /\ x \in 0 .. x /\ x \notin 0 .. y
      BY <2>2, <3>1
    <3> QED
      BY <2>1, <3>2
  <2> QED
    BY <2>2, <2>3
<1> QED
  BY <1>4 DEF Min

LEMMA FindIn ==
    ASSUME NEW T, NEW s \in Seq(T), NEW a
    PROVE  /\ Find(a, s) = 0 <=> \A j \in 1 .. Len(s) : s[j].addr # a
           /\ Find(a, s) # 0 => Find(a, s) \in 1 .. Len(s) /\ s[Find(a, s)].addr = a
<1> DEFINE I == {j \in 1 .. Len(s) : s[j].addr = a}
<1>1. I \in SUBSET (1 .. Len(s)) /\ Len(s) \in Nat
  OBVIOUS
<1>2. Find(a, s) = IF I # {} THEN Min(I) ELSE 0
  BY DEF Find, SelectInSeq
<1>3. I # {} => Min(I) \in I
  <2> HIDE DEF I
  <2> QED
    BY <1>1, LeastIn
<1>4. CASE I = {}
  BY <1>1, <1>2, <1>4
<1>5. CASE I # {}
  BY <1>1, <1>2, <1>3, <1>5
<1> QED
  BY <1>4, <1>5

LEMMA EntryIn ==
    ASSUME NEW T, NEW s \in Seq(T), NEW i
    PROVE  /\ EntryOf(s, i) = 0 <=> \A j \in 1 .. Len(s) : s[j].id # i
           /\ EntryOf(s, i) # 0 => EntryOf(s, i) \in 1 .. Len(s) /\ s[EntryOf(s, i)].id = i
<1> DEFINE I == {j \in 1 .. Len(s) : s[j].id = i}
<1>1. I \in SUBSET (1 .. Len(s)) /\ Len(s) \in Nat
  OBVIOUS
<1>2. EntryOf(s, i) = IF I # {} THEN Min(I) ELSE 0
  BY DEF EntryOf, SelectInSeq
<1>3. I # {} => Min(I) \in I
  <2> HIDE DEF I
  <2> QED
    BY <1>1, LeastIn
<1>4. CASE I = {}
  BY <1>1, <1>2, <1>4
<1>5. CASE I # {}
  BY <1>1, <1>2, <1>3, <1>5
<1> QED
  BY <1>4, <1>5

LEMMA NextStepIn ==
    ASSUME NEW T, NEW s \in Seq(T)
    PROVE  /\ NextStep(s) = 0 <=> \A j \in 1 .. Len(s) : s[j].subscribed
           /\ NextStep(s) # 0 => NextStep(s) \in 1 .. Len(s) /\ ~s[NextStep(s)].subscribed
<1> DEFINE I == {j \in 1 .. Len(s) : ~s[j].subscribed}
<1>1. I \in SUBSET (1 .. Len(s)) /\ Len(s) \in Nat
  OBVIOUS
<1>2. NextStep(s) = IF I # {} THEN Min(I) ELSE 0
  BY DEF NextStep, SelectInSeq
<1>3. I # {} => Min(I) \in I
  <2> HIDE DEF I
  <2> QED
    BY <1>1, LeastIn
<1>4. CASE I = {}
  BY <1>1, <1>2, <1>4
<1>5. CASE I # {}
  BY <1>1, <1>2, <1>3, <1>5
<1> QED
  BY <1>4, <1>5

-----------------------------------------------------------------------------
(* What waits in a queue.                                                  *)
\* Some element of S is in the queue; the last one is m.
Has(q, S) == \E k \in 1 .. Len(q) : q[k] \in S
LastIs(q, S, m) ==
    \A k \in 1 .. Len(q) : (q[k] \in S /\ q[k] # m)
                               => \E j \in 1 .. Len(q) : j > k /\ q[j] \in S
\* The second waits behind the first, or alone when the first is done.
InOrder(q, first, second, done) ==
    \E k \in 1 .. Len(q) : /\ q[k] = second
                           /\ done \/ \E j \in 1 .. Len(q) : j < k /\ q[j] = first

LEMMA Appended ==
    ASSUME NEW T, NEW q \in Seq(T), NEW e \in Seq(T)
    PROVE  /\ q \o e \in Seq(T) /\ Len(q \o e) = Len(q) + Len(e)
           /\ Len(q) \in Nat /\ Len(e) \in Nat
           /\ \A k \in 1 .. Len(q) : k \in 1 .. Len(q \o e) /\ (q \o e)[k] = q[k]
           /\ \A k \in 1 .. Len(e) : /\ k + Len(q) \in 1 .. Len(q \o e)
                                     /\ (q \o e)[k + Len(q)] = e[k]
           /\ \A k \in 1 .. Len(q \o e) :
                 \/ k \in 1 .. Len(q)
                 \/ k - Len(q) \in 1 .. Len(e) /\ (q \o e)[k] = e[k - Len(q)]
<1>1. /\ q \o e \in Seq(T) /\ Len(q \o e) = Len(q) + Len(e)
      /\ Len(q) \in Nat /\ Len(e) \in Nat
  OBVIOUS
<1>2. \A k \in 1 .. Len(q) : k \in 1 .. Len(q \o e) /\ (q \o e)[k] = q[k]
  OBVIOUS
<1>3. \A k \in 1 .. Len(e) : /\ k + Len(q) \in 1 .. Len(q \o e)
                             /\ (q \o e)[k + Len(q)] = e[k]
  OBVIOUS
<1>4. \A k \in 1 .. Len(q \o e) :
          \/ k \in 1 .. Len(q)
          \/ k - Len(q) \in 1 .. Len(e) /\ (q \o e)[k] = e[k - Len(q)]
  OBVIOUS
<1> QED
  BY <1>1, <1>2, <1>3, <1>4

LEMMA HasAppended ==
    ASSUME NEW T, NEW q \in Seq(T), NEW e \in Seq(T), NEW S
    PROVE  /\ Has(q, S) => Has(q \o e, S)
           /\ Has(e, S) => Has(q \o e, S)
<1> DEFINE r == q \o e
<1>1. /\ \A k \in 1 .. Len(q) : k \in 1 .. Len(r) /\ r[k] = q[k]
      /\ \A k \in 1 .. Len(e) : k + Len(q) \in 1 .. Len(r) /\ r[k + Len(q)] = e[k]
  BY Appended
<1> HIDE DEF r
<1>2. Has(q, S) => Has(r, S)
  BY <1>1 DEF Has
<1>3. Has(e, S) => Has(r, S)
  BY <1>1 DEF Has
<1> QED
  BY <1>2, <1>3 DEF r

LEMMA LastAppended ==
    ASSUME NEW T, NEW q \in Seq(T), NEW e \in Seq(T), NEW S, NEW m,
           LastIs(e, S, m), Has(e, S) \/ LastIs(q, S, m)
    PROVE  LastIs(q \o e, S, m)
<1> DEFINE r == q \o e
<1>1. /\ Len(q) \in Nat /\ Len(e) \in Nat
      /\ \A k \in 1 .. Len(q) : k \in 1 .. Len(r) /\ r[k] = q[k]
      /\ \A k \in 1 .. Len(e) : k + Len(q) \in 1 .. Len(r) /\ r[k + Len(q)] = e[k]
      /\ \A k \in 1 .. Len(r) : \/ k \in 1 .. Len(q)
                                \/ k - Len(q) \in 1 .. Len(e) /\ r[k] = e[k - Len(q)]
  BY Appended
<1> HIDE DEF r
<1>2. SUFFICES ASSUME NEW k \in 1 .. Len(r), r[k] \in S, r[k] # m
               PROVE  \E j \in 1 .. Len(r) : j > k /\ r[j] \in S
  BY DEF LastIs, r
<1>3. CASE k \in 1 .. Len(q)
  <2>1. CASE Has(e, S)
    <3>1. PICK j \in 1 .. Len(e) : e[j] \in S
      BY <2>1 DEF Has
    <3>2. j + Len(q) > k
      BY <1>1, <1>3, <3>1
    <3> QED
      BY <1>1, <3>1, <3>2
  <2>2. CASE LastIs(q, S, m)
    <3>1. PICK j \in 1 .. Len(q) : j > k /\ q[j] \in S
      BY <1>1, <1>2, <1>3, <2>2 DEF LastIs
    <3> QED
      BY <1>1, <3>1
  <2> QED
    BY <2>1, <2>2
<1>4. CASE k - Len(q) \in 1 .. Len(e) /\ r[k] = e[k - Len(q)]
  <2>1. PICK j \in 1 .. Len(e) : j > k - Len(q) /\ e[j] \in S
    BY <1>2, <1>4 DEF LastIs
  <2>2. j + Len(q) > k
    BY <1>1, <1>4, <2>1
  <2> QED
    BY <1>1, <2>1, <2>2
<1> QED
  BY <1>1, <1>3, <1>4

LEMMA InOrderAppended ==
    ASSUME NEW T, NEW q \in Seq(T), NEW e \in Seq(T), NEW first, NEW second, NEW done
    PROVE  /\ InOrder(q, first, second, done) => InOrder(q \o e, first, second, done)
           /\ InOrder(e, first, second, done) => InOrder(q \o e, first, second, done)
<1> DEFINE r == q \o e
<1>1. /\ Len(q) \in Nat
      /\ \A k \in 1 .. Len(q) : k \in 1 .. Len(r) /\ r[k] = q[k]
      /\ \A k \in 1 .. Len(e) : k + Len(q) \in 1 .. Len(r) /\ r[k + Len(q)] = e[k]
  BY SMTT(30), Appended
<1> HIDE DEF r
<1>2. ASSUME InOrder(q, first, second, done)
      PROVE  InOrder(r, first, second, done)
  BY <1>1, <1>2 DEF InOrder
<1>3. ASSUME InOrder(e, first, second, done)
      PROVE  InOrder(r, first, second, done)
  <2>1. PICK k \in 1 .. Len(e) :
           /\ e[k] = second
           /\ done \/ \E j \in 1 .. Len(e) : j < k /\ e[j] = first
    BY <1>3 DEF InOrder
  <2>2. CASE done
    BY <1>1, <2>1, <2>2 DEF InOrder
  <2>3. CASE \E j \in 1 .. Len(e) : j < k /\ e[j] = first
    <3>1. PICK j \in 1 .. Len(e) : j < k /\ e[j] = first
      BY <2>3
    <3>2. j + Len(q) < k + Len(q)
      BY <1>1, <3>1
    <3> QED
      BY <1>1, <2>1, <3>1, <3>2 DEF InOrder
  <2> QED
    BY <2>1, <2>2, <2>3
<1> QED
  BY <1>2, <1>3 DEF r

LEMMA Taken ==
    ASSUME NEW T, NEW q \in Seq(T), q # <<>>
    PROVE  /\ Tail(q) \in Seq(T) /\ Head(q) \in T /\ Head(q) = q[1]
           /\ Len(q) \in Nat \ {0} /\ Len(Tail(q)) = Len(q) - 1
           /\ \A k \in 1 .. Len(Tail(q)) : k + 1 \in 1 .. Len(q) /\ Tail(q)[k] = q[k + 1]
           /\ \A k \in 1 .. Len(q) :
                 k = 1 \/ (k - 1 \in 1 .. Len(Tail(q)) /\ Tail(q)[k - 1] = q[k])
<1>1. /\ Tail(q) \in Seq(T) /\ Head(q) \in T /\ Head(q) = q[1]
      /\ Len(q) \in Nat \ {0} /\ Len(Tail(q)) = Len(q) - 1
  OBVIOUS
<1>2. \A k \in 1 .. Len(Tail(q)) : k + 1 \in 1 .. Len(q) /\ Tail(q)[k] = q[k + 1]
  OBVIOUS
<1>3. \A k \in 1 .. Len(q) :
         k = 1 \/ (k - 1 \in 1 .. Len(Tail(q)) /\ Tail(q)[k - 1] = q[k])
  OBVIOUS
<1> QED
  BY <1>1, <1>2, <1>3

LEMMA LastTaken ==
    ASSUME NEW T, NEW q \in Seq(T), q # <<>>, NEW S, NEW m
    PROVE  /\ Has(q, S) => Head(q) \in S \/ Has(Tail(q), S)
           /\ LastIs(q, S, m) =>
                 /\ LastIs(Tail(q), S, m)
                 /\ Head(q) \in S => Head(q) = m \/ Has(Tail(q), S)
<1> DEFINE r == Tail(q)
<1>1. /\ Len(q) \in Nat \ {0} /\ Head(q) = q[1]
      /\ \A k \in 1 .. Len(r) : k + 1 \in 1 .. Len(q) /\ r[k] = q[k + 1]
      /\ \A k \in 1 .. Len(q) : k = 1 \/ (k - 1 \in 1 .. Len(r) /\ r[k - 1] = q[k])
      /\ Len(r) = Len(q) - 1
  BY Taken
<1> HIDE DEF r
<1>2. Has(q, S) => Head(q) \in S \/ Has(r, S)
  BY <1>1 DEF Has
<1>3. ASSUME LastIs(q, S, m)
      PROVE  LastIs(r, S, m)
  <2> SUFFICES ASSUME NEW k \in 1 .. Len(r), r[k] \in S, r[k] # m
               PROVE  \E j \in 1 .. Len(r) : j > k /\ r[j] \in S
    BY DEF LastIs
  <2>1. PICK j \in 1 .. Len(q) : j > k + 1 /\ q[j] \in S
    BY <1>1, <1>3 DEF LastIs
  <2>2. j # 1 /\ j - 1 > k
    BY <1>1, <2>1
  <2> QED
    BY <1>1, <2>1, <2>2
<1>4. ASSUME LastIs(q, S, m), Head(q) \in S, Head(q) # m
      PROVE  Has(r, S)
  <2>1. 1 \in 1 .. Len(q)
    BY <1>1
  <2>2. PICK j \in 1 .. Len(q) : j > 1 /\ q[j] \in S
    BY <1>1, <1>4, <2>1 DEF LastIs
  <2> QED
    BY <1>1, <2>2 DEF Has
<1> QED
  BY <1>2, <1>3, <1>4 DEF r

LEMMA InOrderTaken ==
    ASSUME NEW T, NEW q \in Seq(T), q # <<>>, NEW first, NEW second, NEW done,
           InOrder(q, first, second, done)
    PROVE  \/ Head(q) = second /\ done
           \/ InOrder(Tail(q), first, second, done \/ Head(q) = first)
<1> DEFINE r == Tail(q)
<1>1. /\ Len(q) \in Nat \ {0} /\ Head(q) = q[1]
      /\ \A k \in 1 .. Len(q) : k = 1 \/ (k - 1 \in 1 .. Len(r) /\ r[k - 1] = q[k])
  BY Taken
<1> HIDE DEF r
<1>2. PICK k \in 1 .. Len(q) :
         /\ q[k] = second
         /\ done \/ \E j \in 1 .. Len(q) : j < k /\ q[j] = first
  BY DEF InOrder
<1>3. CASE done /\ k = 1
  BY <1>1, <1>2, <1>3
<1>4. CASE done /\ k # 1
  BY <1>1, <1>2, <1>4 DEF InOrder, r
<1>5. CASE \E j \in 1 .. Len(q) : j < k /\ q[j] = first
  <2>1. PICK j \in 1 .. Len(q) : j < k /\ q[j] = first
    BY <1>5
  <2>2. k # 1 /\ k - 1 \in 1 .. Len(r) /\ r[k - 1] = second
    BY <1>1, <1>2, <2>1
  <2>3. CASE j = 1
    BY <1>1, <2>1, <2>2, <2>3 DEF InOrder, r
  <2>4. CASE j # 1
    <3>1. j - 1 \in 1 .. Len(r) /\ r[j - 1] = first /\ j - 1 < k - 1
      BY <1>1, <2>1, <2>4
    <3> QED
      BY <2>2, <3>1 DEF InOrder, r
  <2> QED
    BY <2>3, <2>4
<1> QED
  BY <1>2, <1>3, <1>4, <1>5

-----------------------------------------------------------------------------
(* Types of what the actions are built from. *)
KnownEntries == [addr : Addr, pos : Positions]

LEMMA CommandTypes ==
    /\ \A a \in Addr, d \in Positions : Switch(a, d) \in Commands
    /\ \A i \in Ids : Cmd("view", i) \in Commands /\ Cmd("get", i) \in Commands
    /\ \A op \in {"query", "watch", "status", "stop", "go"} : Cmd(op, NoId) \in Commands
  BY DEF Switch, Cmd, Commands

LEMMA MessageTypes ==
    /\ \A i \in Ids, d \in Positions : State(i, d) \in Messages
    /\ \A i \in Ids, a \in Addr : Object(i, a) \in Messages
    /\ \A g \in BOOLEAN : Run(g) \in Messages
  BY DEF State, Object, Run, Messages

LEMMA CommandCases ==
    ASSUME NEW c \in Commands
    PROVE  \/ \E op \in {"query", "watch", "status", "stop", "go"} : c = Cmd(op, NoId)
           \/ \E op \in {"view", "get"}, i \in Ids : c = Cmd(op, i)
           \/ \E a \in Addr, d \in Positions : c = Switch(a, d)
<1>1. CASE c \in [op : {"query", "watch", "status", "stop", "go"}, id : {NoId}]
  BY <1>1 DEF Cmd
<1>2. CASE c \in [op : {"view", "get"}, id : Ids]
  BY <1>2 DEF Cmd
<1>3. CASE c \in [op : {"switch"}, addr : Addr, pos : Positions]
  BY <1>3 DEF Switch
<1> QED
  BY <1>1, <1>2, <1>3 DEF Commands

LEMMA MessageCases ==
    ASSUME NEW m \in Messages
    PROVE  \/ \E i \in Ids, d \in Positions : m = State(i, d)
           \/ \E i \in Ids, a \in Addr : m = Object(i, a)
           \/ m = Run(TRUE)
           \/ m = Run(FALSE)
<1>1. CASE m \in [kind : {"state"}, id : Ids, pos : Positions]
  BY <1>1 DEF State
<1>2. CASE m \in [kind : {"object"}, id : Ids, addr : Addr]
  BY <1>2 DEF Object
<1>3. CASE m \in [kind : {"go", "stop"}]
  BY <1>3 DEF Run
<1> QED
  BY <1>1, <1>2, <1>3 DEF Messages

LEMMA SetToSeqElements ==
    ASSUME NEW S, IsFiniteSet(S)
    PROVE  /\ SetToSeq(S) \in Seq(S)
           /\ \A i, j \in 1 .. Len(SetToSeq(S)) :
                 SetToSeq(S)[i] = SetToSeq(S)[j] => i = j
           /\ \A x \in S : \E i \in 1 .. Len(SetToSeq(S)) : SetToSeq(S)[i] = x
<1> DEFINE n == Cardinality(S)
           f == SetToSeq(S)
<1>1. n \in Nat /\ ExistsBijection(1 .. n, S)
  BY FS_CardinalityType
<1>2. PICK g \in [1 .. n -> S] : IsInjective(g)
  BY <1>1 DEF ExistsBijection, Bijection, Injection
<1>3. f \in [1 .. n -> S] /\ IsInjective(f)
  BY <1>2 DEF SetToSeq
<1>4. Cardinality(1 .. n) = n /\ IsFiniteSet(1 .. n)
  BY <1>1, FS_Interval
<1> HIDE DEF n, f
<1>5. f \in Injection(1 .. n, S)
  BY <1>3 DEF Injection
<1>6. f \in Surjection(1 .. n, S)
  BY <1>4, <1>5, FS_Injection DEF n
<1>7. f \in Seq(S) /\ Len(f) = n
  BY <1>1, <1>3
<1>8. \A x \in S : \E i \in 1 .. n : f[i] = x
  BY <1>6 DEF Surjection
<1>9. \A i, j \in 1 .. n : f[i] = f[j] => i = j
  BY <1>3 DEF IsInjective
<1> QED
  BY <1>7, <1>8, <1>9 DEF f

LEMMA ObjectsListed ==
    ASSUME TypeOK
    PROVE  /\ Objects \in Seq(Messages)
           /\ \A k \in 1 .. Len(Objects) :
                 \E i \in Ids : Objects[k] = Object(i, station.addrOf[i])
           /\ \A i \in Ids :
                 \E k \in 1 .. Len(Objects) : Objects[k] = Object(i, station.addrOf[i])
<1> DEFINE ids == SetToSeq(Ids)
<1>1. /\ ids \in Seq(Ids) /\ \A i \in Ids : \E k \in 1 .. Len(ids) : ids[k] = i
  BY SetToSeqElements, LayoutAssumption
<1>2. Objects = [k \in DOMAIN ids |-> Object(ids[k], station.addrOf[ids[k]])]
  BY DEF Objects
<1> HIDE DEF ids
<1>3. /\ DOMAIN ids = 1 .. Len(ids) /\ Len(ids) \in Nat
      /\ \A k \in 1 .. Len(ids) : ids[k] \in Ids
  BY <1>1
<1>4. station.addrOf \in [Ids -> Addr]
  BY DEF TypeOK
<1>5. \A k \in 1 .. Len(ids) : Object(ids[k], station.addrOf[ids[k]]) \in Messages
  BY <1>3, <1>4, MessageTypes
<1>6. Objects \in [1 .. Len(ids) -> Messages]
  BY <1>2, <1>3, <1>5
<1>7. Objects \in Seq(Messages) /\ Len(Objects) = Len(ids)
  BY <1>3, <1>6
<1>8. \A k \in 1 .. Len(ids) : Objects[k] = Object(ids[k], station.addrOf[ids[k]])
  BY <1>2, <1>3
<1> QED
  BY <1>1, <1>3, <1>7, <1>8

LEMMA EventsListed ==
    ASSUME TypeOK, NEW a \in Addr, NEW d \in Positions
    PROVE  /\ Events(a, d) \in Seq(Messages)
           /\ \A k \in 1 .. Len(Events(a, d)) :
                 \E i \in With(a, d) \cap station.viewed : Events(a, d)[k] = State(i, d)
           /\ \A i \in With(a, d) \cap station.viewed :
                 \E k \in 1 .. Len(Events(a, d)) : Events(a, d)[k] = State(i, d)
<1> DEFINE W == With(a, d) \cap station.viewed
           ids == SetToSeq(W)
           events == Events(a, d)
<1>1. W \in SUBSET Ids /\ IsFiniteSet(W)
  <2>1. W \in SUBSET Ids
    BY DEF With
  <2> QED
    BY <2>1, FS_Subset, LayoutAssumption
<1>2. events = [k \in DOMAIN ids |-> State(ids[k], d)]
  BY DEF Events
<1> HIDE DEF W
<1>3. ids \in Seq(W) /\ \A i \in W : \E k \in 1 .. Len(ids) : ids[k] = i
  BY <1>1, SetToSeqElements
<1> HIDE DEF ids, events
<1>4. /\ DOMAIN ids = 1 .. Len(ids) /\ Len(ids) \in Nat
      /\ \A k \in 1 .. Len(ids) : ids[k] \in W
  BY <1>3
<1>5. \A k \in 1 .. Len(ids) : State(ids[k], d) \in Messages
  BY <1>1, <1>4, MessageTypes
<1>6. events \in [1 .. Len(ids) -> Messages]
  BY <1>2, <1>4, <1>5
<1>7. events \in Seq(Messages) /\ Len(events) = Len(ids)
  BY <1>4, <1>6
<1>8. \A k \in 1 .. Len(ids) : events[k] = State(ids[k], d)
  BY <1>2, <1>4
<1> QED
  BY <1>3, <1>4, <1>7, <1>8 DEF events, W

-----------------------------------------------------------------------------
(* The two tables. *)
LEMMA SetKnownGets ==
    ASSUME known \in Seq(KnownEntries), Len(known) <= MaxKnown,
           \A j, k \in 1 .. Len(known) : known[j].addr = known[k].addr => j = k,
           NEW a \in Addr, NEW d \in Positions, known' = SetKnown(known, a, d)
    PROVE  /\ known' \in Seq(KnownEntries) /\ Len(known') <= MaxKnown
           /\ \A j, k \in 1 .. Len(known') : known'[j].addr = known'[k].addr => j = k
           /\ \A b \in Addr : b # a => GetKnown(b)' = GetKnown(b)
           /\ \/ GetKnown(a)' = d
              \/ GetKnown(a)' = Unknown /\ GetKnown(a) = Unknown /\ ~HasRoom(known')
           /\ HasRoom(known') => HasRoom(known)
<1>0. MaxKnown \in Nat
  BY LayoutAssumption
<1>1. ASSUME NEW T, NEW s \in Seq(T), NEW b, NEW j \in 1 .. Len(s), s[j].addr = b,
             \A i, k \in 1 .. Len(s) : s[i].addr = s[k].addr => i = k
      PROVE  Find(b, s) = j
  BY <1>1, FindIn
<1>2. CASE Find(a, known) # 0
  <2> DEFINE f == Find(a, known)
  <2>1. f \in 1 .. Len(known) /\ known[f].addr = a
    BY <1>2, FindIn
  <2>2. known' = [known EXCEPT ![f].pos = d]
    BY <1>2 DEF SetKnown
  <2> HIDE DEF f
  <2>3. /\ known' \in Seq(KnownEntries) /\ Len(known') = Len(known)
        /\ \A j \in 1 .. Len(known) : /\ known'[j].addr = known[j].addr
                                      /\ j # f => known'[j].pos = known[j].pos
        /\ known'[f].pos = d
    <3>1. known[f] \in KnownEntries
      BY <2>1
    <3>2. /\ [known[f] EXCEPT !.pos = d] \in KnownEntries
          /\ [known[f] EXCEPT !.pos = d].addr = known[f].addr
          /\ [known[f] EXCEPT !.pos = d].pos = d
      BY <3>1 DEF KnownEntries
    <3>3. known' = [known EXCEPT ![f] = [known[f] EXCEPT !.pos = d]]
      BY <2>2
    <3> QED
      BY <2>1, <3>2, <3>3
  <2>4. \A j, k \in 1 .. Len(known') : known'[j].addr = known'[k].addr => j = k
    BY <2>3
  <2>5. GetKnown(a)' = d
    <3>1. Find(a, known') = f
      BY <1>1, <2>1, <2>3, <2>4
    <3>2. f # 0
      BY <2>1
    <3> QED
      BY <2>3, <3>1, <3>2 DEF GetKnown
  <2>6. ASSUME NEW b \in Addr, b # a
        PROVE  GetKnown(b)' = GetKnown(b)
    <3>1. CASE Find(b, known) = 0
      <4>1. \A j \in 1 .. Len(known') : known'[j].addr # b
        BY <2>3, <3>1, FindIn
      <4>2. Find(b, known') = 0
        BY <2>3, <4>1, FindIn
      <4> QED
        BY <3>1, <4>2 DEF GetKnown
    <3>2. CASE Find(b, known) # 0
      <4> DEFINE g == Find(b, known)
      <4>1. g \in 1 .. Len(known) /\ known[g].addr = b
        BY <3>2, FindIn
      <4>2. g # f /\ known'[g] .addr = b /\ known'[g].pos = known[g].pos
        BY <2>1, <2>3, <2>6, <4>1
      <4>3. Find(b, known') = g
        BY <1>1, <2>3, <2>4, <4>1, <4>2
      <4> QED
        BY <3>2, <4>2, <4>3 DEF GetKnown
    <3> QED
      BY <3>1, <3>2
  <2>7. HasRoom(known') => HasRoom(known)
    BY <2>3 DEF HasRoom
  <2> QED
    BY <2>3, <2>4, <2>5, <2>6, <2>7
<1>3. CASE Find(a, known) = 0 /\ HasRoom(known)
  <2> DEFINE e == [addr |-> a, pos |-> d]
  <2>1. \A j \in 1 .. Len(known) : known[j].addr # a
    BY <1>3, FindIn
  <2>2. known' = Append(known, e) /\ e \in KnownEntries /\ e.addr = a /\ e.pos = d
    BY <1>3 DEF SetKnown, KnownEntries
  <2> HIDE DEF e
  <2>3. /\ known' \in Seq(KnownEntries) /\ Len(known') = Len(known) + 1 /\ Len(known) \in Nat
        /\ \A j \in 1 .. Len(known) : j \in 1 .. Len(known') /\ known'[j] = known[j]
        /\ known'[Len(known) + 1] = e
        /\ \A j \in 1 .. Len(known') : j \in 1 .. Len(known) \/ j = Len(known) + 1
    BY <2>2
  <2>4. \A j, k \in 1 .. Len(known') : known'[j].addr = known'[k].addr => j = k
    BY <2>1, <2>2, <2>3
  <2>5. GetKnown(a)' = d
    <3>1. Len(known) + 1 \in 1 .. Len(known') /\ Len(known) + 1 # 0
      BY <2>3
    <3>2. Find(a, known') = Len(known) + 1
      BY <1>1, <2>2, <2>3, <2>4, <3>1
    <3> QED
      BY <2>2, <2>3, <3>1, <3>2 DEF GetKnown
  <2>6. ASSUME NEW b \in Addr, b # a
        PROVE  GetKnown(b)' = GetKnown(b)
    <3>1. CASE Find(b, known) = 0
      <4>1. \A j \in 1 .. Len(known') : known'[j].addr # b
        BY <2>2, <2>3, <2>6, <3>1, FindIn
      <4>2. Find(b, known') = 0
        BY <2>3, <4>1, FindIn
      <4> QED
        BY <3>1, <4>2 DEF GetKnown
    <3>2. CASE Find(b, known) # 0
      <4> DEFINE g == Find(b, known)
      <4>1. g \in 1 .. Len(known) /\ known[g].addr = b
        BY <3>2, FindIn
      <4>2. g \in 1 .. Len(known') /\ known'[g] = known[g]
        BY <2>3, <4>1
      <4>3. Find(b, known') = g
        BY <1>1, <2>3, <2>4, <4>1, <4>2
      <4> QED
        BY <3>2, <4>2, <4>3 DEF GetKnown
    <3> QED
      BY <3>1, <3>2
  <2>7. Len(known') <= MaxKnown
    BY <1>0, <1>3, <2>3 DEF HasRoom
  <2> QED
    BY <1>3, <2>3, <2>4, <2>5, <2>6, <2>7
<1>4. CASE Find(a, known) = 0 /\ ~HasRoom(known)
  <2>1. known' = known
    BY <1>4 DEF SetKnown
  <2>2. GetKnown(a) = Unknown /\ GetKnown(a)' = Unknown
    BY <1>4, <2>1 DEF GetKnown
  <2> QED
    BY <1>4, <2>1, <2>2 DEF GetKnown
<1> QED
  BY <1>2, <1>3, <1>4

(* What is in the accessory map after a reply about an object.             *)
LEMMA AddEntryGets ==
    ASSUME map \in Seq(Entries), Len(map) <= MaxMapped,
           \A j, k \in 1 .. Len(map) : map[j].addr = map[k].addr => j = k,
           NEW a \in Addr, NEW i \in Ids, map' = AddEntry(map, a, i)
    PROVE  /\ map' \in Seq(Entries) /\ Len(map') <= MaxMapped
           /\ \A j, k \in 1 .. Len(map') : map'[j].addr = map'[k].addr => j = k
           /\ HasPlace(map') => HasPlace(map)
           /\ \A j \in 1 .. Len(map) :
                 /\ j \in 1 .. Len(map')
                 /\ map'[j].addr = map[j].addr /\ map'[j].subscribed = map[j].subscribed
                 /\ map[j].addr # a => map'[j] = map[j]
           /\ \A j \in 1 .. Len(map') :
                 /\ map'[j].addr = a => map'[j].id = i
                 /\ map'[j].addr # a => j \in 1 .. Len(map)
                 /\ j \in 1 .. Len(map) \/ ~map'[j].subscribed
           /\ HasPlace(map') => \E j \in 1 .. Len(map') : map'[j].addr = a
<1>0. MaxMapped \in Nat
  BY LayoutAssumption
<1>1. CASE Find(a, map) # 0
  <2> DEFINE f == Find(a, map)
  <2>1. f \in 1 .. Len(map) /\ map[f].addr = a
    BY <1>1, FindIn
  <2>2. map' = [map EXCEPT ![f].id = i]
    BY <1>1 DEF AddEntry
  <2> HIDE DEF f
  <2>3. /\ map' \in Seq(Entries) /\ Len(map') = Len(map) /\ Len(map) \in Nat
        /\ \A j \in 1 .. Len(map) : /\ map'[j].addr = map[j].addr
                                    /\ map'[j].subscribed = map[j].subscribed
                                    /\ j # f => map'[j] = map[j]
        /\ map'[f].id = i
    <3>1. map[f] \in Entries
      BY <2>1
    <3>2. /\ [map[f] EXCEPT !.id = i] \in Entries
          /\ [map[f] EXCEPT !.id = i].addr = map[f].addr
          /\ [map[f] EXCEPT !.id = i].subscribed = map[f].subscribed
          /\ [map[f] EXCEPT !.id = i].id = i
      BY <3>1 DEF Entries
    <3>3. map' = [map EXCEPT ![f] = [map[f] EXCEPT !.id = i]]
      BY <2>2
    <3> QED
      BY <2>1, <3>2, <3>3
  <2>4. \A j \in 1 .. Len(map) : map[j].addr = a <=> j = f
    BY <2>1
  <2> QED
    BY <2>1, <2>3, <2>4 DEF HasPlace
<1>2. CASE Find(a, map) = 0 /\ HasPlace(map)
  <2> DEFINE e == [addr |-> a, id |-> i, subscribed |-> FALSE]
  <2>1. \A j \in 1 .. Len(map) : map[j].addr # a
    BY <1>2, FindIn
  <2>2. /\ map' = Append(map, e) /\ e \in Entries
        /\ e.addr = a /\ e.id = i /\ ~e.subscribed
    BY <1>2 DEF AddEntry, Entries
  <2> HIDE DEF e
  <2>3. /\ map' \in Seq(Entries) /\ Len(map') = Len(map) + 1 /\ Len(map) \in Nat
        /\ \A j \in 1 .. Len(map) : j \in 1 .. Len(map') /\ map'[j] = map[j]
        /\ map'[Len(map) + 1] = e /\ Len(map) + 1 \in 1 .. Len(map')
        /\ \A j \in 1 .. Len(map') : j \in 1 .. Len(map) \/ j = Len(map) + 1
    BY <2>2
  <2>4. \A j, k \in 1 .. Len(map') : map'[j].addr = map'[k].addr => j = k
    BY <2>1, <2>2, <2>3
  <2> QED
    BY <1>0, <1>2, <2>1, <2>2, <2>3, <2>4 DEF HasPlace
<1>3. CASE Find(a, map) = 0 /\ ~HasPlace(map)
  <2>1. map' = map
    BY <1>3 DEF AddEntry
  <2>2. \A j \in 1 .. Len(map) : map[j].addr # a
    BY <1>3, FindIn
  <2> QED
    BY <1>3, <2>1, <2>2
<1> QED
  BY <1>1, <1>2, <1>3

(* The subscription walk marks the entry it takes, and a new connection    *)
(* none.                                                                   *)
LEMMA SubscribedGets ==
    ASSUME map \in Seq(Entries)
    PROVE  /\ Subscribed(map) \in Seq(Entries) /\ Len(Subscribed(map)) = Len(map)
           /\ \A j \in 1 .. Len(map) :
                 /\ Subscribed(map)[j].addr = map[j].addr
                 /\ Subscribed(map)[j].id = map[j].id
                 /\ j # NextStep(map) => Subscribed(map)[j] = map[j]
           /\ SubscribeStep(map) \in Seq(Commands)
           /\ NextStep(map) # 0 =>
                 /\ NextStep(map) \in 1 .. Len(map)
                 /\ SubscribeStep(map) = <<Cmd("view", map[NextStep(map)].id),
                                           Cmd("get", map[NextStep(map)].id)>>
           /\ NextStep(map) = 0 => SubscribeStep(map) = <<>>
<1> DEFINE n == NextStep(map)
<1>1. CASE n # 0
  <2>1. n \in 1 .. Len(map)
    BY <1>1, NextStepIn
  <2>2. Subscribed(map) = [map EXCEPT ![n].subscribed = TRUE]
    BY <1>1 DEF Subscribed
  <2>3. SubscribeStep(map) = <<Cmd("view", map[n].id), Cmd("get", map[n].id)>>
    BY <1>1 DEF SubscribeStep
  <2> HIDE DEF n
  <2>4. map[n] \in Entries /\ map[n].id \in Ids
    <3>1. map[n] \in Entries
      BY <2>1
    <3> QED
      BY <3>1 DEF Entries
  <2>5. /\ [map[n] EXCEPT !.subscribed = TRUE] \in Entries
        /\ [map[n] EXCEPT !.subscribed = TRUE].addr = map[n].addr
        /\ [map[n] EXCEPT !.subscribed = TRUE].id = map[n].id
    BY <2>4 DEF Entries
  <2>6. Subscribed(map) = [map EXCEPT ![n] = [map[n] EXCEPT !.subscribed = TRUE]]
    BY <2>2
  <2>7. /\ Subscribed(map) \in Seq(Entries) /\ Len(Subscribed(map)) = Len(map)
        /\ \A j \in 1 .. Len(map) : /\ Subscribed(map)[j].addr = map[j].addr
                                    /\ Subscribed(map)[j].id = map[j].id
                                    /\ j # n => Subscribed(map)[j] = map[j]
    BY <2>1, <2>5, <2>6
  <2>8. SubscribeStep(map) \in Seq(Commands)
    BY <2>3, <2>4, CommandTypes
  <2>9. NextStep(map) = n
    BY DEF n
  <2> QED
    BY <1>1, <2>1, <2>3, <2>7, <2>8, <2>9
<1>2. CASE n = 0
  BY <1>2 DEF Subscribed, SubscribeStep
<1> QED
  BY <1>1, <1>2

LEMMA UnsubscribedGets ==
    ASSUME map \in Seq(Entries)
    PROVE  /\ Unsubscribed(map) \in Seq(Entries) /\ Len(Unsubscribed(map)) = Len(map)
           /\ \A j \in 1 .. Len(map) : /\ Unsubscribed(map)[j].addr = map[j].addr
                                       /\ Unsubscribed(map)[j].id = map[j].id
                                       /\ ~Unsubscribed(map)[j].subscribed
<1>1. \A j \in 1 .. Len(map) :
         /\ [map[j] EXCEPT !.subscribed = FALSE] \in Entries
         /\ [map[j] EXCEPT !.subscribed = FALSE].addr = map[j].addr
         /\ [map[j] EXCEPT !.subscribed = FALSE].id = map[j].id
         /\ [map[j] EXCEPT !.subscribed = FALSE].subscribed = FALSE
  <2> SUFFICES ASSUME NEW j \in 1 .. Len(map)
               PROVE  /\ [map[j] EXCEPT !.subscribed = FALSE] \in Entries
                      /\ [map[j] EXCEPT !.subscribed = FALSE].addr = map[j].addr
                      /\ [map[j] EXCEPT !.subscribed = FALSE].id = map[j].id
                      /\ [map[j] EXCEPT !.subscribed = FALSE].subscribed = FALSE
    OBVIOUS
  <2>1. map[j] \in Entries
    OBVIOUS
  <2> QED
    BY <2>1 DEF Entries
<1>2. Unsubscribed(map) = [j \in 1 .. Len(map) |-> [map[j] EXCEPT !.subscribed = FALSE]]
  BY DEF Unsubscribed
<1>3. Unsubscribed(map) \in [1 .. Len(map) -> Entries] /\ Len(map) \in Nat
  BY <1>1, <1>2
<1>4. Unsubscribed(map) \in Seq(Entries) /\ Len(Unsubscribed(map)) = Len(map)
  BY <1>3
<1> QED
  BY <1>1, <1>2, <1>4

-----------------------------------------------------------------------------
(* Types, and one entry per address in each of the two tables. *)
OneEach ==
    /\ \A j, k \in 1 .. Len(known) : known[j].addr = known[k].addr => j = k
    /\ \A j, k \in 1 .. Len(map) : map[j].addr = map[k].addr => j = k
Tables == TypeOK /\ OneEach

Stations == [addrOf : [Ids -> Addr], pos : [Ids -> Positions],
             viewed : SUBSET Ids, watched : BOOLEAN, go : BOOLEAN]
Displays == [Protocols -> [Addr -> Positions \cup {Unknown}]]

LEMMA TablesType ==
    Tables =>
       /\ connected \in BOOLEAN /\ reading \in BOOLEAN
       /\ map \in Seq(Entries) /\ Len(map) <= MaxMapped
       /\ known \in Seq(KnownEntries) /\ Len(known) <= MaxKnown
       /\ shown \in Displays
       /\ toEcos \in Seq(Commands) /\ fromEcos \in Seq(Messages)
       /\ station \in Stations /\ edited \subseteq Addr
  BY DEF Tables, TypeOK, KnownEntries, Displays, Stations

(* Most steps leave one of the tables alone. *)
LEMMA ToldTypes ==
    ASSUME Tables, NEW a \in Addr, NEW d \in Positions, Told(a, d)
    PROVE  /\ known' \in Seq(KnownEntries) /\ Len(known') <= MaxKnown
           /\ \A j, k \in 1 .. Len(known') : known'[j].addr = known'[k].addr => j = k
           /\ shown' \in Displays
<1>1. known \in Seq(KnownEntries) /\ Len(known) <= MaxKnown /\ shown \in Displays
  BY TablesType
<1>2. \A j, k \in 1 .. Len(known) : known[j].addr = known[k].addr => j = k
  BY DEF Tables, OneEach
<1>3. known' = SetKnown(known, a, d)
  BY DEF Told
<1>4. shown' \in Displays
  BY <1>1 DEF Told, Displays
<1> HIDE DEF Displays
<1> QED
  BY <1>1, <1>2, <1>3, <1>4, SetKnownGets

Tracks == [power : BOOLEAN, running : BOOLEAN]
LEMMA PowerTypes ==
    ASSUME trk \in Tracks, NEW x \in Powers, NEW z \in BOOLEAN,
           NEW t \in {TrackOff, TrackOn, [trk EXCEPT !.running = FALSE]}, Power(x, z, t)
    PROVE  xnetPower' \in Powers /\ z21Stop' \in BOOLEAN /\ trk' \in Tracks
<1>1. TrackOff \in Tracks
  BY DEF TrackOff, Tracks
<1>2. TrackOn \in Tracks
  BY DEF TrackOn, Tracks
<1>3. [trk EXCEPT !.running = FALSE] \in Tracks
  BY DEF Tracks
<1> QED
  BY <1>1, <1>2, <1>3 DEF Power

(* What ECoS does with each command, and what it answers. *)
RunCmd(g) == Cmd(IF g THEN "go" ELSE "stop", NoId)

LEMMA Processing ==
    /\ \A i \in Ids :
          /\ Processed(Cmd("view", i)) = [station EXCEPT !.viewed = @ \cup {i}]
          /\ Answers(Cmd("view", i)) = <<>>
          /\ Processed(Cmd("get", i)) = station
          /\ Answers(Cmd("get", i)) = <<State(i, station.pos[i])>>
    /\ Processed(Cmd("watch", NoId)) = [station EXCEPT !.watched = TRUE]
    /\ Answers(Cmd("watch", NoId)) = <<>>
    /\ Processed(Cmd("query", NoId)) = station
    /\ Answers(Cmd("query", NoId)) = Objects
    /\ Processed(Cmd("status", NoId)) = station
    /\ Answers(Cmd("status", NoId)) = <<Run(station.go)>>
    /\ \A g \in BOOLEAN :
          /\ Processed(RunCmd(g)) = [station EXCEPT !.go = g]
          /\ Answers(RunCmd(g)) =
                IF station.watched /\ station.go # g THEN <<Run(g)>> ELSE <<>>
    /\ \A a \in Addr, d \in Positions :
          /\ Processed(Switch(a, d)) = [station EXCEPT !.pos = Thrown(a, d)]
          /\ Answers(Switch(a, d)) = Events(a, d)
<1>1. \A i \in Ids :
          /\ Processed(Cmd("view", i)) = [station EXCEPT !.viewed = @ \cup {i}]
          /\ Answers(Cmd("view", i)) = <<>>
          /\ Processed(Cmd("get", i)) = station
          /\ Answers(Cmd("get", i)) = <<State(i, station.pos[i])>>
  BY DEF Processed, Answers, Cmd
<1>2. /\ Processed(Cmd("watch", NoId)) = [station EXCEPT !.watched = TRUE]
      /\ Answers(Cmd("watch", NoId)) = <<>>
      /\ Processed(Cmd("query", NoId)) = station
      /\ Answers(Cmd("query", NoId)) = Objects
      /\ Processed(Cmd("status", NoId)) = station
      /\ Answers(Cmd("status", NoId)) = <<Run(station.go)>>
  BY DEF Processed, Answers, Cmd
<1>3. \A g \in BOOLEAN :
          /\ Processed(RunCmd(g)) = [station EXCEPT !.go = g]
          /\ Answers(RunCmd(g)) =
                IF station.watched /\ station.go # g THEN <<Run(g)>> ELSE <<>>
  BY DEF Processed, Answers, Cmd, RunCmd
<1>4. \A a \in Addr, d \in Positions :
          /\ Processed(Switch(a, d)) = [station EXCEPT !.pos = Thrown(a, d)]
          /\ Answers(Switch(a, d)) = Events(a, d)
  BY DEF Processed, Answers, Switch
<1> QED
  BY <1>1, <1>2, <1>3, <1>4

LEMMA CommandKinds ==
    ASSUME NEW c \in Commands
    PROVE  \/ \E i \in Ids : c \in {Cmd("view", i), Cmd("get", i)}
           \/ c \in {Cmd("watch", NoId), Cmd("query", NoId), Cmd("status", NoId)}
           \/ \E g \in BOOLEAN : c = RunCmd(g)
           \/ \E a \in Addr, d \in Positions : c = Switch(a, d)
<1>1. /\ RunCmd(TRUE) = Cmd("go", NoId) /\ RunCmd(FALSE) = Cmd("stop", NoId)
      /\ TRUE \in BOOLEAN /\ FALSE \in BOOLEAN
  BY DEF RunCmd
<1> QED
  BY <1>1, CommandCases

LEMMA ThrownType ==
    ASSUME station \in Stations, NEW a, NEW d \in Positions
    PROVE  /\ Thrown(a, d) \in [Ids -> Positions]
           /\ [station EXCEPT !.pos = Thrown(a, d)] \in Stations
<1>1. station.pos \in [Ids -> Positions]
  BY DEF Stations
<1>2. Thrown(a, d) \in [Ids -> Positions]
  BY <1>1 DEF Thrown
<1> QED
  BY <1>2 DEF Stations

LEMMA ProcessedType ==
    ASSUME Tables, NEW c \in Commands
    PROVE  Processed(c) \in Stations /\ Answers(c) \in Seq(Messages)
<1>0. station \in Stations /\ TypeOK
  BY TablesType DEF Tables
<1>1. /\ \A i \in Ids : [station EXCEPT !.viewed = @ \cup {i}] \in Stations
      /\ [station EXCEPT !.watched = TRUE] \in Stations
      /\ \A g \in BOOLEAN : [station EXCEPT !.go = g] \in Stations
  BY <1>0 DEF Stations
<1>2. \A i \in Ids : station.pos[i] \in Positions
  BY <1>0 DEF Stations
<1>3. station.go \in BOOLEAN
  BY <1>0 DEF Stations
<1>4. /\ \A i \in Ids, d \in Positions : <<State(i, d)>> \in Seq(Messages)
      /\ \A g \in BOOLEAN : <<Run(g)>> \in Seq(Messages)
      /\ <<>> \in Seq(Messages)
      /\ Objects \in Seq(Messages)
      /\ \A a \in Addr, d \in Positions : Events(a, d) \in Seq(Messages)
  BY <1>0, MessageTypes, ObjectsListed, EventsListed
<1>5. CASE \E i \in Ids : c \in {Cmd("view", i), Cmd("get", i)}
  BY ZenonT(40), <1>0, <1>1, <1>2, <1>4, <1>5, Processing
<1>6. CASE c \in {Cmd("watch", NoId), Cmd("query", NoId), Cmd("status", NoId)}
  BY <1>0, <1>1, <1>3, <1>4, <1>6, Processing
<1>7. CASE \E g \in BOOLEAN : c = RunCmd(g)
  BY <1>1, <1>4, <1>7, Processing
<1>8. CASE \E a \in Addr, d \in Positions : c = Switch(a, d)
  <2>1. PICK a \in Addr, d \in Positions : c = Switch(a, d)
    BY <1>8
  <2>2. Processed(c) = [station EXCEPT !.pos = Thrown(a, d)] /\ Answers(c) = Events(a, d)
    BY <2>1, Processing
  <2>3. [station EXCEPT !.pos = Thrown(a, d)] \in Stations
    BY <1>0, ThrownType
  <2> QED
    BY <1>4, <2>2, <2>3
<1> QED
  BY <1>5, <1>6, <1>7, <1>8, CommandKinds

\* What a command leaves alone.
LEMMA ProcessedKeeps ==
    ASSUME Tables, NEW c \in Commands
    PROVE  /\ Processed(c).addrOf = station.addrOf
           /\ station.viewed \subseteq Processed(c).viewed
           /\ station.watched => Processed(c).watched
<1>0. station \in Stations
  BY TablesType
<1>1. CASE \E i \in Ids : c \in {Cmd("view", i), Cmd("get", i)}
  BY <1>0, <1>1, Processing DEF Stations
<1>2. CASE c \in {Cmd("watch", NoId), Cmd("query", NoId), Cmd("status", NoId)}
  BY <1>0, <1>2, Processing DEF Stations
<1>3. CASE \E g \in BOOLEAN : c = RunCmd(g)
  BY <1>0, <1>3, Processing DEF Stations
<1>4. CASE \E a \in Addr, d \in Positions : c = Switch(a, d)
  <2>1. PICK a \in Addr, d \in Positions : c = Switch(a, d)
    BY <1>4
  <2>2. Processed(c) = [station EXCEPT !.pos = Thrown(a, d)]
    BY <2>1, Processing
  <2> QED
    BY <1>0, <2>2 DEF Stations
<1> QED
  BY <1>1, <1>2, <1>3, <1>4, CommandKinds

Counters == /\ current \in BOOLEAN
            /\ ops \in 0 .. MaxOps /\ edits \in 0 .. MaxEdits /\ faults \in 0 .. MaxFaults
PowerType == xnetPower \in Powers /\ z21Stop \in BOOLEAN /\ trk \in Tracks

\* Tables, part by part.
LEMMA TablesParts ==
    Tables <=>
       /\ connected \in BOOLEAN /\ reading \in BOOLEAN
       /\ map \in Seq(Entries) /\ Len(map) <= MaxMapped
       /\ \A j, k \in 1 .. Len(map) : map[j].addr = map[k].addr => j = k
       /\ known \in Seq(KnownEntries) /\ Len(known) <= MaxKnown
       /\ \A j, k \in 1 .. Len(known) : known[j].addr = known[k].addr => j = k
       /\ shown \in Displays
       /\ PowerType
       /\ toEcos \in Seq(Commands) /\ fromEcos \in Seq(Messages)
       /\ station \in Stations /\ edited \subseteq Addr
       /\ Counters
  BY DEF Tables, OneEach, TypeOK, KnownEntries, Displays, Stations, Tracks, Counters, PowerType

\* And of the next state.
LEMMA TablesNext ==
    ASSUME connected' \in BOOLEAN, reading' \in BOOLEAN,
           map' \in Seq(Entries), Len(map') <= MaxMapped,
           \A j, k \in 1 .. Len(map') : map'[j].addr = map'[k].addr => j = k,
           known' \in Seq(KnownEntries), Len(known') <= MaxKnown,
           \A j, k \in 1 .. Len(known') : known'[j].addr = known'[k].addr => j = k,
           shown' \in Displays,
           PowerType',
           toEcos' \in Seq(Commands), fromEcos' \in Seq(Messages),
           station' \in Stations, edited' \subseteq Addr,
           Counters'
    PROVE  Tables'
  BY DEF Tables, OneEach, TypeOK, KnownEntries, Displays, Stations, Tracks, Counters, PowerType

LEMMA InitTables == Init => Tables
<1> SUFFICES ASSUME Init
             PROVE  Tables
  OBVIOUS
<1>1. /\ connected \in BOOLEAN /\ reading \in BOOLEAN /\ edited \subseteq Addr
      /\ map = <<>> /\ known = <<>> /\ toEcos = <<>> /\ fromEcos = <<>>
  BY DEF Init
<1>2. /\ map \in Seq(Entries) /\ Len(map) = 0
      /\ known \in Seq(KnownEntries) /\ Len(known) = 0
      /\ toEcos \in Seq(Commands) /\ fromEcos \in Seq(Messages)
  BY <1>1
<1>3. Len(map) <= MaxMapped /\ Len(known) <= MaxKnown
  BY <1>2, LayoutAssumption
<1>4. shown \in Displays
  BY DEF Init, Displays
<1>5. PowerType
  BY DEF Init, PowerType, Powers, Tracks
<1>6. station \in Stations
  BY LayoutAssumption DEF Init, Stations
<1>7. Counters
  BY LayoutAssumption DEF Init, Counters
<1>8. OneEach
  BY <1>2 DEF OneEach
<1> QED
  BY <1>1, <1>2, <1>3, <1>4, <1>5, <1>6, <1>7, <1>8, TablesParts DEF OneEach

(* A reply changes at most one of the tables, the displays, the run state. *)
LEMMA ReadTypes ==
    ASSUME Tables, ReadReply
    PROVE  Tables'
<1>1. /\ UNCHANGED <<connected, toEcos, station, edited, current, ops, edits, faults>>
      /\ reading' = TRUE /\ fromEcos # <<>> /\ fromEcos' = Tail(fromEcos)
      /\ HandleReply(Head(fromEcos))
  BY DEF ReadReply
<1>2. fromEcos' \in Seq(Messages) /\ Head(fromEcos) \in Messages
  BY <1>1, TablesParts
<1>3. Counters'
  BY <1>1, TablesParts DEF Counters
<1>4. PICK m \in Messages : m = Head(fromEcos)
  BY <1>2
<1>5. ASSUME NEW i \in Ids, NEW a \in Addr, m = Object(i, a)
      PROVE  Tables'
  <2>1. map' = AddEntry(map, a, i) /\ UNCHANGED <<known, shown, power>>
    BY <1>1, <1>4, <1>5 DEF HandleReply, Object
  <2>2. /\ map' \in Seq(Entries) /\ Len(map') <= MaxMapped
        /\ \A j, k \in 1 .. Len(map') : map'[j].addr = map'[k].addr => j = k
    BY <2>1, TablesParts, AddEntryGets
  <2>3. PowerType'
    BY <2>1, TablesParts DEF power, PowerType
  <2> QED
    BY <1>1, <1>2, <1>3, <2>1, <2>2, <2>3, TablesParts, TablesNext
<1>6. ASSUME NEW i \in Ids, NEW d \in Positions, m = State(i, d)
      PROVE  Tables'
  <2>1. /\ UNCHANGED <<map, power>>
        /\ IF EntryOf(map, i) = 0 THEN UNCHANGED <<known, shown>>
           ELSE Told(map[EntryOf(map, i)].addr, d)
    BY <1>1, <1>4, <1>6 DEF HandleReply, State
  <2>2. PowerType'
    BY <2>1, TablesParts DEF power, PowerType
  <2>3. CASE EntryOf(map, i) = 0
    BY <1>1, <1>2, <1>3, <2>1, <2>2, <2>3, TablesParts, TablesNext
  <2>4. CASE EntryOf(map, i) # 0
    <3>1. map[EntryOf(map, i)] \in Entries
      BY <2>4, TablesParts, EntryIn
    <3>2. map[EntryOf(map, i)].addr \in Addr
      BY <3>1 DEF Entries
    <3>3. /\ known' \in Seq(KnownEntries) /\ Len(known') <= MaxKnown
          /\ \A j, k \in 1 .. Len(known') : known'[j].addr = known'[k].addr => j = k
          /\ shown' \in Displays
      BY <2>1, <2>4, <3>2, ToldTypes
    <3> QED
      BY <1>1, <1>2, <1>3, <2>1, <2>2, <3>3, TablesParts, TablesNext
  <2> QED
    BY <2>3, <2>4
<1>7. ASSUME NEW g \in BOOLEAN, m = Run(g)
      PROVE  Tables'
  <2>1. UNCHANGED <<map, known, shown>> /\ (AllResumed \/ AllStopped)
    BY <1>1, <1>4, <1>7 DEF HandleReply, Run
  <2>2. PowerType'
    <3>1. trk \in Tracks /\ {"csNormal", "csEmergencyStop"} \subseteq Powers
      BY TablesParts DEF PowerType, Powers
    <3> QED
      BY <2>1, <3>1, PowerTypes DEF AllResumed, AllStopped, PowerType
  <2> QED
    BY <1>1, <1>2, <1>3, <2>1, <2>2, TablesParts, TablesNext
<1> QED
  BY <1>4, <1>5, <1>6, <1>7, MessageCases

LEMMA SendTypes ==
    ASSUME Tables, NEW c \in Commands, Send(c)
    PROVE  toEcos' \in Seq(Commands)
  BY TablesParts DEF Send

LEMMA ThrottleTypes ==
    ASSUME Tables, Operate, OnlyThrottle
    PROVE  /\ Counters'
           /\ UNCHANGED <<connected, reading, map, fromEcos, station, edited>>
<1>1. Counters
  BY TablesParts
<1> QED
  BY <1>1, LayoutAssumption DEF Counters, Operate, OnlyThrottle

LEMMA ThrowsTypes ==
    ASSUME Tables, NEW a \in Addr, NEW d \in Positions, ThrottleThrows(a, d)
    PROVE  Tables'
<1>1. Operate /\ OnlyThrottle /\ Told(a, d) /\ Send(Switch(a, d)) /\ UNCHANGED power
  BY DEF ThrottleThrows
<1>2. toEcos' \in Seq(Commands)
  BY <1>1, SendTypes, CommandTypes
<1>3. PowerType'
  BY <1>1, TablesParts DEF power, PowerType
<1> QED
  BY <1>1, <1>2, <1>3, ToldTypes, ThrottleTypes, TablesParts, TablesNext

LEMMA AsksTypes ==
    ASSUME Tables, NEW p \in Protocols, NEW a \in Addr, ThrottleAsks(p, a)
    PROVE  Tables'
<1>1. /\ Operate /\ OnlyThrottle /\ UNCHANGED <<known, power, toEcos>>
      /\ shown' = [shown EXCEPT ![p][a] = Answer(p, a)]
  BY DEF ThrottleAsks
<1>2. GetKnown(a) \in Positions \cup {Unknown}
  <2>1. known \in Seq(KnownEntries)
    BY TablesParts
  <2>2. CASE Find(a, known) = 0
    BY <2>2 DEF GetKnown
  <2>3. CASE Find(a, known) # 0
    <3>1. known[Find(a, known)] \in KnownEntries
      BY <2>1, <2>3, FindIn
    <3>2. known[Find(a, known)].pos \in Positions
      BY <3>1 DEF KnownEntries
    <3> QED
      BY <2>3, <3>2 DEF GetKnown
  <2> QED
    BY <2>2, <2>3
<1>3. shown \in Displays
  BY TablesParts
<1>4. Answer(p, a) \in Positions \cup {Unknown}
  <2>1. shown[p][a] \in Positions \cup {Unknown}
    BY <1>3 DEF Displays
  <2> QED
    BY <1>2, <2>1 DEF Answer, Protocols, Positions
<1>5. shown' \in Displays
  BY <1>1, <1>3, <1>4 DEF Displays
<1>6. PowerType'
  BY <1>1, TablesParts DEF power, PowerType
<1> QED
  BY <1>1, <1>5, <1>6, ThrottleTypes, TablesParts, TablesNext

(* What each protocol's stop or go does to the three notions of it, and    *)
(* what it sends.                                                          *)
LEMMA PowerCases ==
    ASSUME trk \in Tracks, ThrottlePower
    PROVE  \E x \in Powers, z \in BOOLEAN, t \in Tracks :
              /\ Power(x, z, t)
              /\ z = (x # "csNormal") /\ (t.power /\ t.running) = (x = "csNormal")
              /\ Send(RunCmd(x = "csNormal"))
<1>1. /\ TrackOn \in Tracks /\ TrackOn.power = TRUE /\ TrackOn.running = TRUE
      /\ TrackOff \in Tracks /\ TrackOff.power = FALSE
  BY DEF TrackOn, TrackOff, Tracks
<1>2. /\ [trk EXCEPT !.running = FALSE] \in Tracks
      /\ [trk EXCEPT !.running = FALSE].running = FALSE
  BY DEF Tracks
<1>3. /\ Powers = {"csNormal", "csEmergencyStop", "csTrackVoltageOff"}
      /\ RunCmd(TRUE) = Cmd("go", NoId) /\ RunCmd(FALSE) = Cmd("stop", NoId)
  BY DEF Powers, RunCmd
<1>4. ASSUME NEW p \in Powers, FromXNet(p)
      PROVE  \E t \in Tracks : /\ Power(p, p # "csNormal", t)
                               /\ (t.power /\ t.running) = (p = "csNormal")
                               /\ Send(RunCmd(p = "csNormal"))
  <2>1. CASE p = "csNormal"
    BY <1>1, <1>3, <1>4, <2>1 DEF FromXNet
  <2>2. CASE p # "csNormal"
    BY <1>1, <1>3, <1>4, <2>2 DEF FromXNet
  <2> QED
    BY <2>1, <2>2
<1>5. ASSUME NEW stop \in BOOLEAN, FromZ21(stop)
      PROVE  \/ Power("csNormal", FALSE, TrackOn) /\ Send(RunCmd(TRUE))
             \/ Power("csEmergencyStop", TRUE, TrackOff) /\ Send(RunCmd(FALSE))
  BY <1>3, <1>5 DEF FromZ21, AllStopped, AllResumed
<1>6. ASSUME NEW opcode \in {"GPON", "GPOFF", "IDLE"}, FromLocoNet(opcode)
      PROVE  \/ Power("csNormal", FALSE, TrackOn) /\ Send(RunCmd(TRUE))
             \/ Power("csEmergencyStop", TRUE, TrackOff) /\ Send(RunCmd(FALSE))
             \/ /\ Power("csEmergencyStop", TRUE, [trk EXCEPT !.running = FALSE])
                /\ Send(RunCmd(FALSE))
  BY <1>3, <1>6 DEF FromLocoNet, AllStopped, AllResumed
<1>7. CASE \E p \in Powers : FromXNet(p)
  BY <1>4, <1>7
<1> DEFINE Q(x, z, t) == /\ Power(x, z, t)
                        /\ z = (x # "csNormal") /\ (t.power /\ t.running) = (x = "csNormal")
                        /\ Send(RunCmd(x = "csNormal"))
<1>8. ASSUME Power("csNormal", FALSE, TrackOn), Send(RunCmd(TRUE))
      PROVE  \E x \in Powers, z \in BOOLEAN, t \in Tracks : Q(x, z, t)
  <2>1. Q("csNormal", FALSE, TrackOn)
    BY <1>1, <1>8
  <2> QED
    BY <1>1, <1>3, <2>1
<1>9. ASSUME NEW t \in Tracks, ~(t.power /\ t.running),
             Power("csEmergencyStop", TRUE, t), Send(RunCmd(FALSE))
      PROVE  \E x \in Powers, z \in BOOLEAN, u \in Tracks : Q(x, z, u)
  <2>1. Q("csEmergencyStop", TRUE, t)
    BY <1>9
  <2> QED
    BY <1>3, <2>1
<1>10. CASE \E stop \in BOOLEAN : FromZ21(stop)
  BY <1>1, <1>5, <1>8, <1>9, <1>10
<1>11. CASE \E opcode \in {"GPON", "GPOFF", "IDLE"} : FromLocoNet(opcode)
  BY <1>1, <1>2, <1>6, <1>8, <1>9, <1>11
<1> QED
  BY <1>7, <1>10, <1>11 DEF ThrottlePower

LEMMA RunCmdType ==
    \A g \in BOOLEAN : RunCmd(g) \in Commands
  BY CommandTypes DEF RunCmd

LEMMA PowerActTypes ==
    ASSUME Tables, ThrottlePower
    PROVE  Tables'
<1>1. /\ Operate /\ OnlyThrottle /\ UNCHANGED <<known, shown>>
  BY DEF ThrottlePower
<1>2. trk \in Tracks
  BY TablesParts DEF PowerType
<1>3. PICK x \in Powers, z \in BOOLEAN, t \in Tracks :
         Power(x, z, t) /\ Send(RunCmd(x = "csNormal"))
  BY <1>2, PowerCases
<1>4. toEcos' \in Seq(Commands)
  BY <1>3, RunCmdType, SendTypes
<1>5. PowerType'
  BY <1>3 DEF Power, PowerType
<1> QED
  BY <1>1, <1>4, <1>5, ThrottleTypes, TablesParts, TablesNext

LEMMA StationTypes ==
    ASSUME Tables, StationStep
    PROVE  Tables'
<1>1. /\ toEcos # <<>> /\ toEcos' = Tail(toEcos)
      /\ station' = Processed(Head(toEcos))
      /\ fromEcos' = fromEcos \o Answers(Head(toEcos))
      /\ UNCHANGED <<connected, bridge, edited, current, ops, edits, faults>>
  BY DEF StationStep
<1>2. toEcos' \in Seq(Commands) /\ Head(toEcos) \in Commands
  BY <1>1, TablesParts
<1>3. PICK c \in Commands : c = Head(toEcos)
  BY <1>2
<1>4. station' \in Stations /\ fromEcos' \in Seq(Messages)
  BY <1>1, <1>3, ProcessedType, TablesParts
<1>5. Counters' /\ PowerType' /\ UNCHANGED <<connected, reading, map, known, shown, edited>>
  BY <1>1, TablesParts DEF Counters, PowerType, bridge, power
<1> QED
  BY <1>2, <1>4, <1>5, TablesParts, TablesNext

LEMMA OperatorTypes ==
    ASSUME Tables, Operate, station' \in Stations, fromEcos' \in Seq(Messages),
           UNCHANGED <<connected, bridge, toEcos, edited, current, edits, faults>>
    PROVE  Tables'
<1>1. Counters' /\ PowerType' /\ UNCHANGED <<reading, map, known, shown>>
  BY SMTT(30), TablesParts, LayoutAssumption DEF Operate, Counters, PowerType, bridge, power
<1> QED
  BY <1>1, TablesParts, TablesNext

LEMMA OperatorThrowsTypes ==
    ASSUME Tables, NEW a \in Addr, NEW d \in Positions, OperatorThrows(a, d)
    PROVE  Tables'
<1>1. Events(a, d) \in Seq(Messages)
  BY EventsListed DEF Tables
<1>2. [station EXCEPT !.pos = Thrown(a, d)] \in Stations
  BY TablesParts, ThrownType
<1>3. fromEcos' \in Seq(Messages)
  BY <1>1, TablesParts DEF OperatorThrows
<1> QED
  BY <1>2, <1>3, OperatorTypes DEF OperatorThrows

LEMMA OperatorRunsTypes ==
    ASSUME Tables, OperatorRuns
    PROVE  Tables'
<1>1. station \in Stations
  BY TablesParts
<1>2. (~station.go) \in BOOLEAN
  <2>1. station.go = TRUE \/ station.go = FALSE
    BY <1>1 DEF Stations
  <2> QED
    BY <2>1
<1>3. PICK g \in BOOLEAN : g = ~station.go
  BY <1>2
<1>4. station' = [station EXCEPT !.go = g]
  BY <1>3 DEF OperatorRuns
<1>5. station' \in Stations
  BY <1>1, <1>4 DEF Stations
<1>6. fromEcos' = fromEcos \/ fromEcos' = Append(fromEcos, Run(g))
  BY <1>3 DEF OperatorRuns
<1>7. fromEcos' \in Seq(Messages)
  BY SMTT(30), <1>6, TablesParts, MessageTypes
<1> QED
  BY <1>5, <1>7, OperatorTypes DEF OperatorRuns

LEMMA ReaddressTypes ==
    ASSUME Tables, NEW i \in Ids, NEW a \in Addr, Readdress(i, a)
    PROVE  Tables'
<1>1. station \in Stations
  BY TablesParts
<1>2. station' = [station EXCEPT !.addrOf = [station.addrOf EXCEPT ![i] = a]]
  BY <1>1 DEF Readdress, Stations
<1>3. /\ station.addrOf \in [Ids -> Addr] /\ station.addrOf[i] \in Addr
      /\ [station.addrOf EXCEPT ![i] = a] \in [Ids -> Addr]
  BY <1>1 DEF Stations
<1>4. station' \in Stations
  BY <1>1, <1>2, <1>3 DEF Stations
<1>5. edited' \subseteq Addr
  BY <1>3, TablesParts DEF Readdress
<1>6. Counters' /\ PowerType'
  <2>1. /\ edits < MaxEdits /\ edits' = edits + 1 /\ current' = FALSE
        /\ UNCHANGED <<bridge, ops, faults>>
    BY DEF Readdress
  <2>2. MaxEdits \in Nat
    BY LayoutAssumption
  <2>3. Counters /\ PowerType
    BY TablesParts
  <2>4. Counters'
    <3>1. current' \in BOOLEAN
      BY <2>1
    <3>2. edits' \in 0 .. MaxEdits /\ UNCHANGED <<ops, faults>>
      BY <2>1, <2>2, <2>3 DEF Counters
    <3> QED
      BY <2>3, <3>1, <3>2 DEF Counters
  <2>5. PowerType'
    BY <2>1, <2>3 DEF PowerType, bridge, power
  <2> QED
    BY <2>4, <2>5
<1>7. UNCHANGED <<connected, reading, map, known, shown, toEcos, fromEcos>>
  BY DEF Readdress, bridge
<1> QED
  BY <1>4, <1>5, <1>6, <1>7, TablesParts, TablesNext

LEMMA ConnectTypes ==
    ASSUME Tables, Connect
    PROVE  Tables'
<1>1. /\ connected' = TRUE /\ map' = Unsubscribed(map) /\ toEcos' = Greeting /\ current' = TRUE
      /\ UNCHANGED <<reading, known, shown, power, fromEcos, station, edited, ops, edits, faults>>
  BY DEF Connect
<1>2. Greeting \in Seq(Commands)
  BY CommandTypes DEF Greeting
<1>3. /\ map' \in Seq(Entries) /\ Len(map') = Len(map)
      /\ \A j \in 1 .. Len(map) : map'[j].addr = map[j].addr
  BY <1>1, TablesParts, UnsubscribedGets
<1>4. Counters' /\ PowerType'
  BY <1>1, TablesParts DEF Counters, PowerType, power
<1>5. \A j, k \in 1 .. Len(map') : map'[j].addr = map'[k].addr => j = k
  BY <1>3, TablesParts
<1> QED
  BY <1>1, <1>2, <1>3, <1>4, <1>5, TablesParts, TablesNext

LEMMA LoseTypes ==
    ASSUME Tables, LoseConnection
    PROVE  Tables'
<1>1. station \in Stations
  BY TablesParts
<1>2. station' \in Stations
  BY <1>1 DEF LoseConnection, Stations
<1>3. /\ connected' = FALSE /\ toEcos' = <<>> /\ fromEcos' = <<>>
      /\ UNCHANGED <<reading, map, known, shown, edited>>
  BY DEF LoseConnection, bridge
<1>4. Counters' /\ PowerType'
  BY SMTT(30), TablesParts, LayoutAssumption DEF LoseConnection, Counters, PowerType, bridge, power
<1>5. toEcos' \in Seq(Commands) /\ fromEcos' \in Seq(Messages)
  BY <1>3
<1> QED
  BY <1>2, <1>3, <1>4, <1>5, TablesParts, TablesNext

LEMMA EndPassTypes ==
    ASSUME Tables, EndPass
    PROVE  Tables'
<1>1. /\ reading' = FALSE /\ map' = Subscribed(map)
      /\ toEcos' = toEcos \o SubscribeStep(map)
      /\ UNCHANGED <<connected, known, shown, power, fromEcos, station, edited, current,
                     ops, edits, faults>>
  BY DEF EndPass
<1>2. /\ map' \in Seq(Entries) /\ Len(map') = Len(map)
      /\ \A j \in 1 .. Len(map) : map'[j].addr = map[j].addr
      /\ SubscribeStep(map) \in Seq(Commands)
  BY <1>1, TablesParts, SubscribedGets
<1>3. toEcos' \in Seq(Commands)
  BY <1>1, <1>2, TablesParts
<1>4. Counters' /\ PowerType'
  BY <1>1, TablesParts DEF Counters, PowerType, power
<1>5. \A j, k \in 1 .. Len(map') : map'[j].addr = map'[k].addr => j = k
  BY <1>2, TablesParts
<1> QED
  BY <1>1, <1>2, <1>3, <1>4, <1>5, TablesParts, TablesNext

LEMMA TablesStep == Tables /\ [Next]_vars => Tables'
<1> SUFFICES ASSUME Tables, [Next]_vars
             PROVE  Tables'
  OBVIOUS
<1>1. CASE UNCHANGED vars
  <2>1. /\ UNCHANGED <<connected, reading, map, known, shown, toEcos, fromEcos, station, edited>>
        /\ Counters' /\ PowerType'
    BY <1>1, TablesParts DEF vars, bridge, power, Counters, PowerType
  <2> QED
    BY <2>1, TablesParts, TablesNext
<1>2. ASSUME NEW a \in Addr, NEW d \in Positions, ThrottleThrows(a, d) \/ OperatorThrows(a, d)
      PROVE  Tables'
  BY <1>2, ThrowsTypes, OperatorThrowsTypes
<1> QED
  BY <1>1, <1>2, ReadTypes, EndPassTypes, ConnectTypes, LoseTypes, StationTypes, PowerActTypes,
     OperatorRunsTypes, AsksTypes, ReaddressTypes
     DEF Next

(* Both tables stay within their places, with one entry per address.       *)
THEOREM TablesHold == Spec => []Tables
  BY InitTables, TablesStep, PTL DEF Spec

(* Every variable keeps its type, both tables their number of places:      *)
(* handling a reply, a throttle's command or a reconnect never stores more *)
(* than MAX_KNOWN_ACCESSORIES or MAX_ECOS_ACCESSORIES.                     *)
THEOREM TypeCorrect == Spec => []TypeOK
<1>1. Tables => TypeOK
  BY DEF Tables
<1> QED
  BY <1>1, TablesHold, PTL

-----------------------------------------------------------------------------
(* The invariants.  An address is clean if no two objects ever shared it   *)
(* and none left it or was given it.                                       *)
Clean(a) == a \notin edited

\* A clean address has one object, and the map and what ECoS says of its
\* objects do not mistake it.
Sound(i, a) == (Clean(a) \/ Clean(station.addrOf[i])) => station.addrOf[i] = a
MapSound ==
    /\ \A j \in 1 .. Len(map) : Sound(map[j].id, map[j].addr)
    /\ \A i \in Ids, a \in Addr : Has(fromEcos, {Object(i, a)}) => Sound(i, a)
    /\ \A i, j \in Ids :
          (Clean(station.addrOf[i]) /\ station.addrOf[i] = station.addrOf[j]) => i = j

\* What the cache knows, all protocols show.
ShownSound ==
    \A a \in Addr, p \in Protocols : GetKnown(a) = Unknown \/ shown[p][a] = GetKnown(a)

\* A turnout without an entry is about to be listed; one with an entry is about
\* to be subscribed, or its position to be asked for; else the last event under
\* way has its position, and if there is none it is known already, or somebody
\* just threw it.
HasEntry(i) == \E j \in 1 .. Len(map) : map[j].id = i
ObjectsOf(i) == {Object(i, a) : a \in Addr}
ObjectDue(i) ==
    \/ Has(toEcos, {Cmd("query", NoId)})
    \/ Has(fromEcos, ObjectsOf(i))
    \/ ~HasPlace(map)
WalkDue(i) == \E j \in 1 .. Len(map) : map[j].id = i /\ ~map[j].subscribed
PositionDue(i) == InOrder(toEcos, Cmd("view", i), Cmd("get", i), i \in station.viewed)
StatesOf(i) == {State(i, d) : d \in Positions}
Others(a, x) == {Switch(a, d) : d \in Positions \ {x}}
Holds(a, x) == GetKnown(a) = x \/ (GetKnown(a) = Unknown /\ ~HasRoom(known))
Following(i, a, x) ==
    /\ i \in station.viewed
    /\ LastIs(fromEcos, StatesOf(i), State(i, x))
    /\ Has(fromEcos, StatesOf(i)) \/ Holds(a, x) \/ Has(toEcos, Others(a, x))
Follows(i) ==
    \E a \in Addr, x \in Positions :
       a = station.addrOf[i] /\ x = station.pos[i] /\ Following(i, a, x)
TurnoutSound(i) ==
    IF ~HasEntry(i) THEN ObjectDue(i)
    ELSE WalkDue(i) \/ PositionDue(i) \/ Follows(i)
TurnoutsSound == connected => \A i \in Ids : Clean(station.addrOf[i]) => TurnoutSound(i)

\* The same for whether the layout runs.
RunsAs(g) ==
    /\ (xnetPower = "csNormal") = g
    /\ z21Stop = ~g
    /\ (trk.power /\ trk.running) = g
Runs == {Run(TRUE), Run(FALSE)}
StatusDue == InOrder(toEcos, Cmd("watch", NoId), Cmd("status", NoId), station.watched)
RunSound ==
    connected =>
       \/ StatusDue
       \/ /\ station.watched
          /\ LastIs(fromEcos, Runs, Run(station.go))
          /\ Has(fromEcos, Runs) \/ RunsAs(station.go) \/ Has(toEcos, {RunCmd(~station.go)})

LEMMA HasTail ==
    ASSUME NEW T, NEW q \in Seq(T), q # <<>>, NEW S, Has(Tail(q), S)
    PROVE  Has(q, S)
<1>1. \A k \in 1 .. Len(Tail(q)) : k + 1 \in 1 .. Len(q) /\ Tail(q)[k] = q[k + 1]
  BY Taken
<1> QED
  BY <1>1 DEF Has

LEMMA HasHead ==
    ASSUME NEW T, NEW q \in Seq(T), q # <<>>, NEW S, Head(q) \in S
    PROVE  Has(q, S)
<1>1. Head(q) = q[1] /\ Len(q) \in Nat \ {0}
  BY Taken
<1> QED
  BY <1>1 DEF Has

\* What is in a queue that was appended to.
LEMMA HasEither ==
    ASSUME NEW T, NEW q \in Seq(T), NEW e \in Seq(T), NEW S, Has(q \o e, S)
    PROVE  Has(q, S) \/ Has(e, S)
<1> DEFINE r == q \o e
<1>1. \A k \in 1 .. Len(r) : \/ k \in 1 .. Len(q) /\ r[k] = q[k]
                             \/ k - Len(q) \in 1 .. Len(e) /\ r[k] = e[k - Len(q)]
  BY Appended
<1> HIDE DEF r
<1> QED
  BY <1>1 DEF Has, r

\* Messages of different kinds differ.
LEMMA Kinds ==
    /\ \A i, j, a, d : Object(i, a) # State(j, d)
    /\ \A i, a : Object(i, a) \notin Runs
    /\ \A i, d : State(i, d) \notin Runs
    /\ \A i, j, a, b : Object(i, a) = Object(j, b) => (i = j /\ a = b)
    /\ \A i, j, d, e : State(i, d) = State(j, e) => (i = j /\ d = e)
    /\ Run(TRUE) # Run(FALSE)
<1>1. \A i, a : /\ Object(i, a).kind = "object"
               /\ Object(i, a).id = i /\ Object(i, a).addr = a
  BY DEF Object
<1>2. \A i, d : State(i, d).kind = "state" /\ State(i, d).id = i /\ State(i, d).pos = d
  BY DEF State
<1>3. Run(TRUE).kind = "go" /\ Run(FALSE).kind = "stop"
  BY DEF Run
<1>4. /\ \A i, j, a, d : Object(i, a) # State(j, d)
      /\ Run(TRUE) # Run(FALSE)
  <2>1. ASSUME NEW i, NEW j, NEW a, NEW d, Object(i, a) = State(j, d)
        PROVE  FALSE
    BY <1>1, <1>2, <2>1
  <2> QED
    BY <1>3, <2>1
<1>5. /\ \A i, a : Object(i, a) \notin Runs
      /\ \A i, d : State(i, d) \notin Runs
  <2>1. ASSUME NEW i, NEW a, NEW m \in Runs, Object(i, a) = m
        PROVE  FALSE
    <3>1. m.kind = "object"
      BY <1>1, <2>1
    <3> QED
      BY <1>3, <3>1 DEF Runs
  <2>2. ASSUME NEW i, NEW d, NEW m \in Runs, State(i, d) = m
        PROVE  FALSE
    <3>1. m.kind = "state"
      BY <1>2, <2>2
    <3> QED
      BY <1>3, <3>1 DEF Runs
  <2> QED
    BY <2>1, <2>2
<1>6. ASSUME NEW i, NEW j, NEW a, NEW b, Object(i, a) = Object(j, b)
      PROVE  i = j /\ a = b
  BY <1>1, <1>6
<1>7. ASSUME NEW i, NEW j, NEW d, NEW e, State(i, d) = State(j, e)
      PROVE  i = j /\ d = e
  BY <1>2, <1>7
<1> QED
  BY <1>4, <1>5, <1>6, <1>7

-----------------------------------------------------------------------------
(* The map.                                                                *)
LEMMA MapSoundKept ==
    ASSUME MapSound, station'.addrOf = station.addrOf, edited' = edited,
           \A j \in 1 .. Len(map') : Sound(map'[j].id, map'[j].addr),
           \A i \in Ids, a \in Addr : Has(fromEcos', {Object(i, a)}) => Sound(i, a)
    PROVE  MapSound'
  BY DEF MapSound, Sound, Clean

LEMMA ReadMap ==
    ASSUME Tables, MapSound, ReadReply
    PROVE  MapSound'
<1>1. /\ UNCHANGED <<station, edited>>
      /\ fromEcos # <<>> /\ fromEcos' = Tail(fromEcos) /\ HandleReply(Head(fromEcos))
  BY DEF ReadReply
<1>2. fromEcos \in Seq(Messages) /\ Head(fromEcos) \in Messages
  BY <1>1, TablesParts
<1>3. \A i \in Ids, a \in Addr : Has(fromEcos', {Object(i, a)}) => Sound(i, a)
  BY <1>1, <1>2, HasTail DEF MapSound
<1>4. CASE map' = map
  BY <1>1, <1>3, <1>4, MapSoundKept DEF MapSound
<1>5. CASE map' # map
  <2>1. PICK i \in Ids, a \in Addr : Head(fromEcos) = Object(i, a)
    <3>1. PICK m \in Messages : m = Head(fromEcos)
      BY <1>2
    <3>2. m.kind = "object"
      BY <1>1, <1>5, <3>1 DEF HandleReply
    <3>3. m \in [kind : {"object"}, id : Ids, addr : Addr]
      BY <3>2 DEF Messages
    <3>4. m = Object(m.id, m.addr) /\ m.id \in Ids /\ m.addr \in Addr
      BY <3>3 DEF Object
    <3> QED
      BY <3>1, <3>4
  <2>2. map' = AddEntry(map, a, i)
    BY <1>1, <2>1 DEF HandleReply, Object
  <2>3. Sound(i, a)
    <3>1. Has(fromEcos, {Object(i, a)})
      BY <1>1, <1>2, <2>1, HasHead
    <3> QED
      BY <3>1 DEF MapSound
  <2>4. \A j \in 1 .. Len(map') : Sound(map'[j].id, map'[j].addr)
    <3>1. \A j \in 1 .. Len(map') :
             /\ map'[j].addr = a => map'[j].id = i
             /\ map'[j].addr # a => j \in 1 .. Len(map)
      BY <2>2, TablesParts, AddEntryGets
    <3>2. \A j \in 1 .. Len(map) :
             map'[j].addr = map[j].addr /\ (map[j].addr # a => map'[j] = map[j])
      BY <2>2, TablesParts, AddEntryGets
    <3> QED
      BY <2>3, <3>1, <3>2 DEF MapSound
  <2> QED
    BY <1>1, <1>3, <2>4, MapSoundKept
<1> QED
  BY <1>4, <1>5

LEMMA AnswersSound ==
    ASSUME Tables, NEW c \in Commands, NEW i \in Ids, NEW a \in Addr,
           Has(Answers(c), {Object(i, a)})
    PROVE  a = station.addrOf[i]
<1>1. PICK k \in 1 .. Len(Answers(c)) : Answers(c)[k] = Object(i, a)
  BY DEF Has
<1>2. ASSUME NEW m, Answers(c) = <<m>>
      PROVE  m = Object(i, a)
  BY <1>1, <1>2
<1>3. Answers(c) # <<>>
  BY <1>1
<1>4. CASE \E j \in Ids : c \in {Cmd("view", j), Cmd("get", j)}
  <2>1. PICK j \in Ids : c \in {Cmd("view", j), Cmd("get", j)}
    BY <1>4
  <2>2. Answers(c) = <<>> \/ Answers(c) = <<State(j, station.pos[j])>>
    BY <2>1, Processing
  <2>3. State(j, station.pos[j]) = Object(i, a)
    BY <1>2, <1>3, <2>2
  <2> QED
    BY <2>3, Kinds
<1>5. CASE c \in {Cmd("watch", NoId), Cmd("status", NoId)}
  <2>1. PICK g \in BOOLEAN : g = station.go
    BY TablesParts DEF Stations
  <2>2. Run(g) \in Runs
    BY DEF Runs
  <2>3. Answers(c) = <<>> \/ Answers(c) = <<Run(g)>>
    BY <1>5, <2>1, Processing
  <2>4. Run(g) = Object(i, a)
    BY <1>2, <1>3, <2>3
  <2> QED
    BY <2>2, <2>4, Kinds
<1>6. CASE c = Cmd("query", NoId)
  <2>1. Answers(c) = Objects
    BY <1>6, Processing
  <2>2. PICK j \in Ids : Objects[k] = Object(j, station.addrOf[j])
    BY <1>1, <2>1, ObjectsListed DEF Tables
  <2>3. Object(j, station.addrOf[j]) = Object(i, a)
    BY <1>1, <2>1, <2>2
  <2>4. j = i /\ station.addrOf[j] = a
    BY <2>3, Kinds
  <2> QED
    BY <2>4
<1>7. CASE \E g \in BOOLEAN : c = RunCmd(g)
  <2>1. PICK g \in BOOLEAN : c = RunCmd(g)
    BY <1>7
  <2>2. Run(g) \in Runs
    BY DEF Runs
  <2>3. Answers(c) = <<>> \/ Answers(c) = <<Run(g)>>
    BY <2>1, Processing
  <2>4. Run(g) = Object(i, a)
    BY <1>2, <1>3, <2>3
  <2> QED
    BY <2>2, <2>4, Kinds
<1>8. CASE \E b \in Addr, d \in Positions : c = Switch(b, d)
  <2>1. PICK b \in Addr, d \in Positions : c = Switch(b, d)
    BY <1>8
  <2>2. Answers(c) = Events(b, d)
    BY <2>1, Processing
  <2>3. PICK j \in Ids : Events(b, d)[k] = State(j, d)
    BY <1>1, <2>2, EventsListed DEF Tables, With
  <2>4. State(j, d) = Object(i, a)
    BY <1>1, <2>2, <2>3
  <2> QED
    BY <2>4, Kinds
<1> QED
  BY <1>4, <1>5, <1>6, <1>7, <1>8, CommandKinds

LEMMA StationMap ==
    ASSUME Tables, MapSound, StationStep
    PROVE  MapSound'
<1>1. /\ toEcos # <<>> /\ station' = Processed(Head(toEcos))
      /\ fromEcos' = fromEcos \o Answers(Head(toEcos))
      /\ UNCHANGED <<map, edited>>
  BY DEF StationStep, bridge
<1>2. PICK c \in Commands : c = Head(toEcos)
  BY <1>1, TablesParts
<1>3. station'.addrOf = station.addrOf
  BY <1>1, <1>2, ProcessedKeeps
<1>4. \A i \in Ids, a \in Addr : Has(fromEcos', {Object(i, a)}) => Sound(i, a)
  <2>1. SUFFICES ASSUME NEW i \in Ids, NEW a \in Addr, Has(fromEcos', {Object(i, a)})
                 PROVE  Sound(i, a)
    OBVIOUS
  <2>2. fromEcos \in Seq(Messages) /\ Answers(c) \in Seq(Messages)
    BY TablesParts, ProcessedType
  <2>3. CASE Has(fromEcos, {Object(i, a)})
    BY <2>3 DEF MapSound
  <2>4. CASE Has(Answers(c), {Object(i, a)})
    BY <2>4, AnswersSound DEF Sound
  <2> QED
    BY <1>1, <1>2, <2>1, <2>2, <2>3, <2>4, HasEither
<1> QED
  BY <1>1, <1>3, <1>4, MapSoundKept DEF MapSound

LEMMA ReaddressMap ==
    ASSUME Tables, MapSound, NEW k \in Ids, NEW b \in Addr, Readdress(k, b)
    PROVE  MapSound'
<1>1. /\ station.addrOf \in [Ids -> Addr] /\ station \in Stations
      /\ map \in Seq(Entries)
  BY TablesParts DEF Stations
<1>2. /\ UNCHANGED <<map, fromEcos>> /\ edited' = edited \cup {b, station.addrOf[k]}
      /\ station'.addrOf = [station.addrOf EXCEPT ![k] = b]
  BY <1>1 DEF Readdress, bridge, Stations
<1>3. station'.addrOf[k] = b /\ \A i \in Ids \ {k} : station'.addrOf[i] = station.addrOf[i]
  BY <1>1, <1>2
<1>4. ASSUME NEW i \in Ids, NEW a \in Addr, Sound(i, a)
      PROVE  Sound(i, a)'
  <2>1. CASE i = k
    BY <1>2, <1>3, <1>4, <2>1 DEF Sound, Clean
  <2>2. CASE i # k
    BY <1>2, <1>3, <1>4, <2>2 DEF Sound, Clean
  <2> QED
    BY <2>1, <2>2
<1>5. \A j \in 1 .. Len(map) : map[j].id \in Ids /\ map[j].addr \in Addr
  <2>1. \A j \in 1 .. Len(map) : map[j] \in Entries
    BY <1>1
  <2> QED
    BY <2>1 DEF Entries
<1>6. (\A j \in 1 .. Len(map) : Sound(map[j].id, map[j].addr))'
  <2>1. SUFFICES ASSUME NEW j \in 1 .. Len(map)
                 PROVE  Sound(map[j].id, map[j].addr)'
    BY <1>2
  <2>2. PICK i \in Ids, a \in Addr : i = map[j].id /\ a = map[j].addr
    BY <1>5
  <2>3. Sound(i, a)'
    BY <1>4, <2>2 DEF MapSound
  <2> QED
    BY <1>2, <2>2, <2>3 DEF Sound, Clean
<1>7. (\A i \in Ids, a \in Addr : Has(fromEcos, {Object(i, a)}) => Sound(i, a))'
  BY <1>2, <1>4 DEF MapSound, Has, Object
<1>8. (\A i, j \in Ids :
          (Clean(station.addrOf[i]) /\ station.addrOf[i] = station.addrOf[j]) => i = j)'
  BY <1>2, <1>3 DEF MapSound, Clean
<1> QED
  BY <1>6, <1>7, <1>8 DEF MapSound

LEMMA MapSoundStep ==
    ASSUME Tables, MapSound, [Next]_vars
    PROVE  MapSound'
<1>0. fromEcos \in Seq(Messages) /\ map \in Seq(Entries)
  BY TablesParts
\* What leaves map and addresses alone, and appends at most other messages.
<1>1. ASSUME UNCHANGED <<map, edited>>, station'.addrOf = station.addrOf,
             \A i \in Ids, a \in Addr :
                Has(fromEcos', {Object(i, a)}) => Has(fromEcos, {Object(i, a)})
      PROVE  MapSound'
  BY <1>1, MapSoundKept DEF MapSound
\* What only marks entries of the map.
<1>2. ASSUME UNCHANGED <<fromEcos, station, edited>>, Len(map') = Len(map),
             \A j \in 1 .. Len(map) : map'[j].addr = map[j].addr /\ map'[j].id = map[j].id
      PROVE  MapSound'
  BY <1>2, MapSoundKept DEF MapSound
<1>3. ASSUME UNCHANGED <<map, edited, station, fromEcos>>
      PROVE  MapSound'
  BY <1>1, <1>3
<1>4. CASE UNCHANGED vars
  BY <1>3, <1>4 DEF vars, bridge
<1>5. CASE EndPass
  BY <1>0, <1>2, <1>5, SubscribedGets DEF EndPass
<1>6. CASE Connect
  BY <1>0, <1>2, <1>6, UnsubscribedGets DEF Connect
<1>7. CASE LoseConnection
  <2>1. station'.addrOf = station.addrOf
    BY <1>7, TablesParts DEF LoseConnection, Stations
  <2>2. ASSUME NEW S
        PROVE  ~Has(fromEcos', S)
    BY <1>7 DEF LoseConnection, Has
  <2> QED
    BY <1>1, <1>7, <2>1, <2>2 DEF LoseConnection, bridge
<1>8. CASE ThrottlePower
  BY <1>3, <1>8 DEF ThrottlePower, OnlyThrottle
<1>9. CASE OperatorRuns
  <2>1. station'.addrOf = station.addrOf
    BY <1>9, TablesParts DEF OperatorRuns, Stations
  <2>2. ASSUME NEW i \in Ids, NEW a \in Addr, Has(fromEcos', {Object(i, a)})
        PROVE  Has(fromEcos, {Object(i, a)})
    <3>1. CASE fromEcos' = fromEcos
      BY <2>2, <3>1
    <3>2. CASE fromEcos' = Append(fromEcos, Run(~station.go))
      <4>1. PICK m \in Runs : m = Run(~station.go)
        BY TablesParts DEF Stations, Runs
      <4>2. m \in Messages
        BY MessageTypes DEF Runs
      <4>3. fromEcos' = fromEcos \o <<m>> /\ <<m>> \in Seq(Messages)
        BY <1>0, <3>2, <4>1, <4>2
      <4>4. ~Has(<<m>>, {Object(i, a)})
        <5>1. m # Object(i, a)
          BY Kinds
        <5> QED
          BY <5>1 DEF Has
      <4> QED
        BY <1>0, <2>2, <4>3, <4>4, HasEither
    <3> QED
      BY <1>9, <3>1, <3>2 DEF OperatorRuns
  <2> QED
    BY <1>1, <1>9, <2>1, <2>2 DEF OperatorRuns, bridge
<1>10. ASSUME NEW a \in Addr, NEW d \in Positions, ThrottleThrows(a, d)
       PROVE  MapSound'
  BY <1>3, <1>10 DEF ThrottleThrows, OnlyThrottle
<1>11. ASSUME NEW b \in Addr, NEW d \in Positions, OperatorThrows(b, d)
       PROVE  MapSound'
  <2>1. station'.addrOf = station.addrOf
    BY <1>11, TablesParts DEF OperatorThrows, Stations
  <2>2. Events(b, d) \in Seq(Messages)
    BY EventsListed DEF Tables
  <2>3. ASSUME NEW i \in Ids, NEW a \in Addr
        PROVE  ~Has(Events(b, d), {Object(i, a)})
    <3>1. SUFFICES ASSUME NEW k \in 1 .. Len(Events(b, d))
                   PROVE  Events(b, d)[k] # Object(i, a)
      BY DEF Has
    <3>2. PICK j : Events(b, d)[k] = State(j, d)
      BY EventsListed DEF Tables
    <3> QED
      BY <3>2, Kinds
  <2>4. fromEcos' = fromEcos \o Events(b, d)
    BY <1>11 DEF OperatorThrows
  <2>5. \A i \in Ids, a \in Addr : Has(fromEcos', {Object(i, a)}) => Has(fromEcos, {Object(i, a)})
    BY <1>0, <2>2, <2>3, <2>4, HasEither
  <2> QED
    BY <1>1, <1>11, <2>1, <2>5 DEF OperatorThrows, bridge
<1>12. ASSUME NEW p \in Protocols, NEW a \in Addr, ThrottleAsks(p, a)
       PROVE  MapSound'
  BY <1>3, <1>12 DEF ThrottleAsks, OnlyThrottle
<1> QED
  BY <1>4, <1>5, <1>6, <1>7, <1>8, <1>9, <1>10, <1>11, <1>12, ReadMap, StationMap, ReaddressMap
     DEF Next

LEMMA InitMap == Init => MapSound
<1> SUFFICES ASSUME Init
             PROVE  MapSound
  OBVIOUS
<1>1. map = <<>> /\ fromEcos = <<>>
  BY DEF Init
<1>2. station.addrOf = FirstAddr
  BY DEF Init
<1>3. \A i, j \in Ids : (Clean(station.addrOf[i]) /\ station.addrOf[i] = station.addrOf[j]) => i = j
  BY <1>2, LayoutAssumption DEF Init, Clean
<1> QED
  BY <1>1, <1>3 DEF MapSound, Has

-----------------------------------------------------------------------------
(* The displays.                                                           *)
LEMMA ToldShows ==
    ASSUME Tables, ShownSound, NEW a \in Addr, NEW d \in Positions, Told(a, d)
    PROVE  ShownSound'
<1>1. shown \in Displays
  BY TablesParts
<1>2. /\ \A b \in Addr : b # a => GetKnown(b)' = GetKnown(b)
      /\ GetKnown(a)' = d \/ GetKnown(a)' = Unknown
  BY TablesParts, SetKnownGets DEF Told
<1>3. \A p \in Protocols, b \in Addr : shown'[p][b] = IF b = a THEN d ELSE shown[p][b]
  BY <1>1 DEF Told, Displays
<1>4. SUFFICES ASSUME NEW b \in Addr, NEW p \in Protocols
               PROVE  (GetKnown(b) = Unknown \/ shown[p][b] = GetKnown(b))'
  BY DEF ShownSound
<1>5. CASE b = a
  BY <1>2, <1>3, <1>5
<1>6. CASE b # a
  BY <1>2, <1>3, <1>6 DEF ShownSound
<1> QED
  BY <1>5, <1>6

LEMMA ShownSoundStep ==
    ASSUME Tables, ShownSound, [Next]_vars
    PROVE  ShownSound'
<1>1. ASSUME UNCHANGED <<known, shown>>
      PROVE  ShownSound'
  BY <1>1 DEF ShownSound, GetKnown
<1>2. CASE ReadReply
  <2>1. fromEcos # <<>> /\ HandleReply(Head(fromEcos))
    BY <1>2 DEF ReadReply
  <2>2. PICK m \in Messages : m = Head(fromEcos)
    BY <2>1, TablesParts
  <2>3. CASE UNCHANGED <<known, shown>>
    BY <1>1, <2>3
  <2>4. CASE ~UNCHANGED <<known, shown>>
    <3>1. /\ m.kind = "state" /\ EntryOf(map, m.id) # 0
          /\ Told(map[EntryOf(map, m.id)].addr, m.pos)
      BY <2>1, <2>2, <2>4 DEF HandleReply
    <3>2. m.pos \in Positions
      BY <2>2, <3>1 DEF Messages
    <3>3. map[EntryOf(map, m.id)] \in Entries
      BY <3>1, TablesParts, EntryIn
    <3>4. map[EntryOf(map, m.id)].addr \in Addr
      BY <3>3 DEF Entries
    <3> QED
      BY <3>1, <3>2, <3>4, ToldShows
  <2> QED
    BY <2>3, <2>4
<1>3. ASSUME NEW a \in Addr, NEW d \in Positions, ThrottleThrows(a, d)
      PROVE  ShownSound'
  BY <1>3, ToldShows DEF ThrottleThrows
<1>4. ASSUME NEW q \in Protocols, NEW a \in Addr, ThrottleAsks(q, a)
      PROVE  ShownSound'
  <2>1. shown' = [shown EXCEPT ![q][a] = Answer(q, a)] /\ known' = known
    BY <1>4 DEF ThrottleAsks
  <2>2. shown \in Displays
    BY TablesParts
  <2>3. SUFFICES ASSUME NEW b \in Addr, NEW p \in Protocols, GetKnown(b) # Unknown
                 PROVE  shown'[p][b] = GetKnown(b)
    BY <2>1 DEF ShownSound, GetKnown
  <2>4. CASE p = q /\ b = a
    <3>1. shown'[p][b] = Answer(q, a)
      BY <2>1, <2>2, <2>4 DEF Displays
    <3> QED
      BY <2>3, <2>4, <3>1 DEF Answer
  <2>5. CASE ~(p = q /\ b = a)
    <3>1. shown'[p][b] = shown[p][b]
      BY <2>1, <2>2, <2>5 DEF Displays
    <3> QED
      BY <2>3, <3>1 DEF ShownSound
  <2> QED
    BY <2>4, <2>5
<1>5. CASE UNCHANGED vars
  BY <1>1, <1>5 DEF vars, bridge
<1>6. CASE \/ EndPass \/ Connect \/ LoseConnection \/ StationStep \/ ThrottlePower \/ OperatorRuns
           \/ \E a \in Addr, d \in Positions : OperatorThrows(a, d)
           \/ \E i \in Ids, a \in Addr : Readdress(i, a)
  BY <1>1, <1>6 DEF EndPass, Connect, LoseConnection, StationStep, ThrottlePower, OperatorRuns,
     OperatorThrows, Readdress, bridge
<1> QED
  BY <1>2, <1>3, <1>4, <1>5, <1>6 DEF Next

LEMMA InitShown == Init => ShownSound
<1> SUFFICES ASSUME Init
             PROVE  ShownSound
  OBVIOUS
<1>1. known = <<>>
  BY DEF Init
<1>2. known \in Seq(KnownEntries) /\ Len(known) = 0
  BY <1>1
<1>3. ASSUME NEW a \in Addr
      PROVE  Find(a, known) = 0
  <2>1. \A j \in 1 .. Len(known) : known[j].addr # a
    BY <1>2
  <2> QED
    BY <1>2, <2>1, FindIn
<1> QED
  BY <1>3 DEF ShownSound, GetKnown

-----------------------------------------------------------------------------
(* Whether the layout runs.                                                *)
\* The second half of RunSound, for the run state g of ECoS.
RunFollows(g) ==
    /\ station.watched
    /\ LastIs(fromEcos, Runs, Run(g))
    /\ Has(fromEcos, Runs) \/ RunsAs(g) \/ Has(toEcos, {RunCmd(~g)})

LEMMA RunFollowsKept ==
    ASSUME NEW g, RunFollows(g), station.watched => station'.watched,
           LastIs(fromEcos, Runs, Run(g)) => LastIs(fromEcos', Runs, Run(g)),
           Has(fromEcos, Runs) => Has(fromEcos', Runs) \/ RunsAs(g)',
           RunsAs(g) => RunsAs(g)' \/ Has(toEcos', {RunCmd(~g)}),
           Has(toEcos, {RunCmd(~g)}) => Has(toEcos', {RunCmd(~g)})
    PROVE  RunFollows(g)'
  BY DEF RunFollows

LEMMA RunSoundNext ==
    ASSUME NEW g, station'.go = g, StatusDue' \/ RunFollows(g)'
    PROVE  RunSound'
  BY DEF RunSound, RunFollows

LEMMA StatusDueKept ==
    ASSUME NEW T, toEcos \in Seq(T), NEW e \in Seq(T), toEcos' = toEcos \o e,
           StatusDue, station'.watched = station.watched
    PROVE  StatusDue'
<1>1. PICK q, w : q = toEcos /\ w = station.watched
  OBVIOUS
<1>2. InOrder(q \o e, Cmd("watch", NoId), Cmd("status", NoId), w)
  BY <1>1, InOrderAppended DEF StatusDue
<1> QED
  BY <1>1, <1>2 DEF StatusDue

LEMMA ReadRun ==
    ASSUME Tables, RunSound, connected, ReadReply
    PROVE  RunSound'
<1>1. /\ UNCHANGED <<connected, station, toEcos>> /\ fromEcos # <<>>
      /\ fromEcos' = Tail(fromEcos) /\ HandleReply(Head(fromEcos))
  BY DEF ReadReply
<1>2. PICK g \in BOOLEAN : g = station.go
  BY TablesParts DEF Stations
<1>3. fromEcos \in Seq(Messages)
  BY TablesParts
<1>4. CASE StatusDue
  BY <1>1, <1>4, RunSoundNext DEF StatusDue
<1>5. CASE RunFollows(g)
  <2>1. LastIs(fromEcos, Runs, Run(g)) =>
           /\ LastIs(fromEcos', Runs, Run(g))
           /\ Head(fromEcos) \in Runs => Head(fromEcos) = Run(g) \/ Has(fromEcos', Runs)
    BY <1>1, <1>3, LastTaken
  <2>2. Has(fromEcos, Runs) => Head(fromEcos) \in Runs \/ Has(fromEcos', Runs)
    BY <1>1, <1>3, LastTaken
  <2>3. ASSUME Head(fromEcos) = Run(g)
        PROVE  RunsAs(g)'
    <3>1. CASE g = TRUE
      <4>1. Head(fromEcos).kind = "go"
        BY <2>3, <3>1 DEF Run
      <4>2. AllResumed
        BY <1>1, <4>1 DEF HandleReply
      <4> QED
        BY <3>1, <4>2 DEF AllResumed, Power, TrackOn, RunsAs
    <3>2. CASE g = FALSE
      <4>1. Head(fromEcos).kind = "stop"
        BY <2>3, <3>2 DEF Run
      <4>2. AllStopped
        BY <1>1, <4>1 DEF HandleReply
      <4>3. trk'.power = FALSE
        BY <4>2, TablesParts DEF AllStopped, Power, TrackOff, PowerType, Tracks
      <4> QED
        BY <3>2, <4>2, <4>3 DEF AllStopped, Power, RunsAs
    <3> QED
      BY <3>1, <3>2
  <2>4. ASSUME Head(fromEcos) \notin Runs
        PROVE  UNCHANGED power
    <3>1. PICK m \in Messages : m = Head(fromEcos)
      BY <1>1, <1>3
    <3>2. m.kind \in {"object", "state"}
      <4>1. m # Run(TRUE) /\ m # Run(FALSE)
        BY <2>4, <3>1 DEF Runs
      <4>2. m \notin [kind : {"go", "stop"}]
        BY <4>1 DEF Run
      <4> QED
        BY <4>2 DEF Messages
    <3> QED
      BY <1>1, <3>1, <3>2 DEF HandleReply
  <2>5. RunsAs(g) => RunsAs(g)' \/ Has(fromEcos', Runs)
    <3>1. CASE Head(fromEcos) \in Runs
      BY <1>5, <2>1, <2>3, <3>1 DEF RunFollows
    <3>2. CASE Head(fromEcos) \notin Runs
      BY <2>4, <3>2 DEF RunsAs, power
    <3> QED
      BY <3>1, <3>2
  <2>6. Has(fromEcos, Runs) => Has(fromEcos', Runs) \/ RunsAs(g)'
    BY <1>5, <2>1, <2>2, <2>3 DEF RunFollows
  <2>7. RunFollows(g)'
    BY <1>1, <1>5, <2>1, <2>5, <2>6 DEF RunFollows
  <2> QED
    BY <1>1, <1>2, <2>7, RunSoundNext
<1> QED
  BY <1>2, <1>4, <1>5 DEF RunSound, RunFollows

(* A command to stop or go that ECoS acts on is announced.                 *)
LEMMA AnswersRun ==
    ASSUME Tables, NEW c \in Commands, station.watched
    PROVE  /\ LastIs(Answers(c), Runs, Run(Processed(c).go))
           /\ \/ Has(Answers(c), Runs)
              \/ Processed(c).go = station.go /\ c # RunCmd(~station.go)
           /\ c = Cmd("status", NoId) => Has(Answers(c), Runs)
<1>0. PICK go \in BOOLEAN : go = station.go
  BY TablesParts DEF Stations
<1>1. /\ station \in Stations /\ Run(go) \in Runs
      /\ RunCmd(TRUE).op = "go" /\ RunCmd(FALSE).op = "stop" /\ RunCmd(TRUE) # RunCmd(FALSE)
  BY TablesParts DEF Runs, RunCmd, Cmd
<1>2. ASSUME NEW m, Answers(c) = <<m>>
      PROVE  /\ m \in Runs => Has(Answers(c), Runs)
             /\ m \notin Runs \/ m = Run(Processed(c).go) =>
                   LastIs(Answers(c), Runs, Run(Processed(c).go))
  BY <1>2 DEF Has, LastIs
<1>3. ASSUME Answers(c) = <<>>
      PROVE  LastIs(Answers(c), Runs, Run(Processed(c).go))
  BY <1>3 DEF LastIs
<1>4. CASE \E j \in Ids : c \in {Cmd("view", j), Cmd("get", j)}
  <2>1. PICK j \in Ids : c \in {Cmd("view", j), Cmd("get", j)}
    BY <1>4
  <2>2. Answers(c) = <<>> \/ Answers(c) = <<State(j, station.pos[j])>>
    BY <2>1, Processing
  <2>3. Processed(c).go = station.go
    BY <1>1, <2>1, Processing DEF Stations
  <2>4. c.op \in {"view", "get"}
    BY <2>1 DEF Cmd
  <2>5. c # RunCmd(~station.go) /\ c # Cmd("status", NoId)
    BY <1>0, <1>1, <2>4 DEF RunCmd, Cmd
  <2> QED
    BY <1>2, <1>3, <2>2, <2>3, <2>5, Kinds
<1>5. CASE c \in {Cmd("watch", NoId), Cmd("query", NoId)}
  <2>1. Processed(c).go = station.go
    BY <1>1, <1>5, Processing DEF Stations
  <2>2. c.op \in {"watch", "query"}
    BY <1>5 DEF Cmd
  <2>3. c # RunCmd(~station.go) /\ c # Cmd("status", NoId)
    BY <1>0, <1>1, <2>2 DEF RunCmd, Cmd
  <2>4. LastIs(Answers(c), Runs, Run(Processed(c).go))
    <3>1. CASE c = Cmd("watch", NoId)
      BY <1>3, <3>1, Processing
    <3>2. CASE c = Cmd("query", NoId)
      <4>1. Answers(c) = Objects
        BY <3>2, Processing
      <4>2. \A k \in 1 .. Len(Objects) : Objects[k] \notin Runs
        BY ObjectsListed, Kinds DEF Tables
      <4> QED
        BY <4>1, <4>2 DEF LastIs
    <3> QED
      BY <1>5, <3>1, <3>2
  <2> QED
    BY <2>1, <2>3, <2>4
<1>6. CASE c = Cmd("status", NoId)
  <2>1. Answers(c) = <<Run(go)>> /\ Processed(c).go = go
    BY <1>0, <1>6, Processing
  <2> QED
    BY <1>1, <1>2, <2>1
<1>7. CASE \E g \in BOOLEAN : c = RunCmd(g)
  <2>1. PICK g \in BOOLEAN : c = RunCmd(g)
    BY <1>7
  <2>2. Processed(c) = [station EXCEPT !.go = g]
    BY <2>1, Processing
  <2>3. Processed(c).go = g
    BY <1>1, <2>2 DEF Stations
  <2>4. Answers(c) = IF station.watched /\ station.go # g THEN <<Run(g)>> ELSE <<>>
    BY <2>1, Processing
  <2>5. Run(g) \in Runs
    BY DEF Runs
  <2>6. c # Cmd("status", NoId)
    BY <2>1 DEF RunCmd, Cmd
  <2>7. CASE go # g
    BY <1>0, <1>2, <2>3, <2>4, <2>5, <2>6, <2>7
  <2>8. CASE go = g
    <3>1. c # RunCmd(~go)
      BY <1>1, <2>1, <2>8
    <3> QED
      BY <1>0, <1>3, <2>3, <2>4, <2>6, <2>8, <3>1
  <2> QED
    BY <2>7, <2>8
<1>8. CASE \E b \in Addr, d \in Positions : c = Switch(b, d)
  <2>1. PICK b \in Addr, d \in Positions : c = Switch(b, d)
    BY <1>8
  <2>2. Answers(c) = Events(b, d) /\ Processed(c) = [station EXCEPT !.pos = Thrown(b, d)]
    BY <2>1, Processing
  <2>3. Processed(c).go = station.go
    BY <1>1, <2>2 DEF Stations
  <2>4. c.op = "switch"
    BY <2>1 DEF Switch
  <2>5. c # RunCmd(~station.go) /\ c # Cmd("status", NoId)
    BY <1>0, <1>1, <2>4 DEF RunCmd, Cmd
  <2>6. \A k \in 1 .. Len(Events(b, d)) : Events(b, d)[k] \notin Runs
    BY EventsListed, Kinds DEF Tables
  <2> QED
    BY <2>2, <2>3, <2>5, <2>6 DEF LastIs
<1> QED
  BY <1>4, <1>5, <1>6, <1>7, <1>8, CommandKinds

LEMMA StationRun ==
    ASSUME Tables, RunSound, connected, StationStep
    PROVE  RunSound'
<1>1. /\ toEcos # <<>> /\ toEcos' = Tail(toEcos) /\ UNCHANGED power
      /\ station' = Processed(Head(toEcos))
      /\ fromEcos' = fromEcos \o Answers(Head(toEcos))
  BY DEF StationStep, bridge
<1>2. PICK c \in Commands : c = Head(toEcos)
  BY <1>1, TablesParts
<1>3. PICK q \in Seq(Commands), w \in BOOLEAN, g \in BOOLEAN, h \in BOOLEAN :
         q = toEcos /\ w = station.watched /\ g = station.go /\ h = station'.go
  <2>1. station \in Stations /\ station' \in Stations
    BY <1>1, <1>2, TablesParts, ProcessedType
  <2> QED
    BY <2>1, TablesParts DEF Stations
<1>4. /\ fromEcos \in Seq(Messages) /\ Answers(c) \in Seq(Messages)
      /\ station.watched => station'.watched
  BY <1>1, <1>2, TablesParts, ProcessedType, ProcessedKeeps
<1>5. h = Processed(c).go
  BY <1>1, <1>2, <1>3
\* Once ECoS watches, whatever it answered last is how the layout runs.
<1>6. ASSUME station.watched, LastIs(fromEcos, Runs, Run(g)) \/ Has(Answers(c), Runs)
      PROVE  LastIs(fromEcos', Runs, Run(h))
  <2>1. /\ LastIs(Answers(c), Runs, Run(h))
        /\ Has(Answers(c), Runs) \/ h = g
    BY <1>3, <1>5, <1>6, AnswersRun
  <2>2. Has(Answers(c), Runs) \/ LastIs(fromEcos, Runs, Run(h))
    BY <1>6, <2>1
  <2> QED
    BY <1>1, <1>2, <1>4, <2>1, <2>2, LastAppended
<1>7. Has(Answers(c), Runs) => Has(fromEcos', Runs)
  BY <1>1, <1>2, <1>4, HasAppended
<1>8. Has(fromEcos, Runs) => Has(fromEcos', Runs)
  BY <1>1, <1>2, <1>4, HasAppended
<1>9. CASE StatusDue
  <2>1. \/ c = Cmd("status", NoId) /\ w
        \/ InOrder(Tail(q), Cmd("watch", NoId), Cmd("status", NoId), w \/ c = Cmd("watch", NoId))
    BY <1>1, <1>2, <1>3, <1>9, InOrderTaken DEF StatusDue
  <2>2. CASE c = Cmd("status", NoId) /\ w
    <3>1. Has(Answers(c), Runs)
      BY <1>3, <2>2, AnswersRun
    <3>2. RunFollows(h)'
      BY <1>3, <1>4, <1>6, <1>7, <2>2, <3>1 DEF RunFollows
    <3> QED
      BY <1>3, <3>2, RunSoundNext
  <2>3. CASE InOrder(Tail(q), Cmd("watch", NoId), Cmd("status", NoId), w \/ c = Cmd("watch", NoId))
    <3>1. (w \/ c = Cmd("watch", NoId)) => station'.watched
      <4>1. CASE c = Cmd("watch", NoId)
        BY <1>1, <1>2, <4>1, TablesParts, Processing DEF Stations
      <4> QED
        BY <1>3, <1>4, <4>1
    <3>2. StatusDue'
      BY <1>1, <1>3, <2>3, <3>1 DEF StatusDue, InOrder
    <3> QED
      BY <1>3, <3>2, RunSoundNext
  <2> QED
    BY <2>1, <2>2, <2>3
<1>10. CASE RunFollows(g)
  <2>1. Has(Answers(c), Runs) \/ (h = g /\ c # RunCmd(~g))
    BY <1>3, <1>5, <1>10, AnswersRun DEF RunFollows
  <2>2. /\ station'.watched /\ LastIs(fromEcos', Runs, Run(h))
    BY <1>4, <1>6, <1>10 DEF RunFollows
  <2>3. CASE Has(Answers(c), Runs)
    BY <1>3, <1>7, <2>2, <2>3, RunSoundNext DEF RunFollows
  <2>4. CASE h = g /\ c # RunCmd(~g)
    <3>1. Has(toEcos, {RunCmd(~g)}) => Has(toEcos', {RunCmd(~g)})
      BY <1>1, <1>2, <1>3, <2>4, LastTaken
    <3>2. RunsAs(g) => RunsAs(g)'
      BY <1>1 DEF RunsAs, power
    <3>3. RunFollows(g)'
      BY <1>8, <1>10, <2>2, <2>4, <3>1, <3>2 DEF RunFollows
    <3> QED
      BY <1>3, <2>4, <3>3, RunSoundNext
  <2> QED
    BY <2>1, <2>3, <2>4
<1> QED
  BY <1>3, <1>9, <1>10 DEF RunSound, RunFollows

\* A step that leaves the run state alone, and appends to the queues.
LEMMA RunSoundKept ==
    ASSUME Tables, RunSound, UNCHANGED <<connected, power>>,
           station'.go = station.go, station'.watched = station.watched,
           NEW e \in Seq(Commands), toEcos' = toEcos \o e,
           NEW f \in Seq(Messages), fromEcos' = fromEcos \o f, ~Has(f, Runs)
    PROVE  RunSound'
<1>1. PICK g \in BOOLEAN : g = station.go
  BY TablesParts DEF Stations
<1>2. toEcos \in Seq(Commands) /\ fromEcos \in Seq(Messages)
  BY TablesParts
<1>3. CASE StatusDue
  BY <1>1, <1>2, <1>3, StatusDueKept, RunSoundNext
<1>4. CASE RunFollows(g)
  <2>1. LastIs(f, Runs, Run(g))
    BY DEF Has, LastIs
  <2>2. LastIs(fromEcos, Runs, Run(g)) => LastIs(fromEcos', Runs, Run(g))
    BY <1>2, <2>1, LastAppended
  <2>3. Has(fromEcos, Runs) => Has(fromEcos', Runs)
    BY <1>2, HasAppended
  <2>4. Has(toEcos, {RunCmd(~g)}) => Has(toEcos', {RunCmd(~g)})
    BY <1>2, HasAppended
  <2>5. RunsAs(g) => RunsAs(g)'
    BY DEF RunsAs, power
  <2>6. RunFollows(g)'
    BY <1>4, <2>2, <2>3, <2>4, <2>5 DEF RunFollows
  <2> QED
    BY <1>1, <2>6, RunSoundNext
<1>5. CASE ~connected
  BY <1>5 DEF RunSound
<1> QED
  BY <1>1, <1>3, <1>4, <1>5 DEF RunSound, RunFollows

LEMMA ThrottlePowerRun ==
    ASSUME Tables, RunSound, connected, ThrottlePower
    PROVE  RunSound'
<1>1. /\ UNCHANGED <<fromEcos, station>>
  BY DEF ThrottlePower, OnlyThrottle
<1>2. PICK x \in Powers, z \in BOOLEAN, t \in Tracks :
         /\ Power(x, z, t)
         /\ z = (x # "csNormal") /\ (t.power /\ t.running) = (x = "csNormal")
         /\ Send(RunCmd(x = "csNormal"))
  BY TablesParts, PowerCases DEF PowerType
<1>3. PICK h \in BOOLEAN, g \in BOOLEAN : h = (x = "csNormal") /\ g = station.go
  BY TablesParts DEF Stations
<1>4. RunsAs(h)'
  BY <1>2, <1>3 DEF RunsAs, Power
<1>5. toEcos' = toEcos \o <<RunCmd(h)>> /\ toEcos \in Seq(Commands)
  BY <1>2, <1>3, TablesParts, RunCmdType DEF Send
<1>6. RunCmd(h) \in Commands /\ <<RunCmd(h)>> \in Seq(Commands)
  BY RunCmdType
<1>7. CASE StatusDue
  BY <1>1, <1>3, <1>5, <1>6, <1>7, StatusDueKept, RunSoundNext
<1>8. CASE RunFollows(g)
  <2>1. CASE h = g
    BY <1>1, <1>3, <1>4, <1>8, <2>1, RunSoundNext DEF RunFollows
  <2>2. CASE h # g
    <3>1. h = ~g
      BY <2>2
    <3>2. Has(<<RunCmd(h)>>, {RunCmd(~g)})
      BY <3>1 DEF Has
    <3>3. Has(toEcos', {RunCmd(~g)})
      BY <1>5, <1>6, <3>2, HasAppended
    <3> QED
      BY <1>1, <1>3, <1>8, <3>3, RunSoundNext DEF RunFollows
  <2> QED
    BY <2>1, <2>2
<1> QED
  BY <1>3, <1>7, <1>8 DEF RunSound, RunFollows

LEMMA OperatorRun ==
    ASSUME Tables, RunSound, connected, OperatorRuns
    PROVE  RunSound'
<1>1. station \in Stations /\ fromEcos \in Seq(Messages)
  BY TablesParts
<1>2. PICK g \in BOOLEAN, h \in BOOLEAN : g = station.go /\ h = ~g
  BY <1>1 DEF Stations
<1>3. /\ station'.go = h /\ station'.watched = station.watched /\ toEcos' = toEcos
      /\ fromEcos' = IF station.watched THEN Append(fromEcos, Run(h)) ELSE fromEcos
  BY <1>1, <1>2 DEF OperatorRuns, Stations
<1>4. CASE StatusDue
  BY <1>3, <1>4, RunSoundNext DEF StatusDue
<1>5. CASE RunFollows(g)
  <2>1. Run(h) \in Messages /\ Run(h) \in Runs
    BY MessageTypes DEF Runs
  <2>2. /\ <<Run(h)>> \in Seq(Messages)
        /\ Has(<<Run(h)>>, Runs) /\ LastIs(<<Run(h)>>, Runs, Run(h))
    BY <2>1 DEF Has, LastIs
  <2>3. fromEcos' = fromEcos \o <<Run(h)>>
    BY <1>1, <1>3, <1>5, <2>1 DEF RunFollows
  <2>4. Has(fromEcos', Runs) /\ LastIs(fromEcos', Runs, Run(h))
    BY <1>1, <2>2, <2>3, HasAppended, LastAppended
  <2> QED
    BY <1>3, <1>5, <2>4, RunSoundNext DEF RunFollows
<1> QED
  BY <1>2, <1>4, <1>5 DEF RunSound, RunFollows

LEMMA ConnectRun ==
    ASSUME Connect
    PROVE  RunSound'
<1>1. toEcos' = Greeting
  BY DEF Connect
<1>2. InOrder(Greeting, Cmd("watch", NoId), Cmd("status", NoId), station'.watched)
  BY DEF InOrder, Greeting
<1> QED
  BY <1>1, <1>2 DEF RunSound, StatusDue

LEMMA RunSoundStep ==
    ASSUME Tables, RunSound, [Next]_vars
    PROVE  RunSound'
<1>0. /\ toEcos \in Seq(Commands) /\ fromEcos \in Seq(Messages)
      /\ <<>> \in Seq(Commands) /\ <<>> \in Seq(Messages)
      /\ toEcos = toEcos \o <<>> /\ fromEcos = fromEcos \o <<>>
      /\ ~Has(<<>>, Runs)
  BY TablesParts DEF Has
<1>1. ASSUME UNCHANGED <<connected, power, toEcos, fromEcos, station>>
      PROVE  RunSound'
  BY <1>0, <1>1, RunSoundKept
<1>2. ASSUME NEW c \in Commands, UNCHANGED <<connected, power, fromEcos, station>>, Send(c)
      PROVE  RunSound'
  <2>1. CASE connected
    <3>1. <<c>> \in Seq(Commands) /\ toEcos' = toEcos \o <<c>>
      BY <1>0, <1>2, <2>1 DEF Send
    <3> QED
      BY <1>0, <1>2, <3>1, RunSoundKept
  <2>2. CASE ~connected
    BY <1>2, <2>2 DEF RunSound
  <2> QED
    BY <2>1, <2>2
<1>3. CASE UNCHANGED vars
  BY <1>1, <1>3 DEF vars, bridge
<1>4. CASE EndPass
  <2>1. SubscribeStep(map) \in Seq(Commands)
    BY TablesParts, SubscribedGets
  <2> QED
    BY <1>0, <1>4, <2>1, RunSoundKept DEF EndPass
<1>5. CASE LoseConnection
  BY <1>5 DEF LoseConnection, RunSound
<1>6. ASSUME NEW a \in Addr, NEW d \in Positions, ThrottleThrows(a, d)
      PROVE  RunSound'
  BY <1>2, <1>6, CommandTypes DEF ThrottleThrows, OnlyThrottle
<1>7. ASSUME NEW p \in Protocols, NEW a \in Addr, ThrottleAsks(p, a)
      PROVE  RunSound'
  BY <1>1, <1>7 DEF ThrottleAsks, OnlyThrottle
<1>8. ASSUME NEW a \in Addr, NEW d \in Positions, OperatorThrows(a, d)
      PROVE  RunSound'
  <2>1. /\ Events(a, d) \in Seq(Messages)
        /\ ~Has(Events(a, d), Runs)
    BY EventsListed, Kinds DEF Tables, Has
  <2>2. station'.go = station.go /\ station'.watched = station.watched
    BY <1>8, TablesParts DEF OperatorThrows, Stations
  <2> QED
    BY <1>0, <1>8, <2>1, <2>2, RunSoundKept DEF OperatorThrows, bridge
<1>9. ASSUME NEW i \in Ids, NEW a \in Addr, Readdress(i, a)
      PROVE  RunSound'
  <2>1. station'.go = station.go /\ station'.watched = station.watched
    BY <1>9, TablesParts DEF Readdress, Stations
  <2> QED
    BY <1>0, <1>9, <2>1, RunSoundKept DEF Readdress, bridge
<1>10. CASE ReadReply \/ StationStep \/ ThrottlePower \/ OperatorRuns
  <2>1. CASE connected
    BY <1>10, <2>1, ReadRun, StationRun, ThrottlePowerRun, OperatorRun
  <2>2. CASE ~connected
    BY <1>10, <2>2 DEF ReadReply, StationStep, ThrottlePower, OperatorRuns, OnlyThrottle, RunSound
  <2> QED
    BY <2>1, <2>2
<1> QED
  BY <1>3, <1>4, <1>5, <1>6, <1>7, <1>8, <1>9, <1>10, ConnectRun DEF Next

-----------------------------------------------------------------------------
(* The turnouts.                                                           *)
\* On a clean address, map and messages mean the turnout that is there.
LEMMA CleanEntry ==
    ASSUME Tables, MapSound, NEW i \in Ids, Clean(station.addrOf[i])
    PROVE  /\ \A j \in 1 .. Len(map) : map[j].id = i <=> map[j].addr = station.addrOf[i]
           /\ \A k \in Ids, a \in Addr :
                 Has(fromEcos, {Object(k, a)}) => (k = i <=> a = station.addrOf[i])
<1>1. \A k \in Ids, a \in Addr : Sound(k, a) => (k = i <=> a = station.addrOf[i])
  BY DEF MapSound, Sound
<1>2. \A j \in 1 .. Len(map) : map[j].id \in Ids /\ map[j].addr \in Addr
  <2>1. \A j \in 1 .. Len(map) : map[j] \in Entries
    BY TablesParts
  <2> QED
    BY <2>1 DEF Entries
<1> QED
  BY <1>1, <1>2 DEF MapSound

LEMMA TurnoutKept ==
    ASSUME NEW i \in Ids, TurnoutSound(i),
           HasEntry(i) => HasEntry(i)',
           ~HasEntry(i) /\ ObjectDue(i) => TurnoutSound(i)',
           HasEntry(i) /\ WalkDue(i) => WalkDue(i)' \/ PositionDue(i)',
           HasEntry(i) /\ PositionDue(i) => PositionDue(i)' \/ Follows(i)',
           HasEntry(i) /\ Follows(i) => Follows(i)'
    PROVE  TurnoutSound(i)'
  BY DEF TurnoutSound

LEMMA FollowsKept ==
    ASSUME NEW i \in Ids, NEW a \in Addr, NEW x \in Positions, NEW y \in Positions,
           station.addrOf[i] = a, station.pos[i] = x,
           station'.addrOf[i] = a, station'.pos[i] = y,
           Following(i, a, x) => Following(i, a, y)'
    PROVE  Follows(i) => Follows(i)'
  BY DEF Follows

LEMMA FollowingKept ==
    ASSUME NEW i \in Ids, NEW a \in Addr, NEW x \in Positions, Following(i, a, x),
           i \in station'.viewed,
           LastIs(fromEcos', StatesOf(i), State(i, x)),
           Has(fromEcos, StatesOf(i)) => Has(fromEcos', StatesOf(i)) \/ Holds(a, x)',
           Holds(a, x) => \/ Has(fromEcos', StatesOf(i))
                          \/ Holds(a, x)'
                          \/ Has(toEcos', Others(a, x)),
           Has(toEcos, Others(a, x)) => Has(toEcos', Others(a, x))
    PROVE  Following(i, a, x)'
  BY DEF Following

LEMMA PlaceOf ==
    ASSUME Tables, NEW i \in Ids
    PROVE  \E a \in Addr, x \in Positions : a = station.addrOf[i] /\ x = station.pos[i]
  BY TablesParts DEF Stations

LEMMA HoldsKept ==
    ASSUME known' = known, NEW a, NEW x
    PROVE  Holds(a, x) => Holds(a, x)'
  BY DEF Holds, GetKnown

LEMMA ToldHolds ==
    ASSUME Tables, NEW b \in Addr, NEW d \in Positions, Told(b, d)
    PROVE  /\ Holds(b, d)'
           /\ \A a \in Addr, x \in Positions : a # b /\ Holds(a, x) => Holds(a, x)'
<1>1. /\ \A a \in Addr : a # b => GetKnown(a)' = GetKnown(a)
      /\ \/ GetKnown(b)' = d
         \/ GetKnown(b)' = Unknown /\ GetKnown(b) = Unknown /\ ~HasRoom(known')
      /\ HasRoom(known') => HasRoom(known)
  BY TablesParts, SetKnownGets DEF Told
<1> QED
  BY <1>1 DEF Holds

\* A step that leaves the tables and the turnout alone, and appends to the
\* queues nothing about its position.
LEMMA TurnoutAppend ==
    ASSUME Tables, NEW i \in Ids, TurnoutSound(i), UNCHANGED <<map, known>>,
           station'.addrOf[i] = station.addrOf[i], station'.pos[i] = station.pos[i],
           station'.viewed = station.viewed,
           NEW e \in Seq(Commands), toEcos' = toEcos \o e,
           NEW f \in Seq(Messages), fromEcos' = fromEcos \o f, ~Has(f, StatesOf(i))
    PROVE  TurnoutSound(i)'
<1>1. toEcos \in Seq(Commands) /\ fromEcos \in Seq(Messages)
  BY TablesParts
<1>2. HasEntry(i)' <=> HasEntry(i)
  BY DEF HasEntry
<1>3. ~HasEntry(i) /\ ObjectDue(i) => TurnoutSound(i)'
  <2>1. Has(toEcos, {Cmd("query", NoId)}) => Has(toEcos', {Cmd("query", NoId)})
    BY <1>1, HasAppended
  <2>2. Has(fromEcos, ObjectsOf(i)) => Has(fromEcos', ObjectsOf(i))
    BY <1>1, HasAppended
  <2> QED
    BY <1>2, <2>1, <2>2 DEF TurnoutSound, ObjectDue
<1>4. WalkDue(i) => WalkDue(i)'
  BY DEF WalkDue
<1>5. PositionDue(i) => PositionDue(i)'
  <2> DEFINE v == i \in station.viewed
  <2>1. InOrder(toEcos, Cmd("view", i), Cmd("get", i), v)
           => InOrder(toEcos', Cmd("view", i), Cmd("get", i), v)
    BY <1>1, InOrderAppended
  <2> QED
    BY <2>1 DEF PositionDue
<1>6. Follows(i) => Follows(i)'
  <2>1. PICK a \in Addr, x \in Positions : a = station.addrOf[i] /\ x = station.pos[i]
    BY PlaceOf
  <2>2. ASSUME Following(i, a, x)
        PROVE  Following(i, a, x)'
    <3>1. LastIs(f, StatesOf(i), State(i, x))
      BY DEF LastIs, Has
    <3>2. LastIs(fromEcos', StatesOf(i), State(i, x))
      BY <1>1, <2>2, <3>1, LastAppended DEF Following
    <3>3. Has(fromEcos, StatesOf(i)) => Has(fromEcos', StatesOf(i))
      BY <1>1, HasAppended
    <3>4. Has(toEcos, Others(a, x)) => Has(toEcos', Others(a, x))
      BY <1>1, HasAppended
    <3>5. i \in station'.viewed
      BY <2>2 DEF Following
    <3> QED
      BY <2>2, <3>2, <3>3, <3>4, <3>5, HoldsKept, FollowingKept
  <2> QED
    BY <2>1, <2>2, FollowsKept
<1> QED
  BY <1>2, <1>3, <1>4, <1>5, <1>6, TurnoutKept

-----------------------------------------------------------------------------
(* A reply is read.                                                        *)
LEMMA ObjectRead ==
    ASSUME Tables, MapSound, NEW i \in Ids, Clean(station.addrOf[i]),
           NEW k \in Ids, NEW b \in Addr, Has(fromEcos, {Object(k, b)}),
           map' = AddEntry(map, b, k)
    PROVE  /\ HasEntry(i) => HasEntry(i)'
           /\ WalkDue(i) => WalkDue(i)'
           /\ HasEntry(i)' => HasEntry(i) \/ WalkDue(i)'
           /\ k = i => HasEntry(i)' \/ ~HasPlace(map')
           /\ HasPlace(map') => HasPlace(map)
<1>1. k = i <=> b = station.addrOf[i]
  BY CleanEntry
<1>2. \A j \in 1 .. Len(map) : map[j].id = i <=> map[j].addr = station.addrOf[i]
  BY CleanEntry
<1>3. /\ \A j \in 1 .. Len(map) :
            /\ j \in 1 .. Len(map')
            /\ map'[j].addr = map[j].addr /\ map'[j].subscribed = map[j].subscribed
            /\ map[j].addr # b => map'[j] = map[j]
      /\ \A j \in 1 .. Len(map') :
            /\ map'[j].addr = b => map'[j].id = k
            /\ map'[j].addr # b => j \in 1 .. Len(map)
            /\ j \in 1 .. Len(map) \/ ~map'[j].subscribed
      /\ HasPlace(map') => \E j \in 1 .. Len(map') : map'[j].addr = b
      /\ HasPlace(map') => HasPlace(map)
  BY TablesParts, AddEntryGets
<1>4. ASSUME NEW j \in 1 .. Len(map), map[j].id = i
      PROVE  j \in 1 .. Len(map') /\ map'[j].id = i /\ map'[j].subscribed = map[j].subscribed
  <2>1. CASE map[j].addr = b
    BY <1>1, <1>2, <1>3, <1>4, <2>1
  <2>2. CASE map[j].addr # b
    BY <1>3, <1>4, <2>2
  <2> QED
    BY <2>1, <2>2
<1>5. ASSUME NEW j \in 1 .. Len(map'), map'[j].id = i, ~HasEntry(i)
      PROVE  ~map'[j].subscribed
  <2>1. CASE map'[j].addr # b
    BY <1>3, <1>5, <2>1 DEF HasEntry
  <2>2. CASE map'[j].addr = b
    <3>1. k = i
      BY <1>3, <1>5, <2>2
    <3>2. j \notin 1 .. Len(map)
      BY <1>1, <1>2, <1>3, <1>5, <2>2, <3>1 DEF HasEntry
    <3> QED
      BY <1>3, <3>2
  <2> QED
    BY <2>1, <2>2
<1>6. HasEntry(i) => HasEntry(i)'
  BY <1>4 DEF HasEntry
<1>7. WalkDue(i) => WalkDue(i)'
  BY <1>4 DEF WalkDue
<1>8. HasEntry(i)' => HasEntry(i) \/ WalkDue(i)'
  BY <1>5 DEF HasEntry, WalkDue
<1>9. k = i => HasEntry(i)' \/ ~HasPlace(map')
  BY <1>3 DEF HasEntry
<1> QED
  BY <1>3, <1>6, <1>7, <1>8, <1>9

LEMMA ReadHolds ==
    ASSUME Tables, MapSound, NEW i \in Ids, Clean(station.addrOf[i]), HasEntry(i),
           NEW a \in Addr, a = station.addrOf[i],
           fromEcos # <<>>, HandleReply(Head(fromEcos))
    PROVE  \/ /\ Head(fromEcos) \notin StatesOf(i)
              /\ \A x \in Positions : Holds(a, x) => Holds(a, x)'
           \/ \E d \in Positions : Head(fromEcos) = State(i, d) /\ Holds(a, d)'
<1>1. PICK m \in Messages : m = Head(fromEcos)
  BY TablesParts
<1>2. CASE m.kind # "state"
  <2>1. known' = known
    BY <1>1, <1>2 DEF HandleReply
  <2>2. m \notin StatesOf(i)
    BY <1>2 DEF StatesOf, State
  <2> QED
    BY <1>1, <2>1, <2>2, HoldsKept
<1>3. CASE m.kind = "state"
  <2>1. PICK k \in Ids, d \in Positions : m = State(k, d)
    <3>1. m \in [kind : {"state"}, id : Ids, pos : Positions]
      BY <1>3 DEF Messages
    <3>2. m = State(m.id, m.pos) /\ m.id \in Ids /\ m.pos \in Positions
      BY <3>1 DEF State
    <3> QED
      BY <3>2
  <2>2. m.id = k /\ m.pos = d
    BY <2>1 DEF State
  <2>3. k # i => m \notin StatesOf(i)
    BY <2>1, Kinds DEF StatesOf
  <2>4. CASE EntryOf(map, k) = 0
    <3>1. known' = known
      BY <1>1, <1>3, <2>2, <2>4 DEF HandleReply
    <3>2. k # i
      BY <2>4, TablesParts, EntryIn DEF HasEntry
    <3> QED
      BY <1>1, <2>3, <3>1, <3>2, HoldsKept
  <2>5. CASE EntryOf(map, k) # 0
    <3>1. PICK j \in 1 .. Len(map) : j = EntryOf(map, k) /\ map[j].id = k
      BY <2>5, TablesParts, EntryIn
    <3>2. PICK b \in Addr : b = map[j].addr
      <4>1. map[j] \in Entries
        BY TablesParts
      <4> QED
        BY <4>1 DEF Entries
    <3>3. Told(b, d)
      BY <1>1, <1>3, <2>2, <2>5, <3>1, <3>2 DEF HandleReply
    <3>4. k = i <=> b = a
      BY <3>1, <3>2, CleanEntry
    <3>5. /\ Holds(b, d)'
          /\ \A x \in Positions : a # b /\ Holds(a, x) => Holds(a, x)'
      BY <3>3, ToldHolds
    <3>6. CASE k = i
      BY <1>1, <2>1, <3>4, <3>5, <3>6
    <3>7. CASE k # i
      BY <1>1, <2>3, <3>4, <3>5, <3>7
    <3> QED
      BY <3>6, <3>7
  <2> QED
    BY <2>4, <2>5
<1> QED
  BY <1>2, <1>3

LEMMA ReadTurnout ==
    ASSUME Tables, MapSound, NEW i \in Ids, Clean(station.addrOf[i]), TurnoutSound(i), ReadReply
    PROVE  TurnoutSound(i)'
<1>1. /\ UNCHANGED <<station, toEcos>> /\ fromEcos # <<>>
      /\ fromEcos' = Tail(fromEcos) /\ HandleReply(Head(fromEcos))
  BY DEF ReadReply
<1>2. fromEcos \in Seq(Messages)
  BY TablesParts
<1>3. PICK m \in Messages : m = Head(fromEcos)
  BY <1>1, <1>2
<1>4. PositionDue(i) => PositionDue(i)'
  BY <1>1 DEF PositionDue
<1>5. /\ HasEntry(i) => HasEntry(i)'
      /\ WalkDue(i) => WalkDue(i)'
      /\ HasEntry(i)' => HasEntry(i) \/ WalkDue(i)'
      /\ m \in ObjectsOf(i) => HasEntry(i)' \/ ~HasPlace(map')
      /\ HasPlace(map') => HasPlace(map)
  <2>1. CASE m.kind = "object"
    <3>1. PICK k \in Ids, b \in Addr : m = Object(k, b)
      <4>1. m \in [kind : {"object"}, id : Ids, addr : Addr]
        BY <2>1 DEF Messages
      <4>2. m = Object(m.id, m.addr) /\ m.id \in Ids /\ m.addr \in Addr
        BY <4>1 DEF Object
      <4> QED
        BY <4>2
    <3>2. map' = AddEntry(map, b, k)
      BY <1>1, <1>3, <3>1 DEF HandleReply, Object
    <3>3. Has(fromEcos, {Object(k, b)})
      BY <1>1, <1>2, <1>3, <3>1, HasHead
    <3>4. m \in ObjectsOf(i) => k = i
      BY <3>1, Kinds DEF ObjectsOf
    <3> QED
      BY <3>2, <3>3, <3>4, ObjectRead
  <2>2. CASE m.kind # "object"
    <3>1. map' = map
      BY <1>1, <1>3, <2>2 DEF HandleReply
    <3>2. m \notin ObjectsOf(i)
      BY <2>2 DEF ObjectsOf, Object
    <3> QED
      BY <3>1, <3>2 DEF HasEntry, WalkDue
  <2> QED
    BY <2>1, <2>2
<1>6. ~HasEntry(i) /\ ObjectDue(i) => TurnoutSound(i)'
  <2>1. Has(fromEcos, ObjectsOf(i)) => m \in ObjectsOf(i) \/ Has(fromEcos', ObjectsOf(i))
    BY <1>1, <1>2, <1>3, LastTaken
  <2> QED
    BY <1>1, <1>5, <2>1 DEF TurnoutSound, ObjectDue
<1>7. HasEntry(i) /\ Follows(i) => Follows(i)'
  <2>1. PICK a \in Addr, x \in Positions : a = station.addrOf[i] /\ x = station.pos[i]
    BY PlaceOf
  <2>2. ASSUME HasEntry(i), Following(i, a, x)
        PROVE  Following(i, a, x)'
    <3>1. /\ LastIs(fromEcos', StatesOf(i), State(i, x))
          /\ m \in StatesOf(i) => m = State(i, x) \/ Has(fromEcos', StatesOf(i))
      BY <1>1, <1>2, <1>3, <2>2, LastTaken DEF Following
    <3>2. Has(fromEcos, StatesOf(i)) => m \in StatesOf(i) \/ Has(fromEcos', StatesOf(i))
      BY <1>1, <1>2, <1>3, LastTaken
    <3>3. \/ m \notin StatesOf(i) /\ (Holds(a, x) => Holds(a, x)')
          \/ \E d \in Positions : m = State(i, d) /\ Holds(a, d)'
      BY <1>1, <1>3, <2>1, <2>2, ReadHolds
    <3>4. i \in station'.viewed
      BY <1>1, <2>2 DEF Following
    <3>5. CASE m \notin StatesOf(i) /\ (Holds(a, x) => Holds(a, x)')
      BY <1>1, <2>2, <3>1, <3>2, <3>4, <3>5, FollowingKept
    <3>6. CASE \E d \in Positions : m = State(i, d) /\ Holds(a, d)'
      <4>1. PICK d \in Positions : m = State(i, d) /\ Holds(a, d)'
        BY <3>6
      <4>2. m \in StatesOf(i) /\ (m = State(i, x) => d = x)
        BY <4>1, Kinds DEF StatesOf
      <4>3. Holds(a, x)' \/ Has(fromEcos', StatesOf(i))
        BY <3>1, <4>1, <4>2
      <4> QED
        BY <1>1, <2>2, <3>1, <3>4, <4>3, FollowingKept
    <3> QED
      BY <3>3, <3>5, <3>6
  <2> QED
    BY <1>1, <2>1, <2>2, FollowsKept DEF Follows
<1> QED
  BY <1>4, <1>5, <1>6, <1>7, TurnoutKept

-----------------------------------------------------------------------------
(* ECoS takes a command.                                                   *)
LEMMA ThrowEvents ==
    ASSUME Tables, NEW b \in Addr, NEW d \in Positions, NEW i \in Ids, NEW y,
           i \in With(b, d) => y = d
    PROVE  /\ LastIs(Events(b, d), StatesOf(i), State(i, y))
           /\ i \in With(b, d) \cap station.viewed => Has(Events(b, d), StatesOf(i))
           /\ i \notin With(b, d) => ~Has(Events(b, d), StatesOf(i))
<1>1. ASSUME NEW k \in 1 .. Len(Events(b, d)), Events(b, d)[k] \in StatesOf(i)
      PROVE  i \in With(b, d) /\ Events(b, d)[k] = State(i, d)
  <2>1. PICK j \in With(b, d) : Events(b, d)[k] = State(j, d)
    BY EventsListed DEF Tables
  <2>2. j = i
    BY <1>1, <2>1, Kinds DEF StatesOf
  <2> QED
    BY <2>1, <2>2
<1>2. i \in With(b, d) \cap station.viewed => Has(Events(b, d), StatesOf(i))
  BY EventsListed DEF Tables, Has, StatesOf
<1> QED
  BY <1>1, <1>2 DEF LastIs, Has

LEMMA AnswersTurnout ==
    ASSUME Tables, NEW c \in Commands, NEW i \in Ids, NEW a \in Addr,
           NEW x \in Positions, NEW y \in Positions,
           a = station.addrOf[i], x = station.pos[i], y = Processed(c).pos[i]
    PROVE  /\ LastIs(Answers(c), StatesOf(i), State(i, y))
           /\ \/ Has(Answers(c), StatesOf(i))
              \/ y = x /\ c \notin Others(a, x)
              \/ i \notin station.viewed
           /\ c = Cmd("get", i) => Has(Answers(c), StatesOf(i))
           /\ c = Cmd("query", NoId) => Has(Answers(c), ObjectsOf(i))
           /\ c = Cmd("view", i) => i \in Processed(c).viewed
<1>0. station \in Stations
  BY TablesParts
\* A command that is not to switch leaves positions alone.
<1>1. ASSUME c.op # "switch"
      PROVE  y = x /\ c \notin Others(a, x)
  <2>1. c \notin Others(a, x)
    BY <1>1 DEF Others, Switch
  <2>2. y = x
    BY <1>0, <1>1 DEF Processed, Stations
  <2> QED
    BY <2>1, <2>2
<1>2. ASSUME \A k \in 1 .. Len(Answers(c)) : Answers(c)[k] \notin StatesOf(i)
      PROVE  LastIs(Answers(c), StatesOf(i), State(i, y))
  BY <1>2 DEF LastIs
<1>3. CASE \E j \in Ids : c \in {Cmd("view", j), Cmd("get", j)}
  <2>1. PICK j \in Ids : c \in {Cmd("view", j), Cmd("get", j)}
    BY <1>3
  <2>2. y = x /\ c \notin Others(a, x) /\ c # Cmd("query", NoId)
    BY <1>1, <2>1 DEF Cmd
  <2>3. CASE c = Cmd("view", j)
    <3>1. Answers(c) = <<>> /\ c # Cmd("get", i)
      BY <2>3, Processing DEF Cmd
    <3>2. c = Cmd("view", i) => j = i
      BY <2>3 DEF Cmd
    <3>3. Processed(c) = [station EXCEPT !.viewed = @ \cup {j}]
      BY <2>3, Processing
    <3>4. j \in Processed(c).viewed
      BY <1>0, <3>3 DEF Stations
    <3> QED
      BY <1>2, <2>2, <3>1, <3>2, <3>4
  <2>4. CASE c = Cmd("get", j)
    <3>1. Answers(c) = <<State(j, station.pos[j])>>
      BY <2>4, Processing
    <3>2. c = Cmd("get", i) => j = i
      BY <2>4 DEF Cmd
    <3>3. c # Cmd("view", i)
      BY <2>4 DEF Cmd
    <3>4. CASE j = i
      <4>1. Answers(c) = <<State(i, y)>> /\ State(i, y) \in StatesOf(i)
        BY <2>2, <3>1, <3>4 DEF StatesOf
      <4> QED
        BY <2>2, <3>3, <4>1 DEF LastIs, Has
    <3>5. CASE j # i
      <4>1. State(j, station.pos[j]) \notin StatesOf(i)
        BY <3>5, Kinds DEF StatesOf
      <4> QED
        BY <1>2, <2>2, <3>1, <3>2, <3>3, <3>5, <4>1
    <3> QED
      BY <3>4, <3>5
  <2> QED
    BY <2>1, <2>3, <2>4
<1>4. CASE c \in {Cmd("watch", NoId), Cmd("status", NoId)} \/ \E g \in BOOLEAN : c = RunCmd(g)
  <2>1. c.op \in {"watch", "status", "stop", "go"}
    BY <1>4 DEF RunCmd, Cmd
  <2>2. c # Cmd("get", i) /\ c # Cmd("query", NoId) /\ c # Cmd("view", i)
    BY <2>1 DEF Cmd
  <2>3. PICK g \in BOOLEAN : Answers(c) = <<>> \/ Answers(c) = <<Run(g)>>
    <3>1. CASE c \in {Cmd("watch", NoId), Cmd("status", NoId)}
      <4>1. PICK g \in BOOLEAN : g = station.go
        BY <1>0 DEF Stations
      <4> QED
        BY <3>1, <4>1, Processing
    <3>2. CASE \E g \in BOOLEAN : c = RunCmd(g)
      <4>1. PICK g \in BOOLEAN : c = RunCmd(g)
        BY <3>2
      <4> QED
        BY <4>1, Processing
    <3> QED
      BY <1>4, <3>1, <3>2
  <2>4. Run(g) \notin StatesOf(i)
    BY Kinds DEF StatesOf, Runs
  <2> QED
    BY <1>1, <1>2, <2>1, <2>2, <2>3, <2>4
<1>5. CASE c = Cmd("query", NoId)
  <2>1. Answers(c) = Objects
    BY <1>5, Processing
  <2>2. c.op = "query" /\ c # Cmd("get", i) /\ c # Cmd("view", i)
    BY <1>5 DEF Cmd
  <2>3. Has(Objects, ObjectsOf(i))
    BY ObjectsListed DEF Has, ObjectsOf, Tables
  <2>4. \A k \in 1 .. Len(Objects) : Objects[k] \notin StatesOf(i)
    BY ObjectsListed, Kinds DEF StatesOf, Tables
  <2> QED
    BY <1>1, <1>2, <2>1, <2>2, <2>3, <2>4
<1>6. CASE \E b \in Addr, d \in Positions : c = Switch(b, d)
  <2>1. PICK b \in Addr, d \in Positions : c = Switch(b, d)
    BY <1>6
  <2>2. Answers(c) = Events(b, d) /\ Processed(c) = [station EXCEPT !.pos = Thrown(b, d)]
    BY <2>1, Processing
  <2>3. c # Cmd("get", i) /\ c # Cmd("query", NoId) /\ c # Cmd("view", i)
    BY <2>1 DEF Cmd, Switch
  <2>4. y = IF i \in With(b, d) THEN d ELSE x
    BY <1>0, <2>2 DEF Stations, Thrown
  <2>5. i \in With(b, d) <=> (a = b /\ x # d)
    BY DEF With
  <2>6. c \in Others(a, x) => i \in With(b, d)
    BY <2>1, <2>5 DEF Others, Switch
  <2>7. /\ LastIs(Events(b, d), StatesOf(i), State(i, y))
        /\ i \in With(b, d) \cap station.viewed => Has(Events(b, d), StatesOf(i))
    BY <2>4, ThrowEvents
  <2> QED
    BY <2>2, <2>3, <2>4, <2>6, <2>7
<1> QED
  BY <1>3, <1>4, <1>5, <1>6, CommandKinds

LEMMA StationTurnout ==
    ASSUME Tables, NEW i \in Ids, TurnoutSound(i), StationStep
    PROVE  TurnoutSound(i)'
<1>1. /\ toEcos # <<>> /\ toEcos' = Tail(toEcos) /\ UNCHANGED <<map, known>>
      /\ station' = Processed(Head(toEcos))
      /\ fromEcos' = fromEcos \o Answers(Head(toEcos))
  BY DEF StationStep, bridge
<1>2. PICK c \in Commands : c = Head(toEcos)
  BY <1>1, TablesParts
<1>3. PICK a \in Addr, x \in Positions, y \in Positions :
         /\ a = station.addrOf[i] /\ a = station'.addrOf[i]
         /\ x = station.pos[i] /\ y = station'.pos[i] /\ y = Processed(c).pos[i]
  <2>1. station \in Stations /\ station' \in Stations /\ station'.addrOf = station.addrOf
    BY <1>1, <1>2, TablesParts, ProcessedType, ProcessedKeeps
  <2> QED
    BY <1>1, <1>2, <2>1 DEF Stations
<1>4. /\ LastIs(Answers(c), StatesOf(i), State(i, y))
      /\ \/ Has(Answers(c), StatesOf(i))
         \/ y = x /\ c \notin Others(a, x)
         \/ i \notin station.viewed
      /\ c = Cmd("get", i) => Has(Answers(c), StatesOf(i))
      /\ c = Cmd("query", NoId) => Has(Answers(c), ObjectsOf(i))
      /\ c = Cmd("view", i) => i \in station'.viewed
  BY <1>1, <1>2, <1>3, AnswersTurnout
<1>5. /\ toEcos \in Seq(Commands) /\ fromEcos \in Seq(Messages)
      /\ Answers(c) \in Seq(Messages) /\ station.viewed \subseteq station'.viewed
  BY <1>1, <1>2, TablesParts, ProcessedType, ProcessedKeeps
<1>6. /\ Has(Answers(c), StatesOf(i)) => Has(fromEcos', StatesOf(i))
      /\ Has(Answers(c), ObjectsOf(i)) => Has(fromEcos', ObjectsOf(i))
      /\ Has(fromEcos, ObjectsOf(i)) => Has(fromEcos', ObjectsOf(i))
      /\ Has(fromEcos, StatesOf(i)) => Has(fromEcos', StatesOf(i))
  BY <1>1, <1>2, <1>5, HasAppended
<1>7. HasEntry(i) => HasEntry(i)'
  BY <1>1 DEF HasEntry
<1>8. ~HasEntry(i) /\ ObjectDue(i) => TurnoutSound(i)'
  <2>1. Has(toEcos, {Cmd("query", NoId)}) =>
           c = Cmd("query", NoId) \/ Has(toEcos', {Cmd("query", NoId)})
    BY <1>1, <1>2, <1>5, LastTaken
  <2>2. HasEntry(i)' <=> HasEntry(i)
    BY <1>1 DEF HasEntry
  <2> QED
    BY <1>1, <1>4, <1>6, <2>1, <2>2 DEF TurnoutSound, ObjectDue
<1>9. WalkDue(i) => WalkDue(i)'
  BY <1>1 DEF WalkDue
\* With an answer about it, the turnout is on its way as it is.
<1>10. ASSUME i \in station'.viewed, Has(Answers(c), StatesOf(i))
       PROVE  Follows(i)'
  <2>1. LastIs(fromEcos', StatesOf(i), State(i, y))
    BY <1>1, <1>2, <1>4, <1>5, <1>10, LastAppended
  <2>2. Following(i, a, y)'
    BY <1>6, <1>10, <2>1 DEF Following
  <2> QED
    BY <1>3, <2>2 DEF Follows
<1>11. PositionDue(i) => PositionDue(i)' \/ Follows(i)'
  <2>1. \E v \in BOOLEAN : v <=> i \in station.viewed
    <3>1. CASE i \in station.viewed
      BY <3>1
    <3>2. CASE i \notin station.viewed
      BY <3>2
    <3> QED
      BY <3>1, <3>2
  <2>2. PICK v \in BOOLEAN : v <=> i \in station.viewed
    BY <2>1
  <2>3. ASSUME PositionDue(i)
        PROVE  \/ c = Cmd("get", i) /\ v
               \/ InOrder(Tail(toEcos), Cmd("view", i), Cmd("get", i), v \/ c = Cmd("view", i))
    <3>1. InOrder(toEcos, Cmd("view", i), Cmd("get", i), v)
      BY <2>2, <2>3 DEF PositionDue, InOrder
    <3> QED
      BY <1>1, <1>2, <1>5, <3>1, InOrderTaken
  <2>4. (v \/ c = Cmd("view", i)) => i \in station'.viewed
    BY <1>4, <1>5, <2>2
  <2>5. InOrder(Tail(toEcos), Cmd("view", i), Cmd("get", i), v \/ c = Cmd("view", i))
           => PositionDue(i)'
    BY <1>1, <2>4 DEF PositionDue, InOrder
  <2> QED
    BY <1>4, <1>10, <2>3, <2>4, <2>5
<1>12. Follows(i) => Follows(i)'
  <2>1. ASSUME Following(i, a, x)
        PROVE  Follows(i)'
    <3>1. i \in station.viewed /\ i \in station'.viewed
      BY <1>5, <2>1 DEF Following
    <3>2. CASE Has(Answers(c), StatesOf(i))
      BY <1>10, <3>1, <3>2
    <3>3. CASE y = x /\ c \notin Others(a, x)
      <4>1. LastIs(fromEcos', StatesOf(i), State(i, x))
        BY <1>1, <1>2, <1>4, <1>5, <2>1, <3>3, LastAppended DEF Following
      <4>2. Has(toEcos, Others(a, x)) => Has(toEcos', Others(a, x))
        BY <1>1, <1>2, <1>5, <3>3, LastTaken
      <4>3. Following(i, a, x)'
        BY <1>1, <1>6, <2>1, <3>1, <4>1, <4>2, HoldsKept, FollowingKept
      <4> QED
        BY <1>3, <3>3, <4>3 DEF Follows
    <3> QED
      BY <1>4, <3>1, <3>2, <3>3
  <2> QED
    BY <1>3, <2>1 DEF Follows
<1> QED
  BY <1>7, <1>8, <1>9, <1>11, <1>12, TurnoutKept

-----------------------------------------------------------------------------
(* The other steps.                                                        *)
LEMMA OperatorTurnout ==
    ASSUME Tables, NEW i \in Ids, TurnoutSound(i),
           NEW b \in Addr, NEW d \in Positions, OperatorThrows(b, d)
    PROVE  TurnoutSound(i)'
<1>1. /\ UNCHANGED <<map, known, toEcos>> /\ fromEcos' = fromEcos \o Events(b, d)
      /\ station' = [station EXCEPT !.pos = Thrown(b, d)]
  BY DEF OperatorThrows, bridge
<1>2. station \in Stations /\ station' \in Stations
  BY <1>1, TablesParts, ThrownType
<1>3. PICK a \in Addr, x \in Positions, y \in Positions :
         /\ a = station.addrOf[i] /\ a = station'.addrOf[i]
         /\ x = station.pos[i] /\ y = station'.pos[i]
  BY <1>1, <1>2 DEF Stations
<1>4. y = IF i \in With(b, d) THEN d ELSE x
  BY <1>1, <1>2, <1>3 DEF Stations, Thrown
<1>5. station'.viewed = station.viewed
  BY <1>1, <1>2 DEF Stations
<1>6. /\ LastIs(Events(b, d), StatesOf(i), State(i, y))
      /\ i \in With(b, d) \cap station.viewed => Has(Events(b, d), StatesOf(i))
      /\ i \notin With(b, d) => ~Has(Events(b, d), StatesOf(i))
  BY <1>3, <1>4, ThrowEvents
<1>7. /\ toEcos \in Seq(Commands) /\ fromEcos \in Seq(Messages)
      /\ Events(b, d) \in Seq(Messages)
  BY TablesParts, EventsListed DEF Tables
<1>8. CASE i \notin With(b, d)
  <2>1. <<>> \in Seq(Commands) /\ toEcos' = toEcos \o <<>>
    BY <1>1, <1>7
  <2> QED
    BY <1>1, <1>3, <1>4, <1>5, <1>6, <1>7, <1>8, <2>1, TurnoutAppend
<1>9. CASE i \in With(b, d)
  <2>1. HasEntry(i)' <=> HasEntry(i)
    BY <1>1 DEF HasEntry
  <2>2. ~HasEntry(i) /\ ObjectDue(i) => TurnoutSound(i)'
    <3>1. Has(fromEcos, ObjectsOf(i)) => Has(fromEcos', ObjectsOf(i))
      BY <1>1, <1>7, HasAppended
    <3> QED
      BY <1>1, <2>1, <3>1 DEF TurnoutSound, ObjectDue
  <2>3. WalkDue(i) => WalkDue(i)'
    BY <1>1 DEF WalkDue
  <2>4. PositionDue(i) => PositionDue(i)'
    BY <1>1, <1>5 DEF PositionDue
  <2>5. Follows(i) => Follows(i)'
    <3>1. ASSUME Follows(i)
          PROVE  Follows(i)'
      <4>1. i \in station.viewed
        BY <3>1 DEF Follows, Following
      <4>2. /\ Has(fromEcos', StatesOf(i))
            /\ LastIs(fromEcos', StatesOf(i), State(i, y))
        BY <1>1, <1>6, <1>7, <1>9, <4>1, HasAppended, LastAppended
      <4>3. Following(i, a, y)'
        BY <1>5, <4>1, <4>2 DEF Following
      <4> QED
        BY <1>3, <4>3 DEF Follows
    <3> QED
      BY <3>1
  <2> QED
    BY <2>1, <2>2, <2>3, <2>4, <2>5, TurnoutKept
<1> QED
  BY <1>8, <1>9

LEMMA ThrottleTurnout ==
    ASSUME Tables, connected, NEW i \in Ids, TurnoutSound(i),
           NEW b \in Addr, NEW d \in Positions, ThrottleThrows(b, d)
    PROVE  TurnoutSound(i)'
<1>1. /\ UNCHANGED <<map, fromEcos, station>> /\ Told(b, d)
      /\ toEcos' = Append(toEcos, Switch(b, d))
  BY DEF ThrottleThrows, OnlyThrottle, Send
<1>2. /\ toEcos \in Seq(Commands) /\ <<Switch(b, d)>> \in Seq(Commands)
      /\ toEcos' = toEcos \o <<Switch(b, d)>>
  <2>1. PICK c \in Commands : c = Switch(b, d)
    BY CommandTypes
  <2>2. toEcos \in Seq(Commands)
    BY TablesParts
  <2> QED
    BY <1>1, <2>1, <2>2
<1>3. HasEntry(i)' <=> HasEntry(i)
  BY <1>1 DEF HasEntry
<1>4. ~HasEntry(i) /\ ObjectDue(i) => TurnoutSound(i)'
  <2>1. Has(toEcos, {Cmd("query", NoId)}) => Has(toEcos', {Cmd("query", NoId)})
    BY <1>2, HasAppended
  <2> QED
    BY <1>1, <1>3, <2>1 DEF TurnoutSound, ObjectDue
<1>5. WalkDue(i) => WalkDue(i)'
  BY <1>1 DEF WalkDue
<1>6. PositionDue(i) => PositionDue(i)'
  <2> DEFINE v == i \in station.viewed
  <2>1. InOrder(toEcos, Cmd("view", i), Cmd("get", i), v)
           => InOrder(toEcos', Cmd("view", i), Cmd("get", i), v)
    BY <1>2, InOrderAppended
  <2> QED
    BY <1>1, <2>1 DEF PositionDue
<1>7. Follows(i) => Follows(i)'
  <2>1. PICK a \in Addr, x \in Positions : a = station.addrOf[i] /\ x = station.pos[i]
    BY PlaceOf
  <2>2. ASSUME Following(i, a, x)
        PROVE  Following(i, a, x)'
    <3>1. Has(toEcos, Others(a, x)) => Has(toEcos', Others(a, x))
      BY <1>2, HasAppended
    <3>2. Holds(a, x) => Holds(a, x)' \/ Has(toEcos', Others(a, x))
      <4>1. CASE a # b
        BY <1>1, <4>1, ToldHolds
      <4>2. CASE a = b /\ d = x
        BY <1>1, <4>2, ToldHolds
      <4>3. CASE a = b /\ d # x
        <5>1. Has(<<Switch(b, d)>>, Others(a, x))
          BY <4>3 DEF Has, Others
        <5> QED
          BY <1>2, <5>1, HasAppended
      <4> QED
        BY <4>1, <4>2, <4>3
    <3> QED
      BY <1>1, <2>2, <3>1, <3>2, FollowingKept DEF Following
  <2> QED
    BY <1>1, <2>1, <2>2, FollowsKept
<1> QED
  BY <1>3, <1>4, <1>5, <1>6, <1>7, TurnoutKept

LEMMA EndPassTurnout ==
    ASSUME Tables, NEW i \in Ids, TurnoutSound(i), EndPass
    PROVE  TurnoutSound(i)'
<1>1. /\ UNCHANGED <<known, fromEcos, station>> /\ map' = Subscribed(map)
      /\ toEcos' = toEcos \o SubscribeStep(map)
  BY DEF EndPass
<1>2. /\ map' \in Seq(Entries) /\ Len(map') = Len(map)
      /\ \A j \in 1 .. Len(map) : /\ map'[j].id = map[j].id
                                  /\ j # NextStep(map) => map'[j] = map[j]
      /\ SubscribeStep(map) \in Seq(Commands)
      /\ NextStep(map) # 0 =>
            /\ NextStep(map) \in 1 .. Len(map)
            /\ SubscribeStep(map) = <<Cmd("view", map[NextStep(map)].id),
                                      Cmd("get", map[NextStep(map)].id)>>
      /\ toEcos \in Seq(Commands)
  BY <1>1, TablesParts, SubscribedGets
<1>3. HasEntry(i)' <=> HasEntry(i)
  BY <1>2 DEF HasEntry
<1>4. ~HasEntry(i) /\ ObjectDue(i) => TurnoutSound(i)'
  <2>1. Has(toEcos, {Cmd("query", NoId)}) => Has(toEcos', {Cmd("query", NoId)})
    BY <1>1, <1>2, HasAppended
  <2> QED
    BY <1>1, <1>2, <1>3, <2>1 DEF TurnoutSound, ObjectDue, HasPlace
<1>5. WalkDue(i) => WalkDue(i)' \/ PositionDue(i)'
  <2>1. SUFFICES ASSUME NEW j \in 1 .. Len(map), map[j].id = i, ~map[j].subscribed
                 PROVE  WalkDue(i)' \/ PositionDue(i)'
    BY DEF WalkDue
  <2>2. CASE j # NextStep(map)
    BY <1>2, <2>1, <2>2 DEF WalkDue
  <2>3. CASE j = NextStep(map)
    <3>1. j # 0
      OBVIOUS
    <3>2. SubscribeStep(map) = <<Cmd("view", i), Cmd("get", i)>>
      BY <1>2, <2>1, <2>3, <3>1
    <3> DEFINE v == i \in station'.viewed
               q == <<Cmd("view", i), Cmd("get", i)>>
    <3>3. InOrder(q, Cmd("view", i), Cmd("get", i), v)
      <4>1. Len(q) = 2 /\ q[1] = Cmd("view", i) /\ q[2] = Cmd("get", i)
        OBVIOUS
      <4>2. 1 \in 1 .. Len(q) /\ 2 \in 1 .. Len(q) /\ 1 < 2
        BY <4>1
      <4> HIDE DEF q
      <4> QED
        BY <4>1, <4>2 DEF InOrder
    <3>4. q \in Seq(Commands)
      BY <1>2, <3>2
    <3>5. InOrder(toEcos \o q, Cmd("view", i), Cmd("get", i), v)
      <4> HIDE DEF q, v
      <4> QED
        BY <1>2, <3>3, <3>4, InOrderAppended
    <3> QED
      BY <1>1, <3>2, <3>5 DEF PositionDue
  <2> QED
    BY <2>2, <2>3
<1>6. PositionDue(i) => PositionDue(i)'
  <2> DEFINE v == i \in station.viewed
  <2>1. InOrder(toEcos, Cmd("view", i), Cmd("get", i), v)
           => InOrder(toEcos', Cmd("view", i), Cmd("get", i), v)
    BY <1>1, <1>2, InOrderAppended
  <2> QED
    BY <1>1, <2>1 DEF PositionDue
<1>7. Follows(i) => Follows(i)'
  <2>1. PICK a \in Addr, x \in Positions : a = station.addrOf[i] /\ x = station.pos[i]
    BY PlaceOf
  <2>2. Has(toEcos, Others(a, x)) => Has(toEcos', Others(a, x))
    BY <1>1, <1>2, HasAppended
  <2>3. Following(i, a, x) => Following(i, a, x)'
    BY <1>1, <2>2, HoldsKept, FollowingKept DEF Following
  <2> QED
    BY <1>1, <2>1, <2>3, FollowsKept
<1> QED
  BY <1>3, <1>4, <1>5, <1>6, <1>7, TurnoutKept

LEMMA ConnectTurnout ==
    ASSUME Tables, NEW i \in Ids, Connect
    PROVE  TurnoutSound(i)'
<1>1. map' = Unsubscribed(map) /\ toEcos' = Greeting
  BY DEF Connect
<1>2. Len(map') = Len(map) /\ \A j \in 1 .. Len(map) : ~map'[j].subscribed
  BY <1>1, TablesParts, UnsubscribedGets
<1>3. HasEntry(i)' => WalkDue(i)'
  BY <1>2 DEF HasEntry, WalkDue
<1>4. Has(Greeting, {Cmd("query", NoId)})
  BY DEF Has, Greeting
<1> QED
  BY <1>1, <1>3, <1>4 DEF TurnoutSound, ObjectDue

LEMMA TurnoutsStep ==
    ASSUME Tables, MapSound, TurnoutsSound, [Next]_vars
    PROVE  TurnoutsSound'
<1>1. SUFFICES ASSUME NEW i \in Ids, connected', Clean(station.addrOf[i])'
               PROVE  TurnoutSound(i)'
  BY DEF TurnoutsSound
<1>2. CASE Connect
  BY <1>2, ConnectTurnout
<1>3. ASSUME ~Connect
      PROVE  /\ connected /\ TurnoutSound(i) /\ Clean(station.addrOf[i])
             /\ station'.addrOf[i] = station.addrOf[i]
  <2>1. connected
    BY <1>1, <1>3 DEF Next, vars, bridge, ReadReply, EndPass, LoseConnection, StationStep,
       ThrottlePower, OnlyThrottle, OperatorRuns, ThrottleThrows, OperatorThrows, ThrottleAsks,
       Readdress
  <2>2. station \in Stations
    BY TablesParts
  <2>3. \/ edited' = edited /\ station'.addrOf = station.addrOf
        \/ \E k \in Ids, b \in Addr : Readdress(k, b)
    <3>1. CASE StationStep
      <4>1. Head(toEcos) \in Commands
        BY <3>1, TablesParts DEF StationStep
      <4> QED
        BY <3>1, <4>1, ProcessedKeeps DEF StationStep
    <3>2. CASE \/ LoseConnection \/ OperatorRuns
               \/ \E a \in Addr, d \in Positions : OperatorThrows(a, d)
      BY <2>2, <3>2 DEF LoseConnection, OperatorRuns, OperatorThrows, Stations
    <3>3. CASE \/ ReadReply \/ EndPass \/ ThrottlePower \/ UNCHANGED vars
               \/ \E a \in Addr, d \in Positions : ThrottleThrows(a, d)
               \/ \E p \in Protocols, a \in Addr : ThrottleAsks(p, a)
      BY <3>3 DEF vars, ReadReply, EndPass, ThrottlePower, OnlyThrottle, ThrottleThrows,
         ThrottleAsks
    <3> QED
      BY <1>3, <3>1, <3>2, <3>3 DEF Next
  <2>4. Clean(station.addrOf[i]) /\ station'.addrOf[i] = station.addrOf[i]
    <3>1. CASE edited' = edited /\ station'.addrOf = station.addrOf
      BY <1>1, <3>1 DEF Clean
    <3>2. CASE \E k \in Ids, b \in Addr : Readdress(k, b)
      <4>1. PICK k \in Ids, b \in Addr : Readdress(k, b)
        BY <3>2
      <4>2. /\ edited' = edited \cup {b, station.addrOf[k]}
            /\ station'.addrOf = [station.addrOf EXCEPT ![k] = b]
        BY <2>2, <4>1 DEF Readdress, Stations
      <4>3. station.addrOf \in [Ids -> Addr]
        BY <2>2 DEF Stations
      <4>4. k # i
        BY <1>1, <4>2, <4>3 DEF Clean
      <4> QED
        BY <1>1, <4>2, <4>3, <4>4 DEF Clean
    <3> QED
      BY <2>3, <3>1, <3>2
  <2> QED
    BY <2>1, <2>4 DEF TurnoutsSound
<1>4. /\ toEcos \in Seq(Commands) /\ fromEcos \in Seq(Messages)
      /\ <<>> \in Seq(Commands) /\ <<>> \in Seq(Messages)
      /\ toEcos = toEcos \o <<>> /\ fromEcos = fromEcos \o <<>>
      /\ ~Has(<<>>, StatesOf(i)) /\ station \in Stations
  BY TablesParts DEF Has
<1>5. ASSUME ~Connect, UNCHANGED <<map, known, toEcos, fromEcos>>,
             station'.pos[i] = station.pos[i], station'.viewed = station.viewed
      PROVE  TurnoutSound(i)'
  BY <1>3, <1>4, <1>5, TurnoutAppend
<1>6. ASSUME ~Connect
      PROVE  TurnoutSound(i)'
  <2>1. /\ connected /\ TurnoutSound(i) /\ Clean(station.addrOf[i])
        /\ station'.addrOf[i] = station.addrOf[i]
    BY <1>3, <1>6
  <2>2. CASE UNCHANGED vars
    BY <1>5, <1>6, <2>2 DEF vars, bridge
  <2>3. CASE LoseConnection
    BY <1>1, <2>3 DEF LoseConnection
  <2>4. CASE ThrottlePower
    <3>1. PICK x \in Powers : Send(RunCmd(x = "csNormal"))
      BY <2>4, TablesParts, PowerCases DEF PowerType
    <3>2. PICK c \in Commands : c = RunCmd(x = "csNormal")
      BY RunCmdType
    <3>3. <<c>> \in Seq(Commands) /\ toEcos' = toEcos \o <<c>>
      BY <1>4, <2>1, <3>1, <3>2 DEF Send
    <3>4. UNCHANGED <<map, known, fromEcos, station>>
      BY <2>4 DEF ThrottlePower, OnlyThrottle
    <3> QED
      BY <1>4, <2>1, <3>3, <3>4, TurnoutAppend
  <2>5. CASE OperatorRuns
    <3>1. PICK g \in BOOLEAN : g = ~station.go
      <4>1. station.go = TRUE \/ station.go = FALSE
        BY <1>4 DEF Stations
      <4> QED
        BY <4>1
    <3>2. /\ station'.pos = station.pos /\ station'.viewed = station.viewed
          /\ UNCHANGED <<map, known, toEcos>>
      BY <1>4, <2>5 DEF OperatorRuns, bridge, Stations
    <3>3. CASE fromEcos' = fromEcos
      BY <1>5, <1>6, <3>2, <3>3
    <3>4. CASE fromEcos' = Append(fromEcos, Run(g))
      <4>1. PICK m \in Messages : m = Run(g)
        BY MessageTypes
      <4>2. m \notin StatesOf(i)
        BY <4>1, Kinds DEF StatesOf, Runs
      <4>3. <<m>> \in Seq(Messages) /\ fromEcos' = fromEcos \o <<m>> /\ ~Has(<<m>>, StatesOf(i))
        BY <1>4, <3>4, <4>1, <4>2 DEF Has
      <4> QED
        BY <1>4, <2>1, <3>2, <4>3, TurnoutAppend
    <3> QED
      BY <2>5, <3>1, <3>3, <3>4 DEF OperatorRuns
  <2>6. ASSUME NEW p \in Protocols, NEW a \in Addr, ThrottleAsks(p, a)
        PROVE  TurnoutSound(i)'
    BY <1>5, <1>6, <2>6 DEF ThrottleAsks, OnlyThrottle
  <2>7. ASSUME NEW k \in Ids, NEW b \in Addr, Readdress(k, b)
        PROVE  TurnoutSound(i)'
    <3>1. station'.pos = station.pos /\ station'.viewed = station.viewed
      BY <1>4, <2>7 DEF Readdress, Stations
    <3> QED
      BY <1>5, <1>6, <2>7, <3>1 DEF Readdress, bridge
  <2> QED
    BY <1>6, <2>1, <2>2, <2>3, <2>4, <2>5, <2>6, <2>7, ReadTurnout, StationTurnout,
       OperatorTurnout, ThrottleTurnout, EndPassTurnout DEF Next
<1> QED
  BY <1>2, <1>6

-----------------------------------------------------------------------------
IInv == Tables /\ MapSound /\ ShownSound /\ TurnoutsSound /\ RunSound

LEMMA InitSound == Init => IInv
<1>1. Init => TurnoutsSound /\ RunSound
  BY DEF Init, TurnoutsSound, RunSound
<1> QED
  BY <1>1, InitTables, InitMap, InitShown DEF IInv

LEMMA StepSound == IInv /\ [Next]_vars => IInv'
  BY TablesStep, MapSoundStep, ShownSoundStep, TurnoutsStep, RunSoundStep DEF IInv

(* A turnout thrown from two throttles and at the ECoS at once, across a   *)
(* lost connection, is shown everywhere as it stands once nothing is under *)
(* way: handleEcosAccessoryCommand(), handleAccessoryCommand() and the     *)
(* subscription walk leave no stale position, for any number of turnouts.  *)
THEOREM TurnoutsAlwaysAgree == Spec => []TurnoutsAgree
<1>1. ASSUME IInv, Settled, NEW i \in Ids, station.addrOf[i] \notin edited
      PROVE  Agrees(i)
  <2>1. /\ Tables /\ connected /\ toEcos = <<>> /\ fromEcos = <<>> /\ NextStep(map) = 0
        /\ TurnoutSound(i)
    BY <1>1 DEF IInv, Settled, TurnoutsSound, Clean
  <2>2. ASSUME NEW S
        PROVE  ~Has(toEcos, S) /\ ~Has(fromEcos, S)
    BY <2>1 DEF Has
  <2>3. EntryOf(map, i) = 0 <=> ~HasEntry(i)
    BY <2>1, TablesParts, EntryIn DEF HasEntry
  <2>4. CASE ~HasEntry(i)
    <3>1. ~HasPlace(map)
      BY <2>1, <2>2, <2>4 DEF TurnoutSound, ObjectDue
    <3> QED
      BY <2>3, <2>4, <3>1 DEF Agrees
  <2>5. CASE HasEntry(i)
    <3>1. ~WalkDue(i)
      BY <2>1, TablesParts, NextStepIn DEF WalkDue
    <3>2. ~PositionDue(i)
      BY <2>1 DEF PositionDue, InOrder
    <3>3. PICK a \in Addr, x \in Positions :
             a = station.addrOf[i] /\ x = station.pos[i] /\ Following(i, a, x)
      BY <2>1, <2>5, <3>1, <3>2 DEF TurnoutSound, Follows
    <3>4. Holds(a, x)
      BY <2>2, <3>3 DEF Following
    <3>5. x # Unknown
      BY LayoutAssumption
    <3>6. CASE Find(a, known) = 0
      <4>1. GetKnown(a) = Unknown
        BY <3>6 DEF GetKnown
      <4>2. ~HasRoom(known)
        BY <3>4, <3>5, <4>1 DEF Holds
      <4> QED
        BY <2>3, <2>5, <3>3, <3>6, <4>2 DEF Agrees
    <3>7. CASE Find(a, known) # 0
      <4>1. known[Find(a, known)] \in KnownEntries
        BY <2>1, <3>7, TablesParts, FindIn
      <4>2. GetKnown(a) \in Positions
        BY <3>7, <4>1 DEF GetKnown, KnownEntries
      <4>3. GetKnown(a) = x
        BY <3>4, <4>2, LayoutAssumption DEF Holds
      <4>4. \A p \in Protocols : shown[p][a] = x
        BY <1>1, <3>5, <4>3 DEF IInv, ShownSound
      <4> QED
        BY <2>3, <2>5, <3>3, <3>7, <4>3, <4>4 DEF Agrees
    <3> QED
      BY <3>6, <3>7
  <2> QED
    BY <2>4, <2>5
<1>2. IInv => TurnoutsAgree
  BY <1>1 DEF TurnoutsAgree
<1> QED
  BY <1>2, InitSound, StepSound, PTL DEF Spec

(* Railpower, emergency_stop_active and the track status of the LocoNet    *)
(* slots, each changed by its own protocol and by ECoS's events, all end   *)
(* up as ECoS runs, whoever pressed stop or go last.                       *)
THEOREM StopAlwaysAgrees == Spec => []StopAgrees
<1>1. ASSUME IInv, Settled
      PROVE  RunsAs(station.go)
  <2>1. connected /\ toEcos = <<>> /\ fromEcos = <<>> /\ RunSound
    BY <1>1 DEF IInv, Settled
  <2>2. ~StatusDue
    BY <2>1 DEF StatusDue, InOrder
  <2>3. ~Has(fromEcos, Runs) /\ ~Has(toEcos, {RunCmd(~station.go)})
    BY <2>1 DEF Has
  <2> QED
    BY <2>1, <2>2, <2>3 DEF RunSound
<1>2. IInv => StopAgrees
  BY <1>1 DEF StopAgrees, RunsAs
<1> QED
  BY <1>2, InitSound, StepSound, PTL DEF Spec
=============================================================================
