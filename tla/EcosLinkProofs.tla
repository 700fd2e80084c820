---------------------------- MODULE EcosLinkProofs ----------------------------
(***************************************************************************)
(* For any set of locos and any bounds: the connection's state stays well  *)
(* formed whatever fails, the address map never outlives the connection,   *)
(* and no command overtakes one that waits in the buffer.  The three are   *)
(* inductive together: the map is empty while there is no connection, so   *)
(* a command then goes to the buffer, and every pass that may have grown   *)
(* the map also flushes what it makes deliverable.                         *)
(* On top of these: what a throttle asked for last is on its way to ECoS   *)
(* (Promise), what ECoS does about stop and go is on its way to the        *)
(* throttles (RunNews), and the locos of the table are viewed, about to be *)
(* viewed or still ahead of the re-subscription (ViewInv).                 *)
(* The parser under the connection, whose bytes come from another machine, *)
(* is the last part (StreamInv).                                           *)
(***************************************************************************)
EXTENDS EcosLink, EcosParser, SequenceTheorems, FiniteSetTheorems, TLAPS

IInv ==
    /\ TypeOK
    /\ NoStaleMap
    /\ NothingOvertakesQueue

-----------------------------------------------------------------------------
(* The operators the actions are built from. *)
(* What is written to a socket is a sequence of commands or goes nowhere. *)
LEMMA WrittenType ==
    ASSUME TypeOK, NEW cmds \in Seq(Commands)
    PROVE  Written(cmds) \in Seq(Commands)
  BY DEF Written, TypeOK

(* A command about the connection, and one about a loco ECoS has. *)
LEMMA CommandTypes ==
    /\ \A op \in {"query", "watch", "status", "stop", "go"} : System(op) \in Commands
    /\ \A a \in EcosAddr, op \in {"request", "release", "get"} :
          Cmd(op, a, NoSpeed) \in Commands
    /\ \A a \in EcosAddr, v \in Speeds : Cmd("set", a, v) \in Commands
  BY DEF System, Cmd, Commands

(* A subscription asks only for a loco in the address map. *)
LEMMA SubscriptionType ==
    ASSUME TypeOK, NEW a \in Addr
    PROVE  /\ Subscription(a) \in Seq(Commands)
           /\ Subscribe(a) => baseline' \in EcosAddr \cup {NoAddr}
<1>1. CanSubscribe(a) => a \in EcosAddr
  BY DEF CanSubscribe, TypeOK
<1>2. CanSubscribe(a) => <<Cmd("request", a, NoSpeed)>> \in Seq(Commands)
  BY <1>1, CommandTypes
<1> QED
  BY <1>1, <1>2 DEF Subscription, Subscribe, TypeOK

(* Storing a loco that is there or has room keeps the table in bounds. *)
LEMMA StoredType ==
    ASSUME TypeOK, NEW a \in Addr, NEW v \in Speeds, CanStore(a)
    PROVE  Stored(a, v) \in Seq(Entry) /\ Len(Stored(a, v)) <= MaxLocos
<1>1. [addr |-> a, speed |-> v] \in Entry
  BY DEF Entry
<1>2. /\ locos \in Seq(Entry) /\ Len(locos) \in Nat /\ Len(locos) <= MaxLocos
      /\ \A i \in 1 .. Len(locos) : locos[i] \in Entry
  BY DEF TypeOK
<1>3. CASE a \in Tracked
  <2> DEFINE new == [i \in 1 .. Len(locos) |-> IF locos[i].addr = a
                        THEN [addr |-> a, speed |-> v] ELSE locos[i]]
  <2>1. new \in [1 .. Len(locos) -> Entry]
    BY <1>1, <1>2
  <2>2. new \in Seq(Entry) /\ Len(new) = Len(locos)
    BY <1>2, <2>1
  <2>3. Stored(a, v) = new
    BY <1>3 DEF Stored
  <2> QED
    BY <1>2, <2>2, <2>3
<1>4. CASE a \notin Tracked
  <2>1. Stored(a, v) = Append(locos, [addr |-> a, speed |-> v])
    BY <1>4 DEF Stored
  <2>2. Len(locos) < MaxLocos
    BY <1>4 DEF CanStore
  <2> QED
    BY <1>1, <1>2, <2>1, <2>2, LinkAssumption
<1> QED
  BY <1>3, <1>4

(* An emergency stop keeps every entry and sets its speed to 0. *)
LEMMA AllStoppedType ==
    ASSUME TypeOK
    PROVE  AllStopped \in Seq(Entry) /\ Len(AllStopped) <= MaxLocos
<1>1. /\ Len(locos) \in Nat /\ Len(locos) <= MaxLocos
      /\ \A i \in 1 .. Len(locos) : locos[i] \in Entry
  BY DEF TypeOK
<1>2. AllStopped \in [1 .. Len(locos) -> Entry]
  BY <1>1, LinkAssumption DEF AllStopped, Entry
<1> QED
  BY <1>1, <1>2

(* Only throttle addresses are in the table. *)
LEMMA TrackedType ==
    ASSUME TypeOK
    PROVE  Tracked \subseteq Addr
<1>1. \A i \in 1 .. Len(locos) : locos[i] \in Entry
  BY DEF TypeOK
<1> QED
  BY <1>1 DEF Tracked, Entry

(* Closing the gap an expired loco leaves keeps the others as they are. *)
LEMMA WithoutType ==
    ASSUME TypeOK, NEW i \in 1 .. Len(locos)
    PROVE  Without(i) \in Seq(Entry) /\ Len(Without(i)) <= MaxLocos
<1>1. Len(locos) \in Nat /\ Len(locos) <= MaxLocos /\ Len(locos) - 1 \in Nat
  BY DEF TypeOK
<1>2. \A j \in 1 .. Len(locos) - 1 :
         (IF j < i THEN locos[j] ELSE locos[j + 1]) \in Entry
  BY <1>1 DEF TypeOK
<1>3. Without(i) \in [1 .. Len(locos) - 1 -> Entry]
  BY <1>2 DEF Without
<1> QED
  BY <1>1, <1>3, LinkAssumption

(* The addresses with a queued command are finitely many. *)
LEMMA WaitingFinite ==
    IsFiniteSet(Waiting) /\ Cardinality(Waiting) \in Nat
<1>1. Waiting \in SUBSET Addr
  BY DEF Waiting
<1> QED
  BY <1>1, LinkAssumption, FS_Subset, FS_CardinalityType

(* queuePendingQuery() takes no more than MAX_PENDING_QUERIES addresses. *)
LEMMA QueuedType ==
    ASSUME TypeOK, NEW a \in Addr, NEW v \in Speeds, pending' = Queued(a, v)
    PROVE  /\ pending' \in [Addr -> Speeds \cup {NoSpeed}]
           /\ Cardinality(Waiting') <= MaxPending
           /\ \A b \in Addr \ {a} : pending'[b] = pending[b]
<1>1. /\ pending' \in [Addr -> Speeds \cup {NoSpeed}]
      /\ pending'[a] = IF CanQueue(a) THEN v ELSE pending[a]
      /\ \A b \in Addr \ {a} : pending'[b] = pending[b]
  BY DEF Queued, TypeOK
<1>2. Cardinality(Waiting) \in Nat /\ Cardinality(Waiting) <= MaxPending
      /\ IsFiniteSet(Waiting) /\ MaxPending \in Nat
  BY WaitingFinite, LinkAssumption DEF TypeOK
<1>3. CASE CanQueue(a) /\ a \notin Waiting
  <2>1. Cardinality(Waiting) < MaxPending
    BY <1>3 DEF CanQueue
  <2>2. Cardinality(Waiting \cup {a}) = Cardinality(Waiting) + 1
        /\ IsFiniteSet(Waiting \cup {a})
    BY <1>2, <1>3, FS_AddElement
  <2>3. Waiting' \in SUBSET (Waiting \cup {a})
    BY <1>1 DEF Waiting
  <2>4. Cardinality(Waiting') \in Nat
        /\ Cardinality(Waiting') <= Cardinality(Waiting \cup {a})
    BY <2>2, <2>3, FS_Subset, FS_CardinalityType
  <2> QED
    BY <1>1, <1>2, <2>1, <2>2, <2>4
<1>4. CASE ~(CanQueue(a) /\ a \notin Waiting)
  <2>1. Waiting' \in SUBSET Waiting
    BY <1>1, <1>4 DEF Waiting, CanQueue
  <2>2. Cardinality(Waiting') \in Nat /\ Cardinality(Waiting') <= Cardinality(Waiting)
    BY <1>2, <2>1, FS_Subset, FS_CardinalityType
  <2> QED
    BY <1>1, <1>2, <2>2
<1> QED
  BY <1>3, <1>4

(* SetToSeq() lists every element of a finite set, and each only once. *)
LEMMA SetToSeqElements ==
    ASSUME NEW S, IsFiniteSet(S)
    PROVE  /\ SetToSeq(S) \in Seq(S)
           /\ \A i, j \in 1 .. Len(SetToSeq(S)) :
                 SetToSeq(S)[i] = SetToSeq(S)[j] => i = j
           /\ \A a \in S : \E i \in 1 .. Len(SetToSeq(S)) : SetToSeq(S)[i] = a
<1> DEFINE n == Cardinality(S)
           q == SetToSeq(S)
<1>1. n \in Nat /\ ExistsBijection(1 .. n, S)
  BY FS_CardinalityType
<1>2. PICK f \in [1 .. n -> S] : IsInjective(f)
  BY <1>1 DEF ExistsBijection, Bijection, Injection
<1>3. q \in [1 .. n -> S] /\ IsInjective(q)
  BY <1>2 DEF SetToSeq
<1>4. Cardinality(1 .. n) = n
  BY <1>1, FS_Interval
<1> HIDE DEF n, q
<1>5. q \in Injection(1 .. n, S)
  BY <1>3 DEF Injection
<1>6. q \in Surjection(1 .. n, S)
  BY <1>4, <1>5, FS_Injection DEF n
<1>7. q \in Seq(S) /\ Len(q) = n
  BY <1>1, <1>3
<1>8. \A a \in S : \E i \in 1 .. n : q[i] = a
  BY <1>6 DEF Surjection
<1>9. \A i, j \in 1 .. n : q[i] = q[j] => i = j
  BY <1>3 DEF IsInjective
<1> QED
  BY <1>7, <1>8, <1>9 DEF q

(* A flush writes one command per deliverable entry of the buffer. *)
LEMMA FlushSetsType ==
    ASSUME TypeOK, NEW M \in SUBSET EcosAddr
    PROVE  FlushSets(M) \in Seq(Commands)
<1> DEFINE S == Flushable(M)
           order == SetToSeq(S)
<1>1. S \in SUBSET EcosAddr /\ IsFiniteSet(S)
  <2>1. S \in SUBSET Addr /\ S \in SUBSET EcosAddr
    BY LinkAssumption DEF Flushable
  <2> QED
    BY <2>1, LinkAssumption, FS_Subset
<1>2. \A a \in S : a \in EcosAddr /\ pending[a] \in Speeds
  BY <1>1, LinkAssumption DEF Flushable, TypeOK
<1>3. order \in Seq(S)
  BY <1>1, SetToSeqElements
<1> HIDE DEF order, S
<1>4. /\ Len(order) \in Nat /\ DOMAIN order = 1 .. Len(order)
      /\ \A i \in 1 .. Len(order) : order[i] \in S
  BY <1>3
<1>5. \A i \in 1 .. Len(order) : Cmd("set", order[i], pending[order[i]]) \in Commands
  BY <1>2, <1>4, CommandTypes
<1>6. [i \in DOMAIN order |-> Cmd("set", order[i], pending[order[i]])] \in Seq(Commands)
  BY <1>4, <1>5
<1> QED
  BY <1>6 DEF FlushSets, order, S

(* What a flush leaves in the buffer. *)
LEMMA UnflushedType ==
    ASSUME TypeOK, NEW M \in SUBSET EcosAddr, pending' = Unflushed(M)
    PROVE  /\ pending' \in [Addr -> Speeds \cup {NoSpeed}]
           /\ Cardinality(Waiting') <= MaxPending
           /\ \A a \in M : pending'[a] = NoSpeed
<1>1. /\ pending' \in [Addr -> Speeds \cup {NoSpeed}]
      /\ \A a \in Addr : pending'[a] \in {NoSpeed, pending[a]}
  BY DEF Unflushed, TypeOK
<1>2. \A a \in M : pending'[a] = NoSpeed
  BY LinkAssumption DEF Unflushed, Flushable, TypeOK
<1>3. Waiting' \in SUBSET Waiting
  BY <1>1 DEF Waiting
<1>4. /\ Cardinality(Waiting') <= Cardinality(Waiting)
      /\ Cardinality(Waiting') \in Nat /\ Cardinality(Waiting) \in Nat
  BY <1>3, WaitingFinite, FS_Subset, FS_CardinalityType
<1> QED
  BY <1>1, <1>2, <1>4, LinkAssumption DEF TypeOK

-----------------------------------------------------------------------------
(* One lemma per action. *)
(* Before the first connection there is no map and nothing is queued. *)
LEMMA InitIInv == Init => IInv
<1> SUFFICES ASSUME Init
             PROVE  IInv
  OBVIOUS
<1>1. Waiting = {}
  BY DEF Init, Waiting
<1>2. Cardinality(Waiting) <= MaxPending
  BY <1>1, FS_EmptySet, LinkAssumption
<1>3. /\ resub \in [pending : BOOLEAN, index : Nat \ {0}]
      /\ pending \in [Addr -> Speeds \cup {NoSpeed}]
      /\ wish \in [Addr -> Speeds \cup {NoSpeed}]
      /\ locos \in Seq(Entry) /\ Len(locos) <= MaxLocos
      /\ toEcos \in Seq(Commands) /\ fromEcos \in Seq(Messages)
      /\ ops \in 0 .. MaxOps /\ faults \in 0 .. MaxFaults
  BY LinkAssumption DEF Init
<1>4. station \in Stations
  BY ZenonT(40), LinkAssumption DEF Init, Stations
<1> QED
  BY <1>2, <1>3, <1>4, LinkAssumption
  DEF Init, IInv, TypeOK, NoStaleMap, NothingOvertakesQueue, Networks

(* A throttle action stays within its bound. *)
LEMMA OperateType ==
    ASSUME TypeOK, Operate
    PROVE  ops' \in 0 .. MaxOps
  BY LinkAssumption DEF Operate, TypeOK

(* A drive command is queued only while its loco is not in the map. *)
LEMMA ThrottleDriveIInv ==
    ASSUME IInv, NEW a \in Addr, NEW v \in Speeds, ThrottleDrive(a, v)
    PROVE  IInv'
<1>0. TypeOK
  BY DEF IInv
<1>1. locos' \in Seq(Entry) /\ Len(locos') <= MaxLocos
  BY <1>0, StoredType DEF ThrottleDrive
<1>2. baseline' \in EcosAddr \cup {NoAddr}
  BY <1>0, SubscriptionType DEF ThrottleDrive
<1>3. ops' \in 0 .. MaxOps
  BY <1>0, OperateType DEF ThrottleDrive
<1>4. wish' \in [Addr -> Speeds \cup {NoSpeed}] /\ halted' \subseteq Addr
  BY <1>0 DEF ThrottleDrive, TypeOK
<1>5. /\ toEcos' \in Seq(Commands)
      /\ pending' \in [Addr -> Speeds \cup {NoSpeed}]
      /\ Cardinality(Waiting') <= MaxPending
      /\ \A b \in addrMap : pending'[b] = NoSpeed
  <2>1. CASE a \in addrMap
    <3>1. pending' = pending
          /\ toEcos' = Written(Subscription(a) \o <<Cmd("set", a, v)>>)
      BY <2>1 DEF ThrottleDrive
    <3>2. <<Cmd("set", a, v)>> \in Seq(Commands)
      BY <1>0, <2>1, CommandTypes DEF TypeOK
    <3>3. Subscription(a) \o <<Cmd("set", a, v)>> \in Seq(Commands)
      BY <1>0, <3>2, SubscriptionType
    <3> QED
      BY <1>0, <3>1, <3>3, WrittenType DEF IInv, TypeOK, NothingOvertakesQueue, Waiting
  <2>2. CASE a \notin addrMap
    <3>1. pending' = Queued(a, v) /\ toEcos' = toEcos
      BY <2>2 DEF ThrottleDrive
    <3>2. \A b \in addrMap : b \in Addr \ {a}
      BY <1>0, <2>2, LinkAssumption DEF TypeOK
    <3> QED
      BY <1>0, <3>1, <3>2, QueuedType DEF IInv, TypeOK, NothingOvertakesQueue
  <2> QED
    BY <2>1, <2>2
<1>6. UNCHANGED <<status, net, socket, addrMap, resub, running, fromEcos,
                  station, clean, faults>>
  BY DEF ThrottleDrive
<1> QED
  BY <1>0, <1>1, <1>2, <1>3, <1>4, <1>5, <1>6
  DEF IInv, TypeOK, NoStaleMap, NothingOvertakesQueue

(* A selected loco takes a place in the table and perhaps a view. *)
LEMMA ThrottleSelectIInv ==
    ASSUME IInv, NEW a \in Addr, ThrottleSelect(a)
    PROVE  IInv'
<1>0. TypeOK
  BY DEF IInv
<1>1. locos' \in Seq(Entry) /\ Len(locos') <= MaxLocos
  BY <1>0, StoredType, LinkAssumption DEF ThrottleSelect
<1>2. baseline' \in EcosAddr \cup {NoAddr} /\ toEcos' \in Seq(Commands)
  BY <1>0, SubscriptionType, WrittenType DEF ThrottleSelect
<1>3. ops' \in 0 .. MaxOps
  BY <1>0, OperateType DEF ThrottleSelect
<1>4. UNCHANGED <<status, net, socket, addrMap, pending, resub, running,
                  fromEcos, station, wish, halted, clean, faults>>
  BY DEF ThrottleSelect, hist
<1> QED
  BY <1>0, <1>1, <1>2, <1>3, <1>4
  DEF IInv, TypeOK, NoStaleMap, NothingOvertakesQueue, Waiting

(* Stop and resume change the table and the stream, never the buffer. *)
LEMMA ThrottleRunsIInv ==
    ASSUME IInv, ThrottleStop \/ ThrottleGo
    PROVE  IInv'
<1>0. TypeOK
  BY DEF IInv
<1>1. locos' \in Seq(Entry) /\ Len(locos') <= MaxLocos
  BY <1>0, AllStoppedType DEF ThrottleStop, ThrottleGo, TypeOK
<1>2. <<System("stop")>> \in Seq(Commands) /\ <<System("go")>> \in Seq(Commands)
  BY CommandTypes
<1>3. toEcos' \in Seq(Commands)
  BY <1>0, <1>2, WrittenType DEF ThrottleStop, ThrottleGo, TypeOK
<1>4. Tracked \subseteq Addr
  BY <1>0, TrackedType
<1>5. wish' \in [Addr -> Speeds \cup {NoSpeed}] /\ halted' \subseteq Addr
      /\ running' \in BOOLEAN
  BY <1>0, <1>4 DEF ThrottleStop, ThrottleGo, TypeOK, hist
<1>6. ops' \in 0 .. MaxOps
  BY <1>0, OperateType DEF ThrottleStop, ThrottleGo
<1>7. UNCHANGED <<status, net, socket, addrMap, pending, resub, baseline,
                  fromEcos, station, clean, faults>>
  BY DEF ThrottleStop, ThrottleGo, conn, hist
<1> QED
  BY <1>0, <1>1, <1>3, <1>5, <1>6, <1>7
  DEF IInv, TypeOK, NoStaleMap, NothingOvertakesQueue, Waiting

(* Expiry closes the gap in the table and releases a view that it had. *)
LEMMA ExpireIInv ==
    ASSUME IInv, NEW i \in 1 .. Len(locos), Expire(i)
    PROVE  IInv'
<1>0. TypeOK
  BY DEF IInv
<1>1. locos' \in Seq(Entry) /\ Len(locos') <= MaxLocos
  BY <1>0, WithoutType DEF Expire
<1>2. toEcos' \in Seq(Commands)
  <2> DEFINE a == locos[i].addr
  <2>1. toEcos' = IF CanSubscribe(a) THEN Written(<<Cmd("release", a, NoSpeed)>>)
                                     ELSE toEcos
    BY DEF Expire
  <2> HIDE DEF a
  <2>2. CanSubscribe(a) => <<Cmd("release", a, NoSpeed)>> \in Seq(Commands)
    BY <1>0, CommandTypes DEF CanSubscribe, TypeOK
  <2> QED
    BY <1>0, <2>1, <2>2, WrittenType DEF TypeOK
<1>3. clean' \in BOOLEAN
  BY <1>0 DEF Expire, TypeOK
<1>4. UNCHANGED <<status, net, socket, addrMap, pending, resub, baseline,
                  running, fromEcos, station, wish, halted, ops, faults>>
  BY DEF Expire, conn
<1> QED
  BY <1>0, <1>1, <1>2, <1>3, <1>4
  DEF IInv, TypeOK, NoStaleMap, NothingOvertakesQueue, Waiting

(* Connecting, or failing to, starts from an empty map. *)
LEMMA ConnectIInv ==
    ASSUME IInv, Connect \/ ConnectFails \/ AwaitWifi
    PROVE  IInv'
<1>0. TypeOK
  BY DEF IInv
<1>1. Greeting \in Seq(Commands)
  BY CommandTypes DEF Greeting
<1>2. toEcos' \in Seq(Commands)
  BY <1>0, <1>1 DEF Connect, ConnectFails, AwaitWifi, TypeOK
<1>3. resub' \in [pending : BOOLEAN, index : Nat \ {0}]
  <2>1. resub' \in {Restart, resub}
    BY DEF Connect, ConnectFails, AwaitWifi
  <2>2. Restart \in [pending : BOOLEAN, index : Nat \ {0}]
    BY DEF Restart
  <2> QED
    BY <1>0, <2>1, <2>2 DEF TypeOK
<1>4. clean' \in BOOLEAN /\ socket' \in {"open", "closed"}
  BY <1>0 DEF Connect, ConnectFails, AwaitWifi, TypeOK, hist
<1>5. status # "CONNECTED"
      /\ status' \in {"CONNECTING", "CONNECTED", "DISCONNECTED"}
  BY <1>0 DEF Connect, ConnectFails, AwaitWifi, MayConnect, TypeOK
<1>6. addrMap = {}
  BY <1>5 DEF IInv, NoStaleMap
<1>7. UNCHANGED <<net, addrMap, pending, baseline, locos, running, fromEcos,
                  station, wish, halted, ops, faults>>
  BY DEF Connect, ConnectFails, AwaitWifi, hist
<1> QED
  BY <1>0, <1>2, <1>3, <1>4, <1>5, <1>6, <1>7
  DEF IInv, TypeOK, NoStaleMap, NothingOvertakesQueue, Waiting

(* A session that ends takes what was on its way with it. *)
LEMMA SessionEndsType ==
    ASSUME TypeOK, SessionEnds
    PROVE  /\ socket' = "closed" /\ toEcos' = <<>> /\ fromEcos' = <<>>
           /\ toEcos' \in Seq(Commands) /\ fromEcos' \in Seq(Messages)
           /\ wish' \in [Addr -> Speeds \cup {NoSpeed}]
  BY DEF SessionEnds, TypeOK

(* Losing the connection clears the map, whichever side closed it. *)
LEMMA LoseConnectionIInv ==
    ASSUME IInv, LoseConnection
    PROVE  IInv'
<1>0. TypeOK
  BY DEF IInv
<1>1. /\ socket' = "closed" /\ wish' \in [Addr -> Speeds \cup {NoSpeed}]
      /\ toEcos' \in Seq(Commands) /\ fromEcos' \in Seq(Messages)
  BY <1>0, SessionEndsType DEF LoseConnection
<1>2. addrMap' = {}
  BY DEF LoseConnection, MapAfterLoss
<1>3. station' \in Stations
  BY <1>0 DEF LoseConnection, TypeOK, Stations
<1>4. /\ status' = "DISCONNECTED" /\ baseline' \in {baseline, NoAddr}
      /\ UNCHANGED <<net, pending, resub, locos, running, halted, clean, ops, faults>>
  BY DEF LoseConnection
<1> QED
  BY <1>0, <1>1, <1>2, <1>3, <1>4
  DEF IInv, TypeOK, NoStaleMap, NothingOvertakesQueue, Waiting

(* What reading a reply, or nothing, leaves to the rest of the pass. *)
LEMMA ReadType ==
    ASSUME TypeOK,
           (fromEcos # <<>> /\ ReadReply(Head(fromEcos))) \/ ReadNothing
    PROVE  /\ addrMap' \subseteq EcosAddr
           /\ locos' \in Seq(Entry) /\ Len(locos') <= MaxLocos
           /\ running' \in BOOLEAN /\ halted' \subseteq Addr
           /\ wish' \in [Addr -> Speeds \cup {NoSpeed}]
           /\ fromEcos' \in Seq(Messages)
<1>1. CASE ReadNothing
  BY <1>1 DEF ReadNothing, TypeOK
<1>2. CASE fromEcos # <<>> /\ ReadReply(Head(fromEcos))
  <2> DEFINE m == Head(fromEcos)
  <2>1. m \in Messages /\ Tail(fromEcos) \in Seq(Messages)
    BY <1>2 DEF TypeOK
  <2>2. ReadReply(m)
    BY <1>2
  <2> HIDE DEF m
  <2>3. m.kind = "speed" => m.addr \in Addr /\ m.val \in Speeds
    BY <2>1, LinkAssumption DEF Messages
  <2>4. locos' \in Seq(Entry) /\ Len(locos') <= MaxLocos
    <3>1. CASE m.kind = "stop"
      BY <2>2, <3>1, AllStoppedType DEF ReadReply
    <3>2. CASE m.kind = "speed" /\ m.addr \in addrMap /\ CanStore(m.addr)
      BY <2>2, <2>3, <3>2, StoredType DEF ReadReply
    <3>3. CASE m.kind # "stop" /\ ~(m.kind = "speed" /\ m.addr \in addrMap
                                                     /\ CanStore(m.addr))
      BY <2>2, <3>3 DEF ReadReply, TypeOK
    <3> QED
      BY <3>1, <3>2, <3>3
  <2>5. Tracked \subseteq Addr
    BY TrackedType
  <2>6. /\ addrMap' \subseteq EcosAddr
        /\ running' \in BOOLEAN /\ halted' \subseteq Addr
        /\ wish' \in [Addr -> Speeds \cup {NoSpeed}]
    BY <2>2, <2>5 DEF ReadReply, TypeOK
  <2>7. fromEcos' \in Seq(Messages)
    BY <2>1, <2>2 DEF ReadReply, m
  <2> QED
    BY <2>4, <2>6, <2>7
<1> QED
  BY <1>1, <1>2

(* A pass flushes with the map it has just updated. *)
LEMMA PassIInv ==
    ASSUME IInv, Pass
    PROVE  IInv'
<1>0. TypeOK
  BY DEF IInv
<1>1. /\ addrMap' \subseteq EcosAddr
      /\ locos' \in Seq(Entry) /\ Len(locos') <= MaxLocos
      /\ running' \in BOOLEAN /\ halted' \subseteq Addr
      /\ wish' \in [Addr -> Speeds \cup {NoSpeed}]
      /\ fromEcos' \in Seq(Messages)
  BY <1>0, ReadType DEF Pass
<1>2. /\ pending' \in [Addr -> Speeds \cup {NoSpeed}]
      /\ Cardinality(Waiting') <= MaxPending
      /\ \A a \in addrMap' : pending'[a] = NoSpeed
  BY <1>0, <1>1, UnflushedType DEF Pass, PacedWork
<1>3. ResubKnown => locos'[resub.index].addr \in EcosAddr
  BY <1>1 DEF ResubKnown
<1>4. baseline' \in EcosAddr \cup {NoAddr}
  BY <1>3 DEF Pass, PacedWork
<1>5. toEcos' \in Seq(Commands)
  <2> DEFINE ask == IF baseline = NoAddr THEN <<>> ELSE <<Cmd("get", baseline, NoSpeed)>>
             again == IF ResubKnown
                      THEN <<Cmd("request", locos'[resub.index].addr, NoSpeed)>> ELSE <<>>
  <2>1. ask \in Seq(Commands)
    BY <1>0, CommandTypes DEF TypeOK
  <2>2. again \in Seq(Commands)
    BY <1>3, CommandTypes
  <2>3. FlushSets(addrMap') \in Seq(Commands)
    BY <1>0, <1>1, FlushSetsType
  <2>4. toEcos' = Written(FlushSets(addrMap') \o ask \o again)
    BY DEF Pass, PacedWork
  <2> HIDE DEF ask, again
  <2>5. FlushSets(addrMap') \o ask \o again \in Seq(Commands)
    BY <2>1, <2>2, <2>3
  <2> QED
    BY <1>0, <2>4, <2>5, WrittenType
<1>6. resub' \in [pending : BOOLEAN, index : Nat \ {0}]
  <2>1. /\ resub.pending \in BOOLEAN /\ resub.index \in Nat \ {0}
        /\ resub.index + 1 \in Nat \ {0}
    BY <1>0 DEF TypeOK
  <2>2. resub' = [pending |-> resub.pending /\ ~ResubDone,
                  index |-> IF ResubKnown THEN resub.index + 1 ELSE resub.index]
    BY DEF Pass, PacedWork
  <2>3. (resub.pending /\ ~ResubDone) \in BOOLEAN
    OBVIOUS
  <2> QED
    BY <2>1, <2>2, <2>3
<1>7. status = "CONNECTED" /\ UNCHANGED <<status, net, socket, station, clean, ops, faults>>
  BY DEF Pass
<1> QED
  BY <1>0, <1>1, <1>2, <1>4, <1>5, <1>6, <1>7
  DEF IInv, TypeOK, NoStaleMap, NothingOvertakesQueue
(* The deadline only ends the re-subscription. *)
LEMMA DeadlineIInv ==
    ASSUME IInv, Deadline
    PROVE  IInv'
<1>0. TypeOK
  BY DEF IInv
<1>1. resub' \in [pending : BOOLEAN, index : Nat \ {0}] /\ clean' \in BOOLEAN
  BY <1>0 DEF Deadline, TypeOK
<1>2. UNCHANGED <<status, net, socket, addrMap, pending, baseline, locos,
                  running, toEcos, fromEcos, station, wish, halted, ops, faults>>
  BY DEF Deadline
<1> QED
  BY <1>0, <1>1, <1>2 DEF IInv, TypeOK, NoStaleMap, NothingOvertakesQueue, Waiting

(* The network and ECoS touch neither the map nor the buffer. *)
LEMMA NetworkChangesIInv ==
    ASSUME IInv, NetworkChanges
    PROVE  IInv'
<1>0. TypeOK
  BY DEF IInv
<1>1. net' \in Networks
  BY DEF NetworkChanges
<1>2. faults' \in 0 .. MaxFaults
  BY <1>0, LinkAssumption DEF NetworkChanges, Fault, TypeOK
<1>3. UNCHANGED <<status, socket, addrMap, pending, resub, baseline, locos, running,
                  toEcos, fromEcos, station, wish, halted, clean, ops>>
  BY DEF NetworkChanges, hist
<1> QED
  BY <1>0, <1>1, <1>2, <1>3 DEF IInv, TypeOK, NoStaleMap, NothingOvertakesQueue, Waiting

(* ECoS closing the connection is not yet noticed by the bridge. *)
LEMMA StationClosesIInv ==
    ASSUME IInv, StationCloses
    PROVE  IInv'
<1>0. TypeOK
  BY DEF IInv
<1>1. /\ socket' = "closed" /\ wish' \in [Addr -> Speeds \cup {NoSpeed}]
      /\ toEcos' \in Seq(Commands) /\ fromEcos' \in Seq(Messages)
  BY <1>0, SessionEndsType DEF StationCloses
<1>2. station' \in Stations
  BY <1>0 DEF StationCloses, TypeOK, Stations
<1>3. faults' \in 0 .. MaxFaults
  BY <1>0, LinkAssumption DEF StationCloses, Fault, TypeOK
<1>4. UNCHANGED <<status, net, addrMap, pending, resub, baseline, locos,
                  running, halted, clean, ops>>
  BY DEF StationCloses
<1> QED
  BY <1>0, <1>1, <1>2, <1>3, <1>4 DEF IInv, TypeOK, NoStaleMap, NothingOvertakesQueue, Waiting

(* ECoS answers a well-formed command with well-formed messages and keeps  *)
(* a well-formed state.                                                    *)
LEMMA AnswersType ==
    ASSUME TypeOK, NEW c \in Commands
    PROVE  Answers(c) \in Seq(Messages) /\ Processed(c) \in Stations
<1>1. /\ station.speed \in [EcosAddr -> Speeds] /\ station.viewed \subseteq EcosAddr
      /\ station.watched \in BOOLEAN /\ station.go \in BOOLEAN
  BY DEF TypeOK, Stations
<1>2. /\ c.op \in {"request", "release", "get", "set"} => c.addr \in EcosAddr
      /\ c.op = "set" => c.val \in Speeds
  BY DEF Commands
<1>3. /\ Msg("map", NoAddr, NoSpeed) \in Messages
      /\ \A go \in BOOLEAN : RunMsg(go) \in Messages
      /\ \A a \in EcosAddr, v \in Speeds : Msg("speed", a, v) \in Messages
  BY DEF Msg, RunMsg, Messages
<1>4. c.op = "query" => Answers(c) \in Seq(Messages)
  BY <1>3 DEF Answers
<1>5. c.op = "status" => Answers(c) \in Seq(Messages)
  BY <1>1, <1>3 DEF Answers
<1>6. c.op = "get" => Answers(c) \in Seq(Messages)
  BY <1>1, <1>2, <1>3 DEF Answers
<1>7. ASSUME c.op = "set"
      PROVE  Answers(c) \in Seq(Messages)
  <2>1. <<Msg("speed", c.addr, c.val)>> \in Seq(Messages)
    BY <1>2, <1>3, <1>7
  <2>2. CASE c.addr \in station.viewed
    <3>1. Answers(c) = <<Msg("speed", c.addr, c.val)>>
      BY <1>7, <2>2 DEF Answers
    <3> QED
      BY <2>1, <3>1
  <2>3. CASE c.addr \notin station.viewed
    <3>1. Answers(c) = <<>>
      BY <1>7, <2>3 DEF Answers
    <3> QED
      BY <3>1
  <2> QED
    BY <2>2, <2>3
<1>8. ASSUME c.op \in {"stop", "go"}
      PROVE  Answers(c) \in Seq(Messages)
  <2> DEFINE told == station.watched /\ station.go # (c.op = "go")
  <2>1. CASE told
    <3>1. Answers(c) = <<RunMsg(c.op = "go")>>
      BY <1>8, <2>1 DEF Answers
    <3>2. (c.op = "go") \in BOOLEAN
      OBVIOUS
    <3>3. RunMsg(c.op = "go") \in Messages
      BY <1>3, <3>2
    <3> QED
      BY <3>1, <3>3
  <2>2. CASE ~told
    <3>1. Answers(c) = <<>>
      BY <1>8, <2>2 DEF Answers
    <3> QED
      BY <3>1
  <2> QED
    BY <2>1, <2>2
<1>9. c.op \in {"watch", "request", "release"} => Answers(c) \in Seq(Messages)
  BY DEF Answers
<1>10. c.op \in {"query", "watch", "status", "stop", "go", "request", "release",
                 "get", "set"}
  BY DEF Commands
<1>11. Processed(c) \in Stations
  <2>1. [a \in EcosAddr |-> IF c.op = "set" /\ a = c.addr THEN c.val
                            ELSE station.speed[a]] \in [EcosAddr -> Speeds]
    BY <1>1, <1>2
  <2>2. (IF c.op = "request" THEN station.viewed \cup {c.addr}
         ELSE IF c.op = "release" THEN station.viewed \ {c.addr}
         ELSE station.viewed) \subseteq EcosAddr
    BY <1>1, <1>2
  <2>3. /\ (station.watched \/ c.op = "watch") \in BOOLEAN
        /\ (IF c.op \in {"stop", "go"} THEN c.op = "go" ELSE station.go) \in BOOLEAN
    BY <1>1
  <2> QED
    BY <2>1, <2>2, <2>3 DEF Processed, Stations
<1> QED
  BY <1>4, <1>5, <1>6, <1>7, <1>8, <1>9, <1>10, <1>11

(* ECoS processes one command. *)
LEMMA StationStepIInv ==
    ASSUME IInv, StationStep
    PROVE  IInv'
<1>0. TypeOK
  BY DEF IInv
<1>1. Head(toEcos) \in Commands /\ Tail(toEcos) \in Seq(Commands)
  BY <1>0 DEF StationStep, TypeOK
<1>2. fromEcos' \in Seq(Messages) /\ station' \in Stations /\ toEcos' \in Seq(Commands)
  BY <1>0, <1>1, AnswersType DEF StationStep, TypeOK
<1>3. UNCHANGED <<status, net, socket, addrMap, pending, resub, baseline, locos,
                  running, wish, halted, clean, ops, faults>>
  BY DEF StationStep, conn, hist
<1> QED
  BY <1>0, <1>2, <1>3 DEF IInv, TypeOK, NoStaleMap, NothingOvertakesQueue, Waiting

(* The operator changes only what ECoS has and says. *)
LEMMA OperatorRunsIInv ==
    ASSUME IInv, NEW go \in BOOLEAN, OperatorRuns(go)
    PROVE  IInv'
<1>0. TypeOK
  BY DEF IInv
<1>1. RunMsg(go) \in Messages
  BY DEF RunMsg, Msg, Messages
<1>2. fromEcos' \in Seq(Messages)
  BY <1>0, <1>1 DEF OperatorRuns, TypeOK
<1>3. station' \in Stations
  BY <1>0 DEF OperatorRuns, TypeOK, Stations
<1>4. ops' \in 0 .. MaxOps
  BY <1>0, OperateType DEF OperatorRuns
<1>5. UNCHANGED <<status, net, socket, addrMap, pending, resub, baseline, locos,
                  running, toEcos, wish, halted, clean, faults>>
  BY DEF OperatorRuns, conn, hist
<1> QED
  BY <1>0, <1>2, <1>3, <1>4, <1>5
  DEF IInv, TypeOK, NoStaleMap, NothingOvertakesQueue, Waiting

-----------------------------------------------------------------------------
(* Every step keeps the three together. *)
LEMMA NextIInv == IInv /\ [Next]_vars => IInv'
<1> SUFFICES ASSUME IInv, [Next]_vars
             PROVE  IInv'
  OBVIOUS
<1>1. CASE \E a \in Addr, v \in Speeds : ThrottleDrive(a, v)
  BY <1>1, ThrottleDriveIInv
<1>2. CASE \E a \in Addr : ThrottleSelect(a)
  BY <1>2, ThrottleSelectIInv
<1>3. CASE ThrottleStop \/ ThrottleGo
  BY <1>3, ThrottleRunsIInv
<1>4. CASE \E i \in 1 .. Len(locos) : Expire(i)
  BY <1>4, ExpireIInv
<1>5. CASE Connect \/ ConnectFails \/ AwaitWifi
  BY <1>5, ConnectIInv
<1>6. CASE LoseConnection
  BY <1>6, LoseConnectionIInv
<1>7. CASE Pass
  BY <1>7, PassIInv
<1>8. CASE Deadline
  BY <1>8, DeadlineIInv
<1>9. CASE NetworkChanges
  BY <1>9, NetworkChangesIInv
<1>10. CASE StationCloses
  BY <1>10, StationClosesIInv
<1>11. CASE StationStep
  BY <1>11, StationStepIInv
<1>12. CASE \E go \in BOOLEAN : OperatorRuns(go)
  BY <1>12, OperatorRunsIInv
<1>13. CASE UNCHANGED vars
  BY <1>13 DEF vars, conn, hist, IInv, TypeOK, NoStaleMap, NothingOvertakesQueue, Waiting
<1> QED
  BY <1>1, <1>2, <1>3, <1>4, <1>5, <1>6, <1>7, <1>8, <1>9, <1>10, <1>11, <1>12,
     <1>13 DEF Next

(* The inductive invariant holds in every behaviour. *)
THEOREM Inductive == Spec => []IInv
<1>1. Init => IInv
  BY InitIInv
<1>2. IInv /\ [Next]_vars => IInv'
  BY NextIInv
<1> QED
  BY <1>1, <1>2, PTL DEF Spec

(* The connection's state is well formed: the table and the buffer stay    *)
(* within their arrays and every command on the wire is for a loco that    *)
(* ECoS has, whatever connects, fails, expires or is driven.               *)
THEOREM TypeCorrect == Spec => []TypeOK
<1>1. IInv => TypeOK
  BY DEF IInv
<1> QED
  BY <1>1, Inductive, PTL

(* No address map survives the connection it was read from.                *)
THEOREM MapDiesWithConnection == Spec => []NoStaleMap
<1>1. IInv => NoStaleMap
  BY DEF IInv
<1> QED
  BY <1>1, Inductive, PTL

(* A drive command never overtakes an older one of the same loco that      *)
(* still waits for the address map.                                        *)
THEOREM QueueKeepsOrder == Spec => []NothingOvertakesQueue
<1>1. IInv => NothingOvertakesQueue
  BY DEF IInv
<1> QED
  BY <1>1, Inductive, PTL
-----------------------------------------------------------------------------
(* QueuedSpeedArrives holds only when all is settled.  What is true on the *)
(* way there: the speed asked for last waits in the buffer, or is the last *)
(* one for its loco on the wire, or ECoS has it and nothing on the wire    *)
(* will change it.                                                         *)
IsSet(c, a) == c.op = "set" /\ c.addr = a
Clear(s, a) == \A i \in 1 .. Len(s) : ~IsSet(s[i], a)
Ends(s, a, v) ==
    \E i \in 1 .. Len(s) : /\ IsSet(s[i], a) /\ s[i].val = v
                           /\ \A j \in 1 .. Len(s) : j > i => ~IsSet(s[j], a)

Quiet ==
    /\ status # "CONNECTED" => socket = "closed"
    /\ socket = "closed" => toEcos = <<>>

OnItsWay(a) ==
    \/ wish[a] = NoSpeed
    \/ pending[a] = wish[a]
    \/ pending[a] = NoSpeed /\ Ends(toEcos, a, wish[a])
    \/ /\ pending[a] = NoSpeed /\ Clear(toEcos, a)
       /\ a \in EcosAddr /\ station.speed[a] = wish[a]

Promise ==
    /\ IInv
    /\ Quiet
    /\ \A a \in Addr : OnItsWay(a)

(* The end of what is written is the end of the wire. *)
LEMMA EndsAppended ==
    ASSUME NEW s \in Seq(Commands), NEW t \in Seq(Commands), NEW a, NEW v, Ends(t, a, v)
    PROVE  Ends(s \o t, a, v)
<1>1. PICK i \in 1 .. Len(t) : /\ IsSet(t[i], a) /\ t[i].val = v
                               /\ \A j \in 1 .. Len(t) : j > i => ~IsSet(t[j], a)
  BY DEF Ends
<1>2. /\ Len(s) \in Nat /\ Len(t) \in Nat /\ Len(s \o t) = Len(s) + Len(t)
      /\ \A j \in 1 .. Len(s) + Len(t) :
            (s \o t)[j] = IF j <= Len(s) THEN s[j] ELSE t[j - Len(s)]
  OBVIOUS
<1> DEFINE st == s \o t
           k == Len(s) + i
<1>3. k \in 1 .. Len(st) /\ st[k] = t[i]
  BY <1>2
<1>4. ASSUME NEW j \in 1 .. Len(st), j > k
      PROVE  ~IsSet(st[j], a)
  <2>1. j - Len(s) \in 1 .. Len(t) /\ j - Len(s) > i /\ st[j] = t[j - Len(s)]
    BY <1>2, <1>4
  <2> QED
    BY <1>1, <2>1
<1> HIDE DEF st, k
<1>5. Ends(st, a, v)
  BY <1>1, <1>3, <1>4 DEF Ends
<1> QED
  BY <1>5 DEF st

(* Commands that set nothing of a loco leave its last one the last. *)
LEMMA EndsStays ==
    ASSUME NEW s \in Seq(Commands), NEW t \in Seq(Commands), NEW a, NEW v,
           Clear(t, a)
    PROVE  /\ Ends(s, a, v) => Ends(s \o t, a, v)
           /\ Clear(s, a) => Clear(s \o t, a)
<1>1. /\ Len(s) \in Nat /\ Len(t) \in Nat /\ Len(s \o t) = Len(s) + Len(t)
      /\ \A j \in 1 .. Len(s) + Len(t) :
            (s \o t)[j] = IF j <= Len(s) THEN s[j] ELSE t[j - Len(s)]
  OBVIOUS
<1> DEFINE st == s \o t
<1>2. \A j \in 1 .. Len(st) : j > Len(s) => ~IsSet(st[j], a)
  <2> SUFFICES ASSUME NEW j \in 1 .. Len(st), j > Len(s)
               PROVE  ~IsSet(st[j], a)
    OBVIOUS
  <2>1. j - Len(s) \in 1 .. Len(t) /\ st[j] = t[j - Len(s)]
    BY <1>1
  <2> QED
    BY <2>1 DEF Clear
<1>3. Len(st) = Len(s) + Len(t) /\ \A j \in 1 .. Len(s) : j \in 1 .. Len(st) /\ st[j] = s[j]
  BY <1>1
<1>4. \A j \in 1 .. Len(st) : j \in Nat /\ (j > Len(s) \/ j \in 1 .. Len(s))
  BY <1>1
<1> HIDE DEF st
<1>5. Clear(s, a) => Clear(st, a)
  BY <1>2, <1>3, <1>4 DEF Clear
<1>6. ASSUME Ends(s, a, v)
      PROVE  Ends(st, a, v)
  <2>1. PICK i \in 1 .. Len(s) : /\ IsSet(s[i], a) /\ s[i].val = v
                                 /\ \A j \in 1 .. Len(s) : j > i => ~IsSet(s[j], a)
    BY <1>6 DEF Ends
  <2>2. i \in 1 .. Len(st) /\ st[i] = s[i]
    BY <1>3
  <2>3. \A j \in 1 .. Len(st) : j > i => ~IsSet(st[j], a)
    BY <1>2, <1>3, <1>4, <2>1
  <2> QED
    BY <2>1, <2>2, <2>3 DEF Ends
<1> QED
  BY <1>5, <1>6 DEF st

(* Taking the first command off the wire. *)
LEMMA EndsTail ==
    ASSUME NEW s \in Seq(Commands), s # <<>>, NEW a, NEW v
    PROVE  /\ Clear(s, a) => Clear(Tail(s), a) /\ ~IsSet(Head(s), a)
           /\ Ends(s, a, v) => \/ Ends(Tail(s), a, v)
                               \/ /\ IsSet(Head(s), a) /\ Head(s).val = v
                                  /\ Clear(Tail(s), a)
<1> DEFINE r == Tail(s)
<1>1. /\ Len(s) \in Nat /\ Len(s) >= 1 /\ Len(r) = Len(s) - 1 /\ Head(s) = s[1]
      /\ \A j \in 1 .. Len(r) : r[j] = s[j + 1] /\ j + 1 \in 1 .. Len(s)
  OBVIOUS
<1> HIDE DEF r
<1>2. Clear(s, a) => Clear(r, a) /\ ~IsSet(Head(s), a)
  BY <1>1 DEF Clear
<1>3. ASSUME Ends(s, a, v)
      PROVE  Ends(r, a, v) \/ (IsSet(Head(s), a) /\ Head(s).val = v /\ Clear(r, a))
  <2>1. PICK i \in 1 .. Len(s) : /\ IsSet(s[i], a) /\ s[i].val = v
                                 /\ \A j \in 1 .. Len(s) : j > i => ~IsSet(s[j], a)
    BY <1>3 DEF Ends
  <2>2. CASE i = 1
    <3>1. \A j \in 1 .. Len(r) : ~IsSet(r[j], a)
      BY <1>1, <2>1, <2>2
    <3> QED
      BY <1>1, <2>1, <2>2, <3>1 DEF Clear
  <2>3. CASE i # 1
    <3>1. i - 1 \in 1 .. Len(r) /\ r[i - 1] = s[i]
      BY <1>1, <2>3
    <3>2. \A j \in 1 .. Len(r) : j > i - 1 => ~IsSet(r[j], a)
      BY <1>1, <2>1
    <3> QED
      BY <2>1, <3>1, <3>2 DEF Ends
  <2> QED
    BY <2>2, <2>3
<1> QED
  BY <1>2, <1>3 DEF r

(* Writing commands that set nothing of a loco does not touch its promise. *)
LEMMA StaysOnItsWay ==
    ASSUME Promise, NEW a \in Addr, NEW t \in Seq(Commands), Clear(t, a),
           toEcos' \in {toEcos, Written(t)},
           wish'[a] \in {wish[a], NoSpeed}, pending'[a] = pending[a],
           station'.speed = station.speed
    PROVE  OnItsWay(a)'
<1>1. toEcos \in Seq(Commands) /\ OnItsWay(a)
  BY DEF Promise, IInv, TypeOK
<1>2. toEcos' \in {toEcos, toEcos \o t}
  BY DEF Written
<1>3. \A v : Ends(toEcos, a, v) => Ends(toEcos', a, v)
  BY <1>1, <1>2, EndsStays
<1>4. Clear(toEcos, a) => Clear(toEcos', a)
  BY <1>1, <1>2, EndsStays
<1> QED
  BY <1>1, <1>3, <1>4 DEF OnItsWay

(* Commands about the connection, views and baseline queries set nothing. *)
LEMMA ClearCommands ==
    ASSUME NEW a \in Addr
    PROVE  /\ \A op \in {"request", "release", "get"} : \A b : Clear(<<Cmd(op, b, NoSpeed)>>, a)
           /\ Clear(<<System("stop")>>, a) /\ Clear(<<System("go")>>, a)
           /\ Clear(<<>>, a) /\ Clear(Greeting, a)
           /\ \A b \in Addr : Clear(Subscription(b), a)
<1>1. \A op \in {"request", "release", "get"} : \A b : Clear(<<Cmd(op, b, NoSpeed)>>, a)
  BY DEF Clear, IsSet, Cmd
<1>2. Clear(<<System("stop")>>, a) /\ Clear(<<System("go")>>, a) /\ Clear(<<>>, a)
  BY DEF Clear, IsSet, Cmd, System
<1>3. Clear(Greeting, a)
  BY DEF Clear, IsSet, Cmd, System, Greeting
<1> QED
  BY <1>1, <1>2, <1>3 DEF Subscription

(* A drive command is written last or replaces what waits in the buffer. *)
LEMMA ThrottleDrivePromise ==
    ASSUME Promise, NEW a \in Addr, NEW v \in Speeds, ThrottleDrive(a, v),
           NEW b \in Addr
    PROVE  OnItsWay(b)'
<1>0. TypeOK /\ NothingOvertakesQueue /\ OnItsWay(b)
  BY DEF Promise, IInv
<1>1. station' = station
  BY DEF ThrottleDrive
<1>2. CASE a \in addrMap
  <2> DEFINE set == <<Cmd("set", a, v)>>
             t == Subscription(a) \o set
  <2>1. /\ pending' = pending /\ toEcos' = Written(t)
        /\ wish' = [wish EXCEPT ![a] = IF socket = "open" THEN v ELSE NoSpeed]
    BY <1>2 DEF ThrottleDrive
  <2>2. set \in Seq(Commands) /\ Subscription(a) \in Seq(Commands)
    BY <1>0, <1>2, CommandTypes, SubscriptionType DEF TypeOK
  <2>3. CASE a = b
    <3>1. Ends(set, a, v)
      BY DEF Ends, IsSet, Cmd
    <3> HIDE DEF set
    <3>2. Ends(t, a, v) /\ t \in Seq(Commands)
      BY <2>2, <3>1, EndsAppended
    <3> HIDE DEF t
    <3>3. pending'[a] = NoSpeed
      BY <1>0, <1>2, <2>1 DEF NothingOvertakesQueue
    <3>4. CASE socket = "open"
      <4>1. toEcos' = toEcos \o t /\ wish'[a] = v
        BY <1>0, <2>1, <3>4 DEF Written, TypeOK
      <4>2. Ends(toEcos', a, v)
        BY <1>0, <3>2, <4>1, EndsAppended DEF TypeOK
      <4> QED
        BY <2>3, <3>3, <4>1, <4>2 DEF OnItsWay
    <3>5. CASE socket # "open"
      BY <1>0, <2>1, <2>3, <3>5 DEF OnItsWay, TypeOK
    <3> QED
      BY <3>4, <3>5
  <2>4. CASE a # b
    <3>1. Clear(set, b)
      BY <2>4 DEF Clear, IsSet, Cmd
    <3> HIDE DEF set
    <3>2. Clear(t, b) /\ t \in Seq(Commands)
      BY <2>2, <3>1, ClearCommands, EndsStays
    <3> HIDE DEF t
    <3>3. wish'[b] = wish[b] /\ pending'[b] = pending[b] /\ station'.speed = station.speed
      BY <1>0, <1>1, <2>1, <2>4 DEF TypeOK
    <3> QED
      BY <2>1, <3>2, <3>3, StaysOnItsWay
  <2> QED
    BY <2>3, <2>4
<1>3. CASE a \notin addrMap
  <2>1. /\ pending' = Queued(a, v) /\ toEcos' = toEcos
        /\ wish' = [wish EXCEPT ![a] = IF CanQueue(a) THEN v ELSE NoSpeed]
    BY <1>3 DEF ThrottleDrive
  <2>2. CASE a = b
    BY <1>0, <2>1, <2>2 DEF OnItsWay, Queued, TypeOK
  <2>3. CASE a # b
    <3>1. wish'[b] = wish[b] /\ pending'[b] = pending[b] /\ station'.speed = station.speed
      BY <1>0, <1>1, <2>1, <2>3 DEF TypeOK, Queued
    <3> QED
      BY <1>0, <2>1, <3>1 DEF OnItsWay
  <2> QED
    BY <2>2, <2>3
<1> QED
  BY <1>2, <1>3

(* Selecting, stopping, resuming and expiry write commands that set nothing. *)
LEMMA OtherCommandsPromise ==
    ASSUME Promise, NEW b \in Addr,
           \/ \E a \in Addr : ThrottleSelect(a)
           \/ ThrottleStop \/ ThrottleGo
           \/ \E i \in 1 .. Len(locos) : Expire(i)
    PROVE  OnItsWay(b)'
<1>0. TypeOK
  BY DEF Promise, IInv
<1>1. ASSUME NEW a \in Addr, ThrottleSelect(a)
      PROVE  OnItsWay(b)'
  <2>1. toEcos' = Written(Subscription(a)) /\ UNCHANGED <<pending, wish, station>>
    BY <1>1 DEF ThrottleSelect, hist
  <2> QED
    BY <1>0, <2>1, SubscriptionType, ClearCommands, StaysOnItsWay
<1>2. CASE ThrottleStop
  BY <1>2 DEF ThrottleStop, OnItsWay
<1>3. CASE ThrottleGo
  <2>1. /\ toEcos' \in {toEcos, Written(<<System("go")>>)}
        /\ UNCHANGED <<pending, wish, station>>
    BY <1>3 DEF ThrottleGo, conn, hist
  <2>2. <<System("go")>> \in Seq(Commands)
    BY CommandTypes
  <2> QED
    BY <2>1, <2>2, ClearCommands, StaysOnItsWay
<1>4. ASSUME NEW i \in 1 .. Len(locos), Expire(i)
      PROVE  OnItsWay(b)'
  <2> DEFINE a == locos[i].addr
             t == IF CanSubscribe(a) THEN <<Cmd("release", a, NoSpeed)>> ELSE <<>>
  <2>1. toEcos' = IF CanSubscribe(a) THEN Written(<<Cmd("release", a, NoSpeed)>>)
                                     ELSE toEcos
    BY <1>4 DEF Expire
  <2>2. UNCHANGED <<pending, wish, station>>
    BY <1>4 DEF Expire, conn
  <2> HIDE DEF a
  <2>3. t \in Seq(Commands) /\ Clear(t, b)
    BY <1>0, CommandTypes, ClearCommands DEF CanSubscribe, TypeOK
  <2>4. toEcos' \in {toEcos, Written(t)}
    BY <2>1
  <2> QED
    BY <2>2, <2>3, <2>4, StaysOnItsWay
<1> QED
  BY <1>1, <1>2, <1>3, <1>4

(* A connection starts on an empty wire. *)
LEMMA ConnectPromise ==
    ASSUME Promise, NEW b \in Addr, Connect
    PROVE  OnItsWay(b)'
<1>0. TypeOK /\ OnItsWay(b)
  BY DEF Promise, IInv
<1>1. toEcos = <<>>
  BY DEF Promise, Quiet, Connect, MayConnect
<1>2. /\ toEcos' = Greeting /\ UNCHANGED <<pending, wish, station>>
  BY DEF Connect
<1>3. ~Ends(<<>>, b, wish[b])
  BY DEF Ends
<1> QED
  BY <1>0, <1>1, <1>2, <1>3, ClearCommands DEF OnItsWay

(* When a session ends, what was on the wire is no longer promised. *)
LEMMA SessionEndsPromise ==
    ASSUME Promise, NEW b \in Addr, SessionEnds, pending' = pending,
           station'.speed = station.speed
    PROVE  OnItsWay(b)'
<1>0. TypeOK /\ OnItsWay(b)
  BY DEF Promise, IInv
<1>1. toEcos' = <<>> /\ wish'[b] = IF b \in Unanswered THEN NoSpeed ELSE wish[b]
  BY DEF SessionEnds
<1>2. CASE b \in Unanswered
  BY <1>1, <1>2 DEF OnItsWay
<1>3. CASE b \notin Unanswered
  <2>1. \A i \in 1 .. Len(toEcos) : ~IsSet(toEcos[i], b)
    BY <1>3 DEF Unanswered, IsSet
  <2>2. ~Ends(toEcos, b, wish[b])
    BY <2>1 DEF Ends
  <2>3. Clear(toEcos', b)
    BY <1>1, ClearCommands
  <2> QED
    BY <1>0, <1>1, <1>3, <2>2, <2>3 DEF OnItsWay
<1> QED
  BY <1>2, <1>3

(* ECoS takes the next command; the last one for a loco becomes its speed. *)
LEMMA StationStepPromise ==
    ASSUME Promise, NEW b \in Addr, StationStep
    PROVE  OnItsWay(b)'
<1>0. TypeOK /\ OnItsWay(b)
  BY DEF Promise, IInv
<1> DEFINE c == Head(toEcos)
<1>1. /\ toEcos # <<>> /\ toEcos' = Tail(toEcos) /\ station' = Processed(c)
      /\ UNCHANGED <<pending, wish>>
  BY DEF StationStep, conn, hist
<1>2. toEcos \in Seq(Commands) /\ c \in Commands
  BY <1>0, <1>1 DEF TypeOK
<1>3. IsSet(c, b) => b \in EcosAddr
  BY <1>2 DEF IsSet, Commands
<1> HIDE DEF c
<1>4. b \in EcosAddr => station'.speed[b] = IF IsSet(c, b) THEN c.val ELSE station.speed[b]
  BY <1>1 DEF Processed, IsSet
<1>5. CASE pending[b] = NoSpeed /\ Ends(toEcos, b, wish[b])
  <2>1. \/ Ends(toEcos', b, wish[b])
        \/ IsSet(c, b) /\ c.val = wish[b] /\ Clear(toEcos', b)
    BY <1>1, <1>2, <1>5, EndsTail DEF c
  <2> QED
    BY <1>1, <1>3, <1>4, <1>5, <2>1 DEF OnItsWay
<1>6. CASE pending[b] = NoSpeed /\ Clear(toEcos, b) /\ b \in EcosAddr
           /\ station.speed[b] = wish[b]
  <2>1. Clear(toEcos', b) /\ ~IsSet(c, b)
    BY <1>1, <1>2, <1>6, EndsTail DEF c
  <2> QED
    BY <1>1, <1>4, <1>6, <2>1 DEF OnItsWay
<1> QED
  BY <1>0, <1>1, <1>5, <1>6 DEF OnItsWay

(* A flush writes what waits for a loco, and nothing else about it. *)
LEMMA FlushEnds ==
    ASSUME TypeOK, NEW M \in SUBSET EcosAddr, NEW b \in Addr
    PROVE  /\ b \in Flushable(M) => Ends(FlushSets(M), b, pending[b])
           /\ b \notin Flushable(M) => Clear(FlushSets(M), b)
<1> DEFINE S == Flushable(M)
           order == SetToSeq(S)
           sets == FlushSets(M)
<1>1. IsFiniteSet(S)
  <2>1. S \in SUBSET Addr
    BY LinkAssumption DEF Flushable
  <2> QED
    BY <2>1, LinkAssumption, FS_Subset
<1>2. /\ order \in Seq(S)
      /\ \A i, j \in 1 .. Len(order) : order[i] = order[j] => i = j
      /\ \A a \in S : \E i \in 1 .. Len(order) : order[i] = a
  BY <1>1, SetToSeqElements
<1>3. sets = [i \in DOMAIN order |-> Cmd("set", order[i], pending[order[i]])]
  BY DEF FlushSets
<1> HIDE DEF order, S, sets
<1>4. /\ Len(order) \in Nat /\ DOMAIN order = 1 .. Len(order)
      /\ \A i \in 1 .. Len(order) : order[i] \in S
  BY <1>2
<1>5. /\ Len(sets) = Len(order)
      /\ \A i \in 1 .. Len(order) :
            sets[i] = Cmd("set", order[i], pending[order[i]])
  BY <1>3, <1>4
<1>6. \A i \in 1 .. Len(order) :
         /\ IsSet(sets[i], b) <=> order[i] = b
         /\ sets[i].val = pending[order[i]]
  <2> SUFFICES ASSUME NEW i \in 1 .. Len(order)
               PROVE  /\ IsSet(sets[i], b) <=> order[i] = b
                      /\ sets[i].val = pending[order[i]]
    OBVIOUS
  <2>1. sets[i] = [op |-> "set", addr |-> order[i], val |-> pending[order[i]]]
    BY <1>5 DEF Cmd
  <2> QED
    BY <2>1 DEF IsSet
<1>7. ASSUME b \in S
      PROVE  Ends(sets, b, pending[b])
  <2>1. PICK i \in 1 .. Len(order) : order[i] = b
    BY <1>2, <1>7
  <2>2. IsSet(sets[i], b) /\ sets[i].val = pending[b]
    BY <1>6, <2>1
  <2>3. \A j \in 1 .. Len(sets) : j > i => ~IsSet(sets[j], b)
    BY <1>2, <1>4, <1>5, <1>6, <2>1
  <2> QED
    BY <1>5, <2>1, <2>2, <2>3 DEF Ends
<1>8. ASSUME b \notin S
      PROVE  Clear(sets, b)
  BY <1>4, <1>5, <1>6, <1>8 DEF Clear
<1> QED
  BY <1>7, <1>8 DEF S, sets

(* A pass moves what waits for a known loco to the end of the wire. *)
LEMMA PassPromise ==
    ASSUME Promise, NEW b \in Addr, Pass
    PROVE  OnItsWay(b)'
<1>0. TypeOK /\ OnItsWay(b)
  BY DEF Promise, IInv
<1>1. addrMap' \in SUBSET EcosAddr /\ locos' \in Seq(Entry)
  BY <1>0, ReadType DEF Pass
<1>2. wish'[b] \in {wish[b], NoSpeed}
  <2>1. CASE ReadNothing
    BY <2>1 DEF ReadNothing
  <2>2. CASE ReadReply(Head(fromEcos))
    BY <2>2 DEF ReadReply
  <2> QED
    BY <2>1, <2>2 DEF Pass
<1>3. station' = station /\ socket = "open"
  BY DEF Pass
<1> DEFINE sets == FlushSets(addrMap')
           ask == IF baseline = NoAddr THEN <<>> ELSE <<Cmd("get", baseline, NoSpeed)>>
           again == IF ResubKnown
                    THEN <<Cmd("request", locos'[resub.index].addr, NoSpeed)>> ELSE <<>>
           t == sets \o ask \o again
<1>4. pending' = Unflushed(addrMap') /\ toEcos' = Written(t)
  BY DEF Pass, PacedWork
<1>5. sets \in Seq(Commands)
  BY <1>0, <1>1, FlushSetsType
<1>6. ask \in Seq(Commands) /\ Clear(ask, b)
  BY <1>0, CommandTypes, ClearCommands DEF TypeOK
<1>7. again \in Seq(Commands) /\ Clear(again, b)
  BY <1>1, CommandTypes, ClearCommands DEF ResubKnown
<1>8. /\ b \in Flushable(addrMap') => Ends(sets, b, pending[b])
      /\ b \notin Flushable(addrMap') => Clear(sets, b)
  BY <1>0, <1>1, FlushEnds
<1> HIDE DEF sets, ask, again
<1>9. ask \o again \in Seq(Commands) /\ Clear(ask \o again, b)
  BY <1>6, <1>7, EndsStays
<1>10. t = sets \o (ask \o again)
  BY <1>5, <1>6, <1>7
<1> HIDE DEF t
<1>11. /\ t \in Seq(Commands)
       /\ b \in Flushable(addrMap') => Ends(t, b, pending[b])
       /\ b \notin Flushable(addrMap') => Clear(t, b)
  <2> DEFINE rest == ask \o again
  <2>1. rest \in Seq(Commands) /\ Clear(rest, b) /\ t = sets \o rest
    BY <1>9, <1>10
  <2> HIDE DEF rest
  <2>2. t \in Seq(Commands)
    BY <1>5, <2>1
  <2>3. b \in Flushable(addrMap') => Ends(sets \o rest, b, pending[b])
    BY <1>5, <1>8, <2>1, EndsStays
  <2>4. b \notin Flushable(addrMap') => Clear(sets \o rest, b)
    BY <1>5, <1>8, <2>1, EndsStays
  <2> QED
    BY <2>1, <2>2, <2>3, <2>4
<1>12. CASE b \in Flushable(addrMap')
  <2>1. pending'[b] = NoSpeed /\ pending[b] # NoSpeed
    BY <1>4, <1>12 DEF Unflushed, Flushable
  <2>2. toEcos' = toEcos \o t /\ toEcos \in Seq(Commands)
    BY <1>0, <1>3, <1>4 DEF Written, TypeOK
  <2>3. Ends(toEcos', b, pending[b])
    BY <1>11, <1>12, <2>2, EndsAppended
  <2> QED
    BY <1>0, <1>2, <2>1, <2>3 DEF OnItsWay
<1>13. CASE b \notin Flushable(addrMap')
  <2>1. pending'[b] = pending[b]
    BY <1>4, <1>13 DEF Unflushed
  <2> QED
    BY <1>2, <1>3, <1>4, <1>11, <1>13, <2>1, StaysOnItsWay
<1> QED
  BY <1>12, <1>13

(* What fails, waits or happens at the ECoS leaves the promise alone. *)
LEMMA ElsewherePromise ==
    ASSUME Promise, NEW b \in Addr,
           \/ ConnectFails \/ AwaitWifi \/ Deadline \/ NetworkChanges
           \/ \E go \in BOOLEAN : OperatorRuns(go)
           \/ UNCHANGED vars
    PROVE  OnItsWay(b)'
<1>1. UNCHANGED <<wish, pending, toEcos>> /\ station'.speed = station.speed
  <2>1. CASE ConnectFails \/ AwaitWifi \/ Deadline \/ NetworkChanges \/ UNCHANGED vars
    BY <2>1 DEF ConnectFails, AwaitWifi, Deadline, NetworkChanges, vars, conn, hist
  <2>2. ASSUME NEW go \in BOOLEAN, OperatorRuns(go)
        PROVE  UNCHANGED <<wish, pending, toEcos>> /\ station'.speed = station.speed
    <3>1. UNCHANGED <<wish, pending, toEcos>>
      BY <2>2 DEF OperatorRuns, conn, hist
    <3>2. station' = [station EXCEPT !.go = go]
      BY <2>2 DEF OperatorRuns
    <3> QED
      BY <3>1, <3>2 DEF Promise, IInv, TypeOK, Stations
  <2> QED
    BY <2>1, <2>2
<1>2. OnItsWay(b)
  BY DEF Promise
<1> QED
  BY <1>1, <1>2 DEF OnItsWay

(* A connection ends as a whole: no command is left on a closed socket. *)
LEMMA QuietStays ==
    ASSUME Promise, [Next]_vars
    PROVE  Quiet'
<1>0. Quiet /\ TypeOK
  BY DEF Promise, IInv
<1>1. CASE \/ \E a \in Addr, v \in Speeds : ThrottleDrive(a, v)
           \/ \E a \in Addr : ThrottleSelect(a)
           \/ ThrottleStop \/ ThrottleGo
           \/ \E i \in 1 .. Len(locos) : Expire(i)
  <2>1. /\ UNCHANGED <<status, socket>>
        /\ toEcos' = toEcos \/ \E t : toEcos' = Written(t)
    BY <1>1 DEF ThrottleDrive, ThrottleSelect, ThrottleStop, ThrottleGo, Expire, conn
  <2> QED
    BY <1>0, <2>1 DEF Quiet, Written
<1>2. CASE Connect \/ ConnectFails \/ AwaitWifi
  BY <1>0, <1>2 DEF Connect, ConnectFails, AwaitWifi, MayConnect, Quiet
<1>3. CASE LoseConnection
  BY <1>3 DEF LoseConnection, SessionEnds, Quiet
<1>4. CASE StationCloses
  BY <1>4 DEF StationCloses, SessionEnds, Quiet
<1>5. CASE Pass
  BY <1>5 DEF Pass, Quiet
<1>6. CASE Deadline \/ NetworkChanges
  BY <1>0, <1>6 DEF Deadline, NetworkChanges, Quiet
<1>7. CASE StationStep
  BY <1>0, <1>7 DEF StationStep, Quiet, conn
<1>8. CASE \E go \in BOOLEAN : OperatorRuns(go)
  BY <1>0, <1>8 DEF OperatorRuns, Quiet, conn
<1>9. CASE UNCHANGED vars
  BY <1>0, <1>9 DEF vars, conn, Quiet
<1> QED
  BY <1>1, <1>2, <1>3, <1>4, <1>5, <1>6, <1>7, <1>8, <1>9 DEF Next

(* Every step keeps the promise. *)
LEMMA NextPromise == Promise /\ [Next]_vars => Promise'
<1> SUFFICES ASSUME Promise, [Next]_vars
             PROVE  Promise'
  OBVIOUS
<1>1. IInv' /\ Quiet'
  BY NextIInv, QuietStays DEF Promise
<1>2. ASSUME NEW b \in Addr
      PROVE  OnItsWay(b)'
  <2>1. CASE \E a \in Addr, v \in Speeds : ThrottleDrive(a, v)
    BY <2>1, ThrottleDrivePromise
  <2>2. CASE \/ \E a \in Addr : ThrottleSelect(a)
             \/ ThrottleStop \/ ThrottleGo
             \/ \E i \in 1 .. Len(locos) : Expire(i)
    BY <2>2, OtherCommandsPromise
  <2>3. CASE Connect
    BY <2>3, ConnectPromise
  <2>4. CASE LoseConnection \/ StationCloses
    <3>1. SessionEnds /\ pending' = pending
      BY <2>4 DEF LoseConnection, StationCloses
    <3>2. station'.speed = station.speed
      <4>1. station.speed \in [EcosAddr -> Speeds] /\ station \in Stations
        BY DEF Promise, IInv, TypeOK, Stations
      <4>2. CASE LoseConnection
        BY <4>1, <4>2 DEF LoseConnection, Stations
      <4>3. CASE StationCloses
        BY <4>1, <4>3 DEF StationCloses, Stations
      <4> QED
        BY <2>4, <4>2, <4>3
    <3> QED
      BY <3>1, <3>2, SessionEndsPromise
  <2>5. CASE Pass
    BY <2>5, PassPromise
  <2>6. CASE StationStep
    BY <2>6, StationStepPromise
  <2>7. CASE \/ ConnectFails \/ AwaitWifi \/ Deadline \/ NetworkChanges
             \/ \E go \in BOOLEAN : OperatorRuns(go)
             \/ UNCHANGED vars
    BY <2>7, ElsewherePromise
  <2> QED
    BY <2>1, <2>2, <2>3, <2>4, <2>5, <2>6, <2>7 DEF Next
<1> QED
  BY <1>1, <1>2 DEF Promise

(* The promise is kept in every behaviour. *)
LEMMA PromiseKept == Spec => []Promise
<1>1. Init => Promise
  <2>1. Init => IInv
    BY InitIInv
  <2>2. Init => Quiet /\ \A a \in Addr : OnItsWay(a)
    BY DEF Init, Quiet, OnItsWay
  <2> QED
    BY <2>1, <2>2 DEF Promise
<1> QED
  BY <1>1, NextPromise, PTL DEF Spec

(* The speed a throttle asked for last is the one ECoS ends up with, in    *)
(* whatever order connections come and go and maps arrive; only what was   *)
(* on its way when a connection failed is excepted.                        *)
THEOREM QueuedArrives == Spec => []QueuedSpeedArrives
<1>1. Promise => QueuedSpeedArrives
  <2> SUFFICES ASSUME Promise, Settled, NEW a \in addrMap, wish[a] # NoSpeed
               PROVE  station.speed[a] = wish[a]
    BY DEF QueuedSpeedArrives
  <2>1. a \in Addr /\ OnItsWay(a) /\ pending[a] = NoSpeed /\ toEcos = <<>>
    BY LinkAssumption DEF Promise, IInv, TypeOK, NothingOvertakesQueue, Settled
  <2>2. ~Ends(toEcos, a, wish[a])
    BY <2>1 DEF Ends
  <2> QED
    BY <2>1, <2>2 DEF OnItsWay
<1> QED
  BY <1>1, PromiseKept, PTL

-----------------------------------------------------------------------------
(* RunStateAgrees, on the way there: the status query of this connection   *)
(* is still on the wire, behind the request to be told of changes; or ECoS *)
(* tells of changes, and either a stop or resume on the wire will make one *)
(* or the last news of it, heard or not yet, is what it is.                *)
RunOf(go) == IF go THEN "go" ELSE "stop"
IsRun(c) == c.op \in {"stop", "go"}
IsNews(m) == m.kind \in {"stop", "go"}

StatusDue(s, watched) ==
    \E i \in 1 .. Len(s) :
       /\ s[i].op = "status"
       /\ watched \/ \E w \in 1 .. Len(s) : w < i /\ s[w].op = "watch"
RunChanges(s, go) == \E i \in 1 .. Len(s) : IsRun(s[i]) /\ s[i].op # RunOf(go)
LastNews(q, told, go) ==
    \/ \E i \in 1 .. Len(q) : /\ q[i].kind = RunOf(go)
                              /\ \A j \in 1 .. Len(q) : j > i => ~IsNews(q[j])
    \/ told = go /\ \A j \in 1 .. Len(q) : ~IsNews(q[j])

RunNews ==
    socket = "open" =>
       \/ StatusDue(toEcos, station.watched)
       \/ /\ station.watched
          /\ \/ RunChanges(toEcos, station.go)
             \/ LastNews(fromEcos, running, station.go)

(* What is written later takes nothing off the wire. *)
LEMMA DueStays ==
    ASSUME NEW s \in Seq(Commands), NEW t \in Seq(Commands), NEW watched, NEW go
    PROVE  /\ StatusDue(s, watched) => StatusDue(s \o t, watched)
           /\ RunChanges(s, go) => RunChanges(s \o t, go)
<1> DEFINE st == s \o t
<1>1. \A i \in 1 .. Len(s) : i \in 1 .. Len(st) /\ st[i] = s[i]
  OBVIOUS
<1> HIDE DEF st
<1>2. StatusDue(s, watched) => StatusDue(st, watched)
  BY <1>1 DEF StatusDue
<1>3. RunChanges(s, go) => RunChanges(st, go)
  BY <1>1 DEF RunChanges
<1> QED
  BY <1>2, <1>3 DEF st

(* What ECoS takes off the wire: the status query only once it tells of    *)
(* changes, and a stop or resume that makes one only as the first command. *)
LEMMA DueTail ==
    ASSUME NEW s \in Seq(Commands), s # <<>>, NEW watched \in BOOLEAN, NEW go
    PROVE  /\ StatusDue(s, watched) =>
                 \/ Head(s).op = "status" /\ watched
                 \/ StatusDue(Tail(s), watched \/ Head(s).op = "watch")
           /\ RunChanges(s, go) =>
                 \/ IsRun(Head(s)) /\ Head(s).op # RunOf(go)
                 \/ RunChanges(Tail(s), go)
<1> DEFINE r == Tail(s)
<1>1. /\ Len(s) \in Nat /\ Len(s) >= 1 /\ Len(r) = Len(s) - 1 /\ Head(s) = s[1]
      /\ \A i \in 1 .. Len(s) : i # 1 => i - 1 \in 1 .. Len(r) /\ r[i - 1] = s[i]
  OBVIOUS
<1> HIDE DEF r
<1>2. ASSUME StatusDue(s, watched), ~(Head(s).op = "status" /\ watched)
      PROVE  StatusDue(r, watched \/ Head(s).op = "watch")
  <2>1. PICK i \in 1 .. Len(s) :
           /\ s[i].op = "status"
           /\ watched \/ \E w \in 1 .. Len(s) : w < i /\ s[w].op = "watch"
    BY <1>2 DEF StatusDue
  <2>2. i # 1
    BY <1>1, <1>2, <2>1
  <2>3. i - 1 \in 1 .. Len(r) /\ r[i - 1].op = "status"
    BY <1>1, <2>1, <2>2
  <2>4. CASE watched \/ Head(s).op = "watch"
    BY <2>3, <2>4 DEF StatusDue
  <2>5. CASE ~watched /\ Head(s).op # "watch"
    <3>1. PICK w \in 1 .. Len(s) : w < i /\ s[w].op = "watch"
      BY <2>1, <2>5
    <3>2. w - 1 \in 1 .. Len(r) /\ w - 1 < i - 1 /\ r[w - 1].op = "watch"
      BY <1>1, <2>5, <3>1
    <3> QED
      BY <2>3, <3>2 DEF StatusDue
  <2> QED
    BY <2>4, <2>5
<1>3. ASSUME RunChanges(s, go), ~(IsRun(Head(s)) /\ Head(s).op # RunOf(go))
      PROVE  RunChanges(r, go)
  <2>1. PICK i \in 1 .. Len(s) : IsRun(s[i]) /\ s[i].op # RunOf(go)
    BY <1>3 DEF RunChanges
  <2>2. i # 1
    BY <1>1, <1>3, <2>1
  <2>3. i - 1 \in 1 .. Len(r) /\ r[i - 1] = s[i]
    BY <1>1, <2>2
  <2> QED
    BY <2>1, <2>3 DEF RunChanges
<1> QED
  BY <1>2, <1>3 DEF r

(* News that ECoS sends is the last there is; other messages are none. *)
LEMMA NewsAppended ==
    ASSUME NEW q \in Seq(Messages), NEW m \in Messages, NEW told, NEW go \in BOOLEAN
    PROVE  /\ m.kind = RunOf(go) => LastNews(Append(q, m), told, go)
           /\ ~IsNews(m) /\ LastNews(q, told, go) => LastNews(Append(q, m), told, go)
<1> DEFINE r == Append(q, m)
           n == Len(q) + 1
<1>1. /\ Len(q) \in Nat /\ Len(r) = n /\ n \in 1 .. n /\ r[n] = m
      /\ \A i \in 1 .. Len(q) : i \in 1 .. n /\ r[i] = q[i]
      /\ \A i \in 1 .. n : i = n \/ i \in 1 .. Len(q)
  OBVIOUS
<1>2. \A j \in 1 .. n : ~(j > n)
  BY <1>1
<1> HIDE DEF r, n
<1>3. m.kind = RunOf(go) => LastNews(r, told, go)
  BY <1>1, <1>2 DEF LastNews
<1>4. ASSUME ~IsNews(m), LastNews(q, told, go)
      PROVE  LastNews(r, told, go)
  <2>1. CASE told = go /\ \A j \in 1 .. Len(q) : ~IsNews(q[j])
    <3>1. \A j \in 1 .. n : ~IsNews(r[j])
      BY <1>1, <1>4, <2>1
    <3> QED
      BY <1>1, <2>1, <3>1 DEF LastNews
  <2>2. CASE \E i \in 1 .. Len(q) : /\ q[i].kind = RunOf(go)
                                    /\ \A j \in 1 .. Len(q) : j > i => ~IsNews(q[j])
    <3>1. PICK i \in 1 .. Len(q) : /\ q[i].kind = RunOf(go)
                                   /\ \A j \in 1 .. Len(q) : j > i => ~IsNews(q[j])
      BY <2>2
    <3>2. i \in 1 .. n /\ r[i].kind = RunOf(go)
      BY <1>1, <3>1
    <3>3. \A j \in 1 .. n : j > i => ~IsNews(r[j])
      BY <1>1, <1>4, <3>1
    <3> QED
      BY <1>1, <3>2, <3>3 DEF LastNews
  <2> QED
    BY <1>4, <2>1, <2>2 DEF LastNews
<1> QED
  BY <1>3, <1>4 DEF r

(* Hearing a message leaves the last news what it is. *)
LEMMA NewsHeard ==
    ASSUME NEW q \in Seq(Messages), q # <<>>, NEW told, NEW go \in BOOLEAN,
           LastNews(q, told, go), NEW now,
           IsNews(Head(q)) => now = (Head(q).kind = "go"),
           ~IsNews(Head(q)) => now = told
    PROVE  LastNews(Tail(q), now, go)
<1> DEFINE r == Tail(q)
<1>1. /\ Len(q) \in Nat /\ Len(q) >= 1 /\ Len(r) = Len(q) - 1 /\ Head(q) = q[1]
      /\ \A j \in 1 .. Len(r) : r[j] = q[j + 1] /\ j + 1 \in 1 .. Len(q)
      /\ 1 \in 1 .. Len(q)
  OBVIOUS
<1> HIDE DEF r
<1>2. CASE told = go /\ \A j \in 1 .. Len(q) : ~IsNews(q[j])
  BY <1>1, <1>2 DEF LastNews, r
<1>3. CASE \E i \in 1 .. Len(q) : /\ q[i].kind = RunOf(go)
                                  /\ \A j \in 1 .. Len(q) : j > i => ~IsNews(q[j])
  <2>1. PICK i \in 1 .. Len(q) : /\ q[i].kind = RunOf(go)
                                 /\ \A j \in 1 .. Len(q) : j > i => ~IsNews(q[j])
    BY <1>3
  <2>2. CASE i = 1
    <3>1. Head(q).kind = RunOf(go)
      BY <1>1, <2>1, <2>2
    <3>2. now = go
      <4>1. CASE go
        BY <3>1, <4>1 DEF RunOf, IsNews
      <4>2. CASE ~go
        BY <3>1, <4>2 DEF RunOf, IsNews
      <4> QED
        BY <4>1, <4>2
    <3>3. \A j \in 1 .. Len(r) : ~IsNews(r[j])
      BY <1>1, <2>1, <2>2
    <3> QED
      BY <3>2, <3>3 DEF LastNews, r
  <2>3. CASE i # 1
    <3>1. i - 1 \in 1 .. Len(r) /\ r[i - 1].kind = RunOf(go)
      BY <1>1, <2>1, <2>3
    <3>2. \A j \in 1 .. Len(r) : j > i - 1 => ~IsNews(r[j])
      BY <1>1, <2>1
    <3> QED
      BY <3>1, <3>2 DEF LastNews, r
  <2> QED
    BY <2>2, <2>3
<1> QED
  BY <1>2, <1>3 DEF LastNews

(* Telling the throttles what ECoS has cannot make the last news wrong. *)
LEMMA NewsTold ==
    ASSUME NEW q, NEW told, NEW go, LastNews(q, told, go)
    PROVE  LastNews(q, go, go)
  BY DEF LastNews

(* Writing commands keeps the promise of news. *)
LEMMA NewsStays ==
    ASSUME TypeOK, RunNews, NEW t \in Seq(Commands), toEcos' \in {toEcos, Written(t)},
           UNCHANGED <<socket, fromEcos, running, station>>
    PROVE  RunNews'
<1>1. toEcos' \in {toEcos, toEcos \o t} /\ toEcos \in Seq(Commands)
  BY DEF Written, TypeOK
<1>2. StatusDue(toEcos, station.watched) => StatusDue(toEcos', station.watched)
  BY <1>1, DueStays
<1>3. RunChanges(toEcos, station.go) => RunChanges(toEcos', station.go)
  BY <1>1, DueStays
<1> QED
  BY <1>2, <1>3 DEF RunNews

(* A stop or resume a throttle asks for will change what ECoS has, or is   *)
(* what ECoS has.                                                          *)
LEMMA ThrottleRunsNews ==
    ASSUME Promise, RunNews, NEW go \in BOOLEAN,
           running' = go,
           toEcos' = IF status = "CONNECTED" THEN Written(<<System(RunOf(go))>>) ELSE toEcos,
           UNCHANGED <<status, socket, fromEcos, station>>
    PROVE  RunNews'
<1> SUFFICES ASSUME socket = "open", ~StatusDue(toEcos', station.watched)
             PROVE  /\ station.watched
                    /\ \/ RunChanges(toEcos', station.go)
                       \/ LastNews(fromEcos, go, station.go)
  BY DEF RunNews
<1> DEFINE c == System(RunOf(go))
           t == <<c>>
<1>1. /\ toEcos \in Seq(Commands) /\ t \in Seq(Commands) /\ c.op = RunOf(go)
      /\ station.go \in BOOLEAN
  BY CommandTypes DEF Promise, IInv, TypeOK, Stations, RunOf, System, Cmd
<1>2. toEcos' = toEcos \o t
  BY DEF Promise, Quiet, Written
<1>3. c = (toEcos \o t)[Len(toEcos) + 1] /\ Len(toEcos) + 1 \in 1 .. Len(toEcos \o t)
  BY <1>1
<1> HIDE DEF c, t
<1>4. ~StatusDue(toEcos, station.watched)
  BY <1>1, <1>2, DueStays
<1>5. /\ station.watched
      /\ \/ RunChanges(toEcos, station.go)
         \/ LastNews(fromEcos, running, station.go)
  BY <1>4 DEF RunNews
<1>6. CASE RunChanges(toEcos, station.go)
  BY <1>1, <1>2, <1>5, <1>6, DueStays
<1>7. CASE LastNews(fromEcos, running, station.go) /\ station.go = go
  BY <1>5, <1>7, NewsTold
<1>8. CASE station.go # go
  <2>1. RunOf(go) # RunOf(station.go) /\ RunOf(go) \in {"stop", "go"}
    BY <1>1, <1>8 DEF RunOf
  <2>2. RunChanges(toEcos', station.go)
    BY <1>1, <1>2, <1>3, <2>1 DEF RunChanges, IsRun
  <2> QED
    BY <1>5, <2>2
<1> QED
  BY <1>5, <1>6, <1>7, <1>8


(* A pass may hear one message and writes at the end of the wire. *)
LEMMA PassNews ==
    ASSUME Promise, RunNews, Pass
    PROVE  RunNews'
<1>0. TypeOK
  BY DEF Promise, IInv
<1>1. PICK t \in Seq(Commands) : toEcos' = toEcos \o t
  <2>1. addrMap' \in SUBSET EcosAddr /\ locos' \in Seq(Entry)
    BY <1>0, ReadType DEF Pass
  <2> DEFINE ask == IF baseline = NoAddr THEN <<>> ELSE <<Cmd("get", baseline, NoSpeed)>>
             again == IF ResubKnown
                      THEN <<Cmd("request", locos'[resub.index].addr, NoSpeed)>> ELSE <<>>
  <2>2. ask \in Seq(Commands) /\ again \in Seq(Commands)
    BY <1>0, <2>1, CommandTypes DEF TypeOK, ResubKnown
  <2>3. FlushSets(addrMap') \in Seq(Commands)
    BY <1>0, <2>1, FlushSetsType
  <2>4. toEcos' = toEcos \o (FlushSets(addrMap') \o ask \o again)
    BY DEF Pass, PacedWork, Written
  <2> HIDE DEF ask, again
  <2>5. FlushSets(addrMap') \o ask \o again \in Seq(Commands)
    BY <2>2, <2>3
  <2> QED
    BY <2>4, <2>5
<1>2. socket = "open" /\ station' = station
  BY DEF Pass
<1>3. /\ toEcos \in Seq(Commands) /\ fromEcos \in Seq(Messages)
      /\ station.go \in BOOLEAN
  BY <1>0 DEF TypeOK, Stations
<1>4. /\ StatusDue(toEcos, station.watched) => StatusDue(toEcos', station.watched)
      /\ RunChanges(toEcos, station.go) => RunChanges(toEcos', station.go)
  BY <1>1, <1>3, DueStays
<1>5. ASSUME LastNews(fromEcos, running, station.go)
      PROVE  LastNews(fromEcos', running', station.go)
  <2>1. CASE ReadNothing
    BY <1>5, <2>1 DEF ReadNothing
  <2>2. CASE fromEcos # <<>> /\ ReadReply(Head(fromEcos))
    <3>1. /\ fromEcos' = Tail(fromEcos)
          /\ IsNews(Head(fromEcos)) => running' = (Head(fromEcos).kind = "go")
          /\ ~IsNews(Head(fromEcos)) => running' = running
      BY <2>2 DEF ReadReply, IsNews
    <3> QED
      BY <1>3, <1>5, <2>2, <3>1, NewsHeard
  <2> QED
    BY <2>1, <2>2 DEF Pass
<1> QED
  BY <1>2, <1>4, <1>5 DEF RunNews

(* ECoS answers its status query with what it has, and tells of a change.  *)
LEMMA StationStepNews ==
    ASSUME Promise, RunNews, StationStep
    PROVE  RunNews'
<1>0. TypeOK
  BY DEF Promise, IInv
<1> DEFINE c == Head(toEcos)
<1>1. /\ toEcos # <<>> /\ toEcos' = Tail(toEcos) /\ station' = Processed(c)
      /\ fromEcos' = fromEcos \o Answers(c)
      /\ UNCHANGED <<socket, running>>
  BY DEF StationStep, conn, hist
<1>2. /\ toEcos \in Seq(Commands) /\ c \in Commands /\ fromEcos \in Seq(Messages)
      /\ station.watched \in BOOLEAN /\ station.go \in BOOLEAN
  BY <1>0, <1>1 DEF TypeOK, Stations
<1>3. /\ station'.watched = (station.watched \/ c.op = "watch")
      /\ station'.go = IF IsRun(c) THEN c.op = "go" ELSE station.go
  BY <1>1 DEF Processed, IsRun
<1>4. /\ StatusDue(toEcos, station.watched) =>
            \/ c.op = "status" /\ station.watched
            \/ StatusDue(toEcos', station.watched \/ c.op = "watch")
      /\ RunChanges(toEcos, station.go) =>
            \/ IsRun(c) /\ c.op # RunOf(station.go)
            \/ RunChanges(toEcos', station.go)
  BY <1>1, <1>2, DueTail
<1>5. \A go \in BOOLEAN : RunMsg(go) \in Messages /\ RunMsg(go).kind = RunOf(go)
  BY DEF RunMsg, RunOf, Msg, Messages
<1> HIDE DEF c
<1>6. SUFFICES ASSUME socket = "open"
               PROVE  RunNews'
  BY <1>1 DEF RunNews
<1>7. CASE c.op = "status" /\ station.watched
  <2>1. Answers(c) = <<RunMsg(station.go)>>
    BY <1>7 DEF Answers
  <2>2. fromEcos' = Append(fromEcos, RunMsg(station.go))
    BY <1>1, <1>2, <2>1
  <2>3. LastNews(fromEcos', running, station.go)
    BY <1>2, <1>5, <2>2, NewsAppended
  <2>4. station'.watched /\ station'.go = station.go
    BY <1>3, <1>7 DEF IsRun
  <2> QED
    BY <1>1, <2>3, <2>4 DEF RunNews
<1>8. CASE StatusDue(toEcos', station.watched \/ c.op = "watch")
  BY <1>3, <1>8 DEF RunNews
<1>9. CASE station.watched /\ IsRun(c) /\ c.op # RunOf(station.go)
  <2>1. PICK go \in BOOLEAN : go = (c.op = "go")
    OBVIOUS
  <2>2. station.go # go /\ station'.go = go /\ station'.watched
    <3>1. CASE station.go
      BY <1>3, <1>9, <2>1, <3>1 DEF IsRun, RunOf
    <3>2. CASE ~station.go
      BY <1>3, <1>9, <2>1, <3>2 DEF IsRun, RunOf
    <3> QED
      BY <3>1, <3>2
  <2>3. Answers(c) = <<RunMsg(go)>>
    BY <1>9, <2>1, <2>2 DEF Answers, IsRun
  <2>4. fromEcos' = Append(fromEcos, RunMsg(go))
    BY <1>1, <1>2, <2>3
  <2>5. LastNews(fromEcos', running, go)
    BY <1>5, <1>2, <2>4, NewsAppended
  <2> QED
    BY <1>1, <2>2, <2>5 DEF RunNews
<1>10. CASE /\ station.watched /\ ~(IsRun(c) /\ c.op # RunOf(station.go))
            /\ ~(c.op = "status")
            /\ \/ RunChanges(toEcos', station.go)
               \/ LastNews(fromEcos, running, station.go)
  <2>1. station'.go = station.go /\ station'.watched
    <3>1. CASE station.go
      BY <1>3, <1>10, <3>1 DEF IsRun, RunOf
    <3>2. CASE ~station.go
      BY <1>2, <1>3, <1>10, <3>2 DEF IsRun, RunOf
    <3> QED
      BY <1>2, <3>1, <3>2
  <2>2. CASE RunChanges(toEcos', station.go)
    BY <2>1, <2>2 DEF RunNews
  <2>3. CASE LastNews(fromEcos, running, station.go)
    <3>1. fromEcos' = fromEcos \/ \E m \in Messages : ~IsNews(m) /\ fromEcos' = Append(fromEcos, m)
      <4>1. /\ ~IsNews(Msg("map", NoAddr, NoSpeed)) /\ Msg("map", NoAddr, NoSpeed) \in Messages
            /\ \A a \in EcosAddr, v \in Speeds :
                  ~IsNews(Msg("speed", a, v)) /\ Msg("speed", a, v) \in Messages
        BY DEF IsNews, Msg, Messages
      <4>2. /\ c.op \in {"get", "set"} => c.addr \in EcosAddr
            /\ c.op = "set" => c.val \in Speeds
            /\ station.speed \in [EcosAddr -> Speeds]
        BY <1>0, <1>2 DEF Commands, TypeOK, Stations
      <4>3. \/ Answers(c) = <<>>
            \/ \E m \in Messages : ~IsNews(m) /\ Answers(c) = <<m>>
        <5>1. CASE c.op = "query"
          BY <4>1, <5>1 DEF Answers
        <5>2. CASE c.op = "get"
          <6>1. Answers(c) = <<Msg("speed", c.addr, station.speed[c.addr])>>
            BY <5>2 DEF Answers
          <6>2. c.addr \in EcosAddr /\ station.speed[c.addr] \in Speeds
            BY <4>2, <5>2
          <6> QED
            BY <4>1, <6>1, <6>2
        <5>3. CASE c.op = "set" /\ c.addr \in station.viewed
          <6>1. Answers(c) = <<Msg("speed", c.addr, c.val)>>
            BY <5>3 DEF Answers
          <6> QED
            BY <4>1, <4>2, <5>3, <6>1
        <5>4. CASE c.op = "set" /\ c.addr \notin station.viewed
          BY <5>4 DEF Answers
        <5>5. CASE IsRun(c)
          <6>1. station.go = (c.op = "go")
            <7>1. CASE station.go
              BY <1>10, <5>5, <7>1 DEF IsRun, RunOf
            <7>2. CASE ~station.go
              BY <1>2, <1>10, <5>5, <7>2 DEF IsRun, RunOf
            <7> QED
              BY <1>2, <7>1, <7>2
          <6> QED
            BY <5>5, <6>1 DEF Answers, IsRun
        <5>6. CASE c.op \in {"watch", "request", "release"}
          BY <5>6 DEF Answers
        <5> QED
          BY <1>2, <1>10, <5>1, <5>2, <5>3, <5>4, <5>5, <5>6 DEF Commands, IsRun
      <4> QED
        BY SMTT(30), <1>1, <1>2, <4>3
    <3>2. LastNews(fromEcos', running, station.go)
      BY <1>2, <2>3, <3>1, NewsAppended
    <3> QED
      BY <1>1, <2>1, <3>2 DEF RunNews
  <2> QED
    BY <1>10, <2>2, <2>3
<1>11. CASE c.op = "status" /\ ~station.watched
  BY <1>4, <1>6, <1>8, <1>11 DEF RunNews
<1> QED
  BY <1>4, <1>6, <1>7, <1>8, <1>9, <1>10, <1>11 DEF RunNews

(* What the operator does is news as soon as ECoS tells of changes. *)
LEMMA OperatorRunsNews ==
    ASSUME Promise, RunNews, NEW go \in BOOLEAN, OperatorRuns(go)
    PROVE  RunNews'
<1>1. /\ fromEcos' = IF station.watched THEN Append(fromEcos, RunMsg(go)) ELSE fromEcos
      /\ station' = [station EXCEPT !.go = go]
      /\ UNCHANGED <<socket, toEcos, running>>
  BY DEF OperatorRuns, conn, hist
<1>2. /\ fromEcos \in Seq(Messages) /\ station \in Stations
      /\ RunMsg(go) \in Messages /\ RunMsg(go).kind = RunOf(go)
  BY DEF Promise, IInv, TypeOK, RunMsg, RunOf, Msg, Messages
<1>3. station'.go = go /\ station'.watched = station.watched
  BY <1>1, <1>2 DEF Stations
<1>4. CASE station.watched
  <2>1. LastNews(fromEcos', running, go)
    BY <1>1, <1>2, <1>4, NewsAppended
  <2> QED
    BY <1>1, <1>3, <1>4, <2>1 DEF RunNews
<1>5. CASE ~station.watched
  BY <1>1, <1>3, <1>5 DEF RunNews
<1> QED
  BY <1>4, <1>5

(* Every step keeps the news coming. *)
LEMMA NextNews == Promise /\ RunNews /\ [Next]_vars => RunNews'
<1> SUFFICES ASSUME Promise, RunNews, [Next]_vars
             PROVE  RunNews'
  OBVIOUS
<1>0. TypeOK
  BY DEF Promise, IInv
<1>1. ASSUME NEW a \in Addr, NEW v \in Speeds, ThrottleDrive(a, v)
      PROVE  RunNews'
  <2>1. UNCHANGED <<socket, fromEcos, running, station>>
    BY <1>1 DEF ThrottleDrive
  <2>2. CASE a \in addrMap
    <3>1. toEcos' = Written(Subscription(a) \o <<Cmd("set", a, v)>>)
      BY <1>1, <2>2 DEF ThrottleDrive
    <3>2. <<Cmd("set", a, v)>> \in Seq(Commands)
      BY <1>0, <2>2, CommandTypes DEF TypeOK
    <3>3. Subscription(a) \o <<Cmd("set", a, v)>> \in Seq(Commands)
      BY <1>0, <3>2, SubscriptionType
    <3> QED
      BY <1>0, <2>1, <3>1, <3>3, NewsStays
  <2>3. CASE a \notin addrMap
    <3>1. toEcos' = toEcos
      BY <1>1, <2>3 DEF ThrottleDrive
    <3> QED
      BY <2>1, <3>1 DEF RunNews
  <2> QED
    BY <2>2, <2>3
<1>2. ASSUME NEW a \in Addr, ThrottleSelect(a)
      PROVE  RunNews'
  <2>1. toEcos' = Written(Subscription(a)) /\ UNCHANGED <<socket, fromEcos, running, station>>
    BY <1>2 DEF ThrottleSelect
  <2> QED
    BY <1>0, <2>1, SubscriptionType, NewsStays
<1>3. CASE ThrottleStop
  <2>1. /\ running' = FALSE
        /\ toEcos' = IF status = "CONNECTED" THEN Written(<<System(RunOf(FALSE))>>) ELSE toEcos
        /\ UNCHANGED <<status, socket, fromEcos, station>>
    BY <1>3 DEF ThrottleStop, conn, RunOf
  <2> QED
    BY <2>1, ThrottleRunsNews
<1>4. CASE ThrottleGo
  <2>1. /\ running' = TRUE
        /\ toEcos' = IF status = "CONNECTED" THEN Written(<<System(RunOf(TRUE))>>) ELSE toEcos
        /\ UNCHANGED <<status, socket, fromEcos, station>>
    BY <1>4 DEF ThrottleGo, conn, RunOf
  <2> QED
    BY <2>1, ThrottleRunsNews
<1>5. ASSUME NEW i \in 1 .. Len(locos), Expire(i)
      PROVE  RunNews'
  <2> DEFINE a == locos[i].addr
             t == IF CanSubscribe(a) THEN <<Cmd("release", a, NoSpeed)>> ELSE <<>>
  <2>1. toEcos' = IF CanSubscribe(a) THEN Written(<<Cmd("release", a, NoSpeed)>>)
                                     ELSE toEcos
    BY <1>5 DEF Expire
  <2>2. UNCHANGED <<socket, fromEcos, running, station>>
    BY <1>5 DEF Expire, conn
  <2> HIDE DEF a
  <2>3. t \in Seq(Commands)
    BY <1>0, CommandTypes DEF CanSubscribe, TypeOK
  <2>4. toEcos' \in {toEcos, Written(t)}
    BY <2>1
  <2> QED
    BY <1>0, <2>2, <2>3, <2>4, NewsStays
<1>6. CASE Connect
  <2>1. toEcos' = Greeting
    BY <1>6 DEF Connect
  <2>2. \A watched : StatusDue(Greeting, watched)
    BY DEF StatusDue, Greeting, System, Cmd
  <2> QED
    BY <2>1, <2>2 DEF RunNews
<1>7. CASE LoseConnection \/ StationCloses
  BY <1>7 DEF LoseConnection, StationCloses, SessionEnds, RunNews
<1>8. CASE Pass
  BY <1>8, PassNews
<1>9. CASE StationStep
  BY <1>9, StationStepNews
<1>10. CASE \E go \in BOOLEAN : OperatorRuns(go)
  BY <1>10, OperatorRunsNews
<1>11. CASE ConnectFails \/ AwaitWifi \/ Deadline \/ NetworkChanges \/ UNCHANGED vars
  <2>1. UNCHANGED <<socket, fromEcos, running, station, toEcos>>
    BY <1>11 DEF ConnectFails, AwaitWifi, Deadline, NetworkChanges, vars, conn, hist
  <2> QED
    BY <2>1 DEF RunNews
<1> QED
  BY <1>1, <1>2, <1>3, <1>4, <1>5, <1>6, <1>7, <1>8, <1>9, <1>10, <1>11 DEF Next

(* Throttles show stop or go as ECoS has it as soon as nothing is on its   *)
(* way, whatever was pressed on either side, also while they were apart or *)
(* the one had restarted.                                                  *)
THEOREM RunStateAlwaysAgrees == Spec => []RunStateAgrees
<1>1. Init => RunNews
  BY DEF Init, RunNews
<1>2. RunNews => RunStateAgrees
  BY DEF RunNews, StatusDue, RunChanges, LastNews, RunStateAgrees, Settled
<1> QED
  BY <1>1, <1>2, PromiseKept, NextNews, PTL DEF Spec

-----------------------------------------------------------------------------
(* ViewedAfterConnect, on the way there: in a connection whose             *)
(* re-subscription ran undisturbed, every loco of the ECoS in the table is *)
(* viewed or about to be, or the re-subscription has not come to it yet.   *)
(* That takes a table without duplicates, which no loco enters but by a    *)
(* throttle: whatever ECoS reports a speed of is in the table already.     *)
IsRequest(c, a) == c.op = "request" /\ c.addr = a
IsRelease(c, a) == c.op = "release" /\ c.addr = a
Kept(s, a) == \A i \in 1 .. Len(s) : ~IsRelease(s[i], a)
Asked(s, a) ==
    \E i \in 1 .. Len(s) : /\ IsRequest(s[i], a)
                           /\ \A j \in 1 .. Len(s) : j > i => ~IsRelease(s[j], a)
Secured(a) == Asked(toEcos, a) \/ (a \in station.viewed /\ Kept(toEcos, a))

Distinct == \A i, j \in 1 .. Len(locos) : locos[i].addr = locos[j].addr => i = j
MapWhole == addrMap \in {{}, EcosAddr}
NothingViewed ==
    (socket # "open" \/ addrMap = {}) =>
       /\ station.viewed = {}
       /\ \A i \in 1 .. Len(toEcos) : toEcos[i].op # "request"
AboutTracked ==
    /\ baseline \in Tracked \cup {NoAddr}
    /\ \A i \in 1 .. Len(toEcos) : toEcos[i].op = "get" => toEcos[i].addr \in Tracked
    /\ \A i \in 1 .. Len(fromEcos) :
          fromEcos[i].kind = "speed" => fromEcos[i].addr \in Tracked
Unheard ==
    \A i \in 1 .. Len(toEcos) :
       (toEcos[i].op = "set" /\ toEcos[i].addr \notin Tracked) =>
          /\ toEcos[i].addr \notin station.viewed
          /\ \A j \in 1 .. Len(toEcos) : ~IsRequest(toEcos[j], toEcos[i].addr)
Walked ==
    (clean /\ socket = "open") =>
       /\ resub.pending => resub.index <= Len(locos) + 1
       /\ ~resub.pending => addrMap = EcosAddr
       /\ \A a \in EcosAddr, i \in 1 .. Len(locos) :
             locos[i].addr = a => Secured(a) \/ (resub.pending /\ i >= resub.index)

ViewInv ==
    /\ Distinct
    /\ MapWhole
    /\ NothingViewed
    /\ AboutTracked
    /\ Unheard
    /\ Walked

(* A command on the wire was there before or has just been written. *)
LEMMA JoinedMembers ==
    ASSUME NEW s \in Seq(Commands), NEW t \in Seq(Commands)
    PROVE  \A i \in 1 .. Len(s \o t) :
              \/ \E j \in 1 .. Len(s) : (s \o t)[i] = s[j]
              \/ \E j \in 1 .. Len(t) : (s \o t)[i] = t[j]
<1> SUFFICES ASSUME NEW i \in 1 .. Len(s \o t)
             PROVE  \/ \E j \in 1 .. Len(s) : (s \o t)[i] = s[j]
                    \/ \E j \in 1 .. Len(t) : (s \o t)[i] = t[j]
  OBVIOUS
<1>1. /\ Len(s) \in Nat /\ Len(t) \in Nat /\ Len(s \o t) = Len(s) + Len(t)
      /\ (s \o t)[i] = IF i <= Len(s) THEN s[i] ELSE t[i - Len(s)]
  OBVIOUS
<1>2. CASE i <= Len(s)
  <2>1. i \in 1 .. Len(s) /\ (s \o t)[i] = s[i]
    BY <1>1, <1>2
  <2> QED
    BY <2>1
<1>3. CASE ~(i <= Len(s))
  <2>1. i - Len(s) \in 1 .. Len(t) /\ (s \o t)[i] = t[i - Len(s)]
    BY <1>1, <1>3
  <2> QED
    BY <2>1
<1> QED
  BY <1>2, <1>3

(* A request at the end of what is written is one at the end of the wire. *)
LEMMA AskedAppended ==
    ASSUME NEW s \in Seq(Commands), NEW t \in Seq(Commands), NEW a, Asked(t, a)
    PROVE  Asked(s \o t, a)
<1>1. PICK i \in 1 .. Len(t) : /\ IsRequest(t[i], a)
                               /\ \A j \in 1 .. Len(t) : j > i => ~IsRelease(t[j], a)
  BY DEF Asked
<1>2. /\ Len(s) \in Nat /\ Len(t) \in Nat /\ Len(s \o t) = Len(s) + Len(t)
      /\ \A j \in 1 .. Len(s) + Len(t) :
            (s \o t)[j] = IF j <= Len(s) THEN s[j] ELSE t[j - Len(s)]
  OBVIOUS
<1> DEFINE st == s \o t
           k == Len(s) + i
<1>3. k \in 1 .. Len(st) /\ st[k] = t[i]
  BY <1>2
<1>4. ASSUME NEW j \in 1 .. Len(st), j > k
      PROVE  ~IsRelease(st[j], a)
  <2>1. j - Len(s) \in 1 .. Len(t) /\ j - Len(s) > i /\ st[j] = t[j - Len(s)]
    BY <1>2, <1>4
  <2> QED
    BY <1>1, <2>1
<1> HIDE DEF st, k
<1>5. Asked(st, a)
  BY <1>1, <1>3, <1>4 DEF Asked
<1> QED
  BY <1>5 DEF st

(* Commands that do not release a loco leave its last request the last. *)
LEMMA AskedStays ==
    ASSUME NEW s \in Seq(Commands), NEW t \in Seq(Commands), NEW a, Kept(t, a)
    PROVE  /\ Asked(s, a) => Asked(s \o t, a)
           /\ Kept(s, a) => Kept(s \o t, a)
<1>1. /\ Len(s) \in Nat /\ Len(t) \in Nat /\ Len(s \o t) = Len(s) + Len(t)
      /\ \A j \in 1 .. Len(s) + Len(t) :
            (s \o t)[j] = IF j <= Len(s) THEN s[j] ELSE t[j - Len(s)]
  OBVIOUS
<1> DEFINE st == s \o t
<1>2. \A j \in 1 .. Len(st) : j > Len(s) => ~IsRelease(st[j], a)
  <2> SUFFICES ASSUME NEW j \in 1 .. Len(st), j > Len(s)
               PROVE  ~IsRelease(st[j], a)
    OBVIOUS
  <2>1. j - Len(s) \in 1 .. Len(t) /\ st[j] = t[j - Len(s)]
    BY <1>1
  <2> QED
    BY <2>1 DEF Kept
<1>3. Len(st) = Len(s) + Len(t) /\ \A j \in 1 .. Len(s) : j \in 1 .. Len(st) /\ st[j] = s[j]
  BY <1>1
<1>4. \A j \in 1 .. Len(st) : j \in Nat /\ (j > Len(s) \/ j \in 1 .. Len(s))
  BY <1>1
<1> HIDE DEF st
<1>5. Kept(s, a) => Kept(st, a)
  BY <1>2, <1>3, <1>4 DEF Kept
<1>6. ASSUME Asked(s, a)
      PROVE  Asked(st, a)
  <2>1. PICK i \in 1 .. Len(s) : /\ IsRequest(s[i], a)
                                 /\ \A j \in 1 .. Len(s) : j > i => ~IsRelease(s[j], a)
    BY <1>6 DEF Asked
  <2>2. i \in 1 .. Len(st) /\ st[i] = s[i]
    BY <1>3
  <2>3. \A j \in 1 .. Len(st) : j > i => ~IsRelease(st[j], a)
    BY <1>2, <1>3, <1>4, <2>1
  <2> QED
    BY <2>1, <2>2, <2>3 DEF Asked
<1> QED
  BY <1>5, <1>6 DEF st

(* Taking the first command off the wire. *)
LEMMA AskedTail ==
    ASSUME NEW s \in Seq(Commands), s # <<>>, NEW a
    PROVE  /\ Kept(s, a) => Kept(Tail(s), a) /\ ~IsRelease(Head(s), a)
           /\ Asked(s, a) => \/ Asked(Tail(s), a)
                             \/ IsRequest(Head(s), a) /\ Kept(Tail(s), a)
           /\ \A i \in 1 .. Len(Tail(s)) : \E j \in 1 .. Len(s) : Tail(s)[i] = s[j]
<1> DEFINE r == Tail(s)
<1>1. /\ Len(s) \in Nat /\ Len(s) >= 1 /\ Len(r) = Len(s) - 1 /\ Head(s) = s[1]
      /\ \A j \in 1 .. Len(r) : r[j] = s[j + 1] /\ j + 1 \in 1 .. Len(s)
  OBVIOUS
<1> HIDE DEF r
<1>2. Kept(s, a) => Kept(r, a) /\ ~IsRelease(Head(s), a)
  BY <1>1 DEF Kept
<1>3. ASSUME Asked(s, a)
      PROVE  Asked(r, a) \/ (IsRequest(Head(s), a) /\ Kept(r, a))
  <2>1. PICK i \in 1 .. Len(s) : /\ IsRequest(s[i], a)
                                 /\ \A j \in 1 .. Len(s) : j > i => ~IsRelease(s[j], a)
    BY <1>3 DEF Asked
  <2>2. CASE i = 1
    <3>1. \A j \in 1 .. Len(r) : ~IsRelease(r[j], a)
      BY <1>1, <2>1, <2>2
    <3> QED
      BY <1>1, <2>1, <2>2, <3>1 DEF Kept
  <2>3. CASE i # 1
    <3>1. i - 1 \in 1 .. Len(r) /\ r[i - 1] = s[i]
      BY <1>1, <2>3
    <3>2. \A j \in 1 .. Len(r) : j > i - 1 => ~IsRelease(r[j], a)
      BY <1>1, <2>1
    <3> QED
      BY <2>1, <3>1, <3>2 DEF Asked
  <2> QED
    BY <2>2, <2>3
<1> QED
  BY <1>1, <1>2, <1>3 DEF r

(* The table keeps its locos, or gets one that it did not have. *)
SameLocos ==
    /\ Len(locos') = Len(locos)
    /\ \A i \in 1 .. Len(locos) : locos'[i].addr = locos[i].addr
NewLoco(a) ==
    /\ a \notin Tracked
    /\ Len(locos') = Len(locos) + 1
    /\ \A i \in 1 .. Len(locos) : locos'[i].addr = locos[i].addr
    /\ locos'[Len(locos) + 1].addr = a

(* What is stored goes where its loco is, or behind all others. *)
LEMMA StoredWhere ==
    ASSUME TypeOK, NEW a \in Addr, NEW v, locos' = Stored(a, v)
    PROVE  /\ a \in Tracked => SameLocos
           /\ a \notin Tracked => NewLoco(a)
<1>1. locos \in Seq(Entry) /\ Len(locos) \in Nat
  BY DEF TypeOK
<1>2. CASE a \in Tracked
  <2>1. locos' = [i \in 1 .. Len(locos) |-> IF locos[i].addr = a
                                   THEN [addr |-> a, speed |-> v] ELSE locos[i]]
    BY <1>2 DEF Stored
  <2>2. Len(locos') = Len(locos)
    BY <1>1, <2>1
  <2> QED
    BY <1>2, <2>1, <2>2 DEF SameLocos
<1>3. CASE a \notin Tracked
  <2> DEFINE e == [addr |-> a, speed |-> v]
  <2>1. locos' = Append(locos, e) /\ e.addr = a
    BY <1>3 DEF Stored
  <2> HIDE DEF e
  <2>2. /\ Len(locos') = Len(locos) + 1 /\ locos'[Len(locos) + 1] = e
        /\ \A i \in 1 .. Len(locos) : locos'[i] = locos[i]
    BY <1>1, <2>1
  <2> QED
    BY <1>3, <2>1, <2>2 DEF NewLoco
<1> QED
  BY <1>2, <1>3

(* So does an emergency stop, or reading a message about a tracked loco. *)
LEMMA StoppedWhere ==
    ASSUME TypeOK, locos' = AllStopped
    PROVE  SameLocos
  BY DEF TypeOK, AllStopped, SameLocos

(* Who is tracked then, each once. *)
LEMMA TrackedThen ==
    ASSUME TypeOK, Distinct
    PROVE  /\ SameLocos => Tracked' = Tracked /\ Distinct'
           /\ \A a \in Addr : NewLoco(a) => Tracked' = Tracked \cup {a} /\ Distinct'
<1>1. Len(locos) \in Nat
  BY DEF TypeOK
<1>2. ASSUME SameLocos
      PROVE  Tracked' = Tracked /\ Distinct'
  BY <1>1, <1>2 DEF SameLocos, Tracked, Distinct
<1>3. ASSUME NEW a \in Addr, NewLoco(a)
      PROVE  Tracked' = Tracked \cup {a} /\ Distinct'
  <2> DEFINE n == Len(locos) + 1
  <2>1. /\ Len(locos') = n /\ n \in 1 .. n /\ locos'[n].addr = a
        /\ \A i \in 1 .. Len(locos) : i \in 1 .. n /\ locos'[i].addr = locos[i].addr
        /\ \A i \in 1 .. n : i = n \/ i \in 1 .. Len(locos)
    BY <1>1, <1>3 DEF NewLoco
  <2> HIDE DEF n
  <2>2. \A i \in 1 .. Len(locos) : locos[i].addr \in Tracked /\ locos[i].addr # a
    BY <1>3 DEF NewLoco, Tracked
  <2>3. Distinct'
    BY <2>1, <2>2 DEF Distinct
  <2>4. ASSUME NEW b
        PROVE  b \in Tracked' <=> b \in Tracked \/ b = a
    BY <2>1 DEF Tracked
  <2> QED
    BY <2>3, <2>4
<1> QED
  BY <1>2, <1>3


(* What a loco's request is worth is not lessened by what is written after *)
(* it, as long as that does not release the loco.                          *)
LEMMA SecuredStays ==
    ASSUME TypeOK, NEW t \in Seq(Commands), toEcos' \in {toEcos, toEcos \o t},
           NEW a, Kept(t, a), Secured(a), station'.viewed = station.viewed
    PROVE  Secured(a)'
<1>1. toEcos \in Seq(Commands)
  BY DEF TypeOK
<1>2. Asked(toEcos, a) => Asked(toEcos', a)
  BY <1>1, AskedStays
<1>3. Kept(toEcos, a) => Kept(toEcos', a)
  BY <1>1, AskedStays
<1> QED
  BY <1>2, <1>3 DEF Secured

(* Steps that change nothing of who is tracked or viewed, and write at     *)
(* most commands about the connection.                                     *)
LEMMA ViewsUntouched ==
    ASSUME TypeOK, ViewInv, SameLocos, NEW t \in Seq(Commands),
           \A i \in 1 .. Len(t) : t[i].op \in {"stop", "go"},
           toEcos' \in {toEcos, Written(t)},
           \A i \in 1 .. Len(fromEcos') : fromEcos'[i].kind = "speed" =>
              \E j \in 1 .. Len(fromEcos) : fromEcos'[i] = fromEcos[j],
           UNCHANGED <<socket, addrMap, baseline>>, station'.viewed = station.viewed,
           clean' => clean /\ resub' = resub
    PROVE  ViewInv'
<1>1. toEcos' \in {toEcos, toEcos \o t} /\ toEcos \in Seq(Commands) /\ Len(locos) \in Nat
  BY DEF Written, TypeOK
<1>2. \A i \in 1 .. Len(toEcos') : \/ \E j \in 1 .. Len(toEcos) : toEcos'[i] = toEcos[j]
                                   \/ toEcos'[i].op \in {"stop", "go"}
  <2>1. CASE toEcos' = toEcos
    BY <2>1
  <2>2. CASE toEcos' = toEcos \o t
    BY <1>1, <2>2, JoinedMembers
  <2> QED
    BY <1>1, <2>1, <2>2
<1>3. Tracked' = Tracked /\ Distinct'
  BY TrackedThen DEF ViewInv
<1>4. MapWhole'
  BY DEF ViewInv, MapWhole
<1>5. NothingViewed'
  BY <1>2 DEF ViewInv, NothingViewed
<1>6. AboutTracked'
  <2>1. baseline' \in Tracked' \cup {NoAddr}
    BY <1>3 DEF ViewInv, AboutTracked
  <2>2. \A i \in 1 .. Len(toEcos') : toEcos'[i].op = "get" => toEcos'[i].addr \in Tracked'
    BY <1>2, <1>3 DEF ViewInv, AboutTracked
  <2>3. \A i \in 1 .. Len(fromEcos') :
           fromEcos'[i].kind = "speed" => fromEcos'[i].addr \in Tracked'
    BY <1>3 DEF ViewInv, AboutTracked
  <2> QED
    BY <2>1, <2>2, <2>3 DEF AboutTracked
<1>7. Unheard'
  <2> SUFFICES ASSUME NEW i \in 1 .. Len(toEcos'), toEcos'[i].op = "set",
                      toEcos'[i].addr \notin Tracked
               PROVE  /\ toEcos'[i].addr \notin station.viewed
                      /\ \A j \in 1 .. Len(toEcos') : ~IsRequest(toEcos'[j], toEcos'[i].addr)
    BY <1>3 DEF Unheard
  <2>1. PICK k \in 1 .. Len(toEcos) : toEcos'[i] = toEcos[k]
    BY <1>2
  <2>2. /\ toEcos[k].addr \notin station.viewed
        /\ \A j \in 1 .. Len(toEcos) : ~IsRequest(toEcos[j], toEcos[k].addr)
    BY <2>1 DEF ViewInv, Unheard
  <2> QED
    BY <1>2, <2>1, <2>2 DEF IsRequest
<1>8. Walked'
  <2> SUFFICES ASSUME clean', socket' = "open"
               PROVE  /\ resub'.pending => resub'.index <= Len(locos') + 1
                      /\ ~resub'.pending => addrMap' = EcosAddr
                      /\ \A b \in EcosAddr, i \in 1 .. Len(locos') :
                            locos'[i].addr = b =>
                               Secured(b)' \/ (resub'.pending /\ i >= resub'.index)
    BY DEF Walked
  <2>1. \A a : Secured(a) => Secured(a)'
    <3> SUFFICES ASSUME NEW a, Secured(a)
                 PROVE  Secured(a)'
      OBVIOUS
    <3>1. Kept(t, a)
      BY DEF Kept, IsRelease
    <3> QED
      BY <1>1, <3>1, SecuredStays
  <2> QED
    BY <2>1 DEF ViewInv, Walked, SameLocos
<1> QED
  BY <1>3, <1>4, <1>5, <1>6, <1>7, <1>8 DEF ViewInv

(* A throttle drives or selects a loco: one that is new to the table is    *)
(* requested at once, or stands where the re-subscription will find it.    *)
LEMMA ThrottleViews ==
    ASSUME Promise, ViewInv, NEW a \in Addr, NEW t \in Seq(Commands),
           (a \in Tracked /\ SameLocos) \/ NewLoco(a),
           \A i \in 1 .. Len(t) : /\ t[i].op \in {"request", "set"} /\ t[i].addr = a
                                  /\ t[i].op = "request" => CanSubscribe(a),
           (a \notin Tracked /\ CanSubscribe(a)) => Asked(t, a),
           toEcos' = Written(t), baseline' \in {baseline, a},
           UNCHANGED <<socket, addrMap, resub, fromEcos, station, clean>>
    PROVE  ViewInv'
<1>0. TypeOK /\ Quiet
  BY DEF Promise, IInv
<1>1. toEcos' \in {toEcos, toEcos \o t} /\ toEcos \in Seq(Commands) /\ Len(locos) \in Nat
  BY <1>0 DEF Written, TypeOK
<1>2. \A i \in 1 .. Len(toEcos') : \/ \E j \in 1 .. Len(toEcos) : toEcos'[i] = toEcos[j]
                                   \/ \E j \in 1 .. Len(t) : toEcos'[i] = t[j]
  <2>1. CASE toEcos' = toEcos
    BY <2>1
  <2>2. CASE toEcos' = toEcos \o t
    BY <1>1, <2>2, JoinedMembers
  <2> QED
    BY <1>1, <2>1, <2>2
<1>3. Tracked' = Tracked \cup {a} /\ Distinct'
  BY <1>0, TrackedThen DEF ViewInv
<1>4. MapWhole'
  BY DEF ViewInv, MapWhole
<1>5. NothingViewed'
  <2> SUFFICES ASSUME socket # "open" \/ addrMap = {}
               PROVE  /\ station.viewed = {}
                      /\ \A i \in 1 .. Len(toEcos') : toEcos'[i].op # "request"
    BY DEF NothingViewed
  <2>1. /\ station.viewed = {}
        /\ \A i \in 1 .. Len(toEcos) : toEcos[i].op # "request"
    BY DEF ViewInv, NothingViewed
  <2>2. CASE socket # "open"
    BY <2>1, <2>2 DEF Written
  <2>3. CASE addrMap = {}
    BY <1>2, <2>1, <2>3 DEF CanSubscribe
  <2> QED
    BY <2>2, <2>3
<1>6. AboutTracked'
  <2>1. baseline' \in Tracked' \cup {NoAddr}
    BY <1>3 DEF ViewInv, AboutTracked
  <2>2. \A i \in 1 .. Len(toEcos') : toEcos'[i].op = "get" => toEcos'[i].addr \in Tracked'
    BY <1>2, <1>3 DEF ViewInv, AboutTracked
  <2>3. \A i \in 1 .. Len(fromEcos') :
           fromEcos'[i].kind = "speed" => fromEcos'[i].addr \in Tracked'
    BY <1>3 DEF ViewInv, AboutTracked
  <2> QED
    BY <2>1, <2>2, <2>3 DEF AboutTracked
<1>7. Unheard'
  <2> SUFFICES ASSUME NEW i \in 1 .. Len(toEcos'), toEcos'[i].op = "set",
                      toEcos'[i].addr \notin Tracked \cup {a}
               PROVE  /\ toEcos'[i].addr \notin station.viewed
                      /\ \A j \in 1 .. Len(toEcos') : ~IsRequest(toEcos'[j], toEcos'[i].addr)
    BY <1>3 DEF Unheard
  <2>1. PICK k \in 1 .. Len(toEcos) : toEcos'[i] = toEcos[k]
    BY <1>2
  <2>2. /\ toEcos[k].addr \notin station.viewed
        /\ \A j \in 1 .. Len(toEcos) : ~IsRequest(toEcos[j], toEcos[k].addr)
    BY <2>1 DEF ViewInv, Unheard
  <2> QED
    BY SMTT(30), <1>2, <2>1, <2>2 DEF IsRequest
<1>8. Walked'
  <2> SUFFICES ASSUME clean, socket = "open"
               PROVE  /\ resub.pending => resub.index <= Len(locos') + 1
                      /\ ~resub.pending => addrMap = EcosAddr
                      /\ \A b \in EcosAddr, i \in 1 .. Len(locos') :
                            locos'[i].addr = b =>
                               Secured(b)' \/ (resub.pending /\ i >= resub.index)
    BY DEF Walked
  <2>1. \A b : Secured(b) => Secured(b)'
    <3> SUFFICES ASSUME NEW b, Secured(b)
                 PROVE  Secured(b)'
      OBVIOUS
    <3>1. Kept(t, b)
      BY DEF Kept, IsRelease
    <3> QED
      BY <1>0, <1>1, <3>1, SecuredStays
  <2>2. /\ resub.pending => resub.index <= Len(locos) + 1
        /\ ~resub.pending => addrMap = EcosAddr
        /\ \A b \in EcosAddr, i \in 1 .. Len(locos) :
              locos[i].addr = b => Secured(b) \/ (resub.pending /\ i >= resub.index)
    BY DEF ViewInv, Walked
  <2>3. CASE SameLocos
    BY <2>1, <2>2, <2>3 DEF SameLocos
  <2>4. CASE NewLoco(a)
    <3>1. /\ a \notin Tracked /\ Len(locos') = Len(locos) + 1
          /\ \A i \in 1 .. Len(locos) : locos'[i].addr = locos[i].addr
          /\ locos'[Len(locos) + 1].addr = a
      BY <2>4 DEF NewLoco
    <3>2. resub.pending => resub.index <= Len(locos') + 1
      BY <1>0, <1>1, <2>2, <3>1 DEF TypeOK
    <3>3. a \in EcosAddr => \/ Secured(a)'
                            \/ resub.pending /\ Len(locos) + 1 >= resub.index
      <4>1. CASE addrMap = {}
        BY <1>0, <1>1, <2>2, <4>1 DEF TypeOK
      <4>2. CASE addrMap = EcosAddr /\ a \in EcosAddr
        <5>1. CanSubscribe(a)
          BY <1>0, <4>2 DEF CanSubscribe, Quiet
        <5>2. toEcos' = toEcos \o t /\ Asked(t, a)
          BY <3>1, <5>1 DEF Written
        <5>3. Asked(toEcos', a)
          BY <1>1, <5>2, AskedAppended
        <5> QED
          BY <5>3 DEF Secured
      <4> QED
        BY <4>1, <4>2 DEF ViewInv, MapWhole
    <3>4. \A i \in 1 .. Len(locos') : i = Len(locos) + 1 \/ i \in 1 .. Len(locos)
      BY <1>1, <3>1
    <3> QED
      BY <2>1, <2>2, <3>1, <3>2, <3>3, <3>4
  <2> QED
    BY <2>3, <2>4
<1> QED
  BY <1>3, <1>4, <1>5, <1>6, <1>7, <1>8 DEF ViewInv


(* A loco that expires leaves the table once, and takes its view with it;  *)
(* the others keep theirs.                                                 *)
LEMMA ExpireViews ==
    ASSUME Promise, ViewInv, NEW i \in 1 .. Len(locos), Expire(i)
    PROVE  ViewInv'
<1>0. TypeOK
  BY DEF Promise, IInv
<1>1. PICK a : a = locos[i].addr
  OBVIOUS
<1> DEFINE t == IF CanSubscribe(a) THEN <<Cmd("release", a, NoSpeed)>> ELSE <<>>
<1>2. /\ \A k \in 1 .. Len(toEcos) : toEcos[k].addr # a
      /\ \A k \in 1 .. Len(fromEcos) : fromEcos[k].addr # a
      /\ baseline # a
      /\ locos' = Without(i)
      /\ clean' = (clean /\ ~resub.pending)
      /\ UNCHANGED <<status, socket, addrMap, resub, baseline, fromEcos, station>>
  BY <1>1 DEF Expire, conn
<1>3. toEcos' \in {toEcos, Written(t)}
  BY <1>1 DEF Expire
<1>4. t \in Seq(Commands) /\ \A j \in 1 .. Len(t) : IsRelease(t[j], a)
  <2>1. CanSubscribe(a) => <<Cmd("release", a, NoSpeed)>> \in Seq(Commands)
    BY <1>0, CommandTypes DEF CanSubscribe, TypeOK
  <2> QED
    BY <2>1 DEF IsRelease, Cmd
<1> HIDE DEF t
<1>5. toEcos' \in {toEcos, toEcos \o t} /\ toEcos \in Seq(Commands) /\ Len(locos) \in Nat
  BY <1>0, <1>3 DEF Written, TypeOK
<1>6. \A n \in 1 .. Len(toEcos') : \/ \E j \in 1 .. Len(toEcos) : toEcos'[n] = toEcos[j]
                                   \/ toEcos'[n].op = "release"
  <2>1. CASE toEcos' = toEcos
    BY <2>1
  <2>2. CASE toEcos' = toEcos \o t
    BY <1>4, <1>5, <2>2, JoinedMembers DEF IsRelease
  <2> QED
    BY <1>5, <2>1, <2>2
<1>7. /\ Len(locos') = Len(locos) - 1
      /\ \A j \in 1 .. Len(locos') :
            /\ j < i => j \in 1 .. Len(locos) /\ locos'[j] = locos[j]
            /\ ~(j < i) => j + 1 \in 1 .. Len(locos) /\ locos'[j] = locos[j + 1]
  BY <1>2, <1>5 DEF Without
<1>8. ASSUME NEW j \in 1 .. Len(locos')
      PROVE  \E k \in 1 .. Len(locos) :
                k # i /\ k = (IF j < i THEN j ELSE j + 1) /\ locos'[j].addr = locos[k].addr
  <2>1. CASE j < i
    BY <1>5, <1>7, <2>1
  <2>2. CASE ~(j < i)
    <3>1. j + 1 \in 1 .. Len(locos) /\ j + 1 # i /\ locos'[j].addr = locos[j + 1].addr
      BY <1>5, <1>7, <2>2
    <3> QED
      BY <2>2, <3>1
  <2> QED
    BY <2>1, <2>2
<1>9. \A k \in 1 .. Len(locos) : k # i =>
         \E j \in 1 .. Len(locos') : locos'[j].addr = locos[k].addr
  <2> SUFFICES ASSUME NEW k \in 1 .. Len(locos), k # i
               PROVE  \E j \in 1 .. Len(locos') : locos'[j].addr = locos[k].addr
    OBVIOUS
  <2>1. CASE k < i
    <3>1. k \in 1 .. Len(locos')
      BY <1>5, <1>7, <2>1
    <3> QED
      BY <1>7, <2>1, <3>1
  <2>2. CASE k > i
    <3>1. k - 1 \in 1 .. Len(locos') /\ ~(k - 1 < i) /\ (k - 1) + 1 = k
      BY <1>5, <1>7, <2>2
    <3> QED
      BY <1>7, <3>1
  <2> QED
    BY <1>5, <2>1, <2>2
<1>10. Distinct'
  <2> SUFFICES ASSUME NEW j \in 1 .. Len(locos'), NEW k \in 1 .. Len(locos'),
                      locos'[j].addr = locos'[k].addr
               PROVE  j = k
    BY DEF Distinct
  <2>1. PICK m \in 1 .. Len(locos) :
           m # i /\ m = (IF j < i THEN j ELSE j + 1) /\ locos'[j].addr = locos[m].addr
    BY <1>8
  <2>2. PICK n \in 1 .. Len(locos) :
           n # i /\ n = (IF k < i THEN k ELSE k + 1) /\ locos'[k].addr = locos[n].addr
    BY <1>8
  <2>3. m = n
    BY <2>1, <2>2 DEF ViewInv, Distinct
  <2> QED
    BY <1>5, <2>1, <2>2, <2>3
<1>11. Tracked' = Tracked \ {a}
  <2>1. ASSUME NEW b
        PROVE  b \in Tracked' <=> b \in Tracked /\ b # a
    <3>1. b \in Tracked' => b \in Tracked /\ b # a
      <4> SUFFICES ASSUME NEW j \in 1 .. Len(locos'), b = locos'[j].addr
                   PROVE  b \in Tracked /\ b # a
        BY DEF Tracked
      <4>1. PICK k \in 1 .. Len(locos) : k # i /\ locos'[j].addr = locos[k].addr
        BY <1>8
      <4> QED
        BY <1>1, <4>1 DEF Tracked, ViewInv, Distinct
    <3>2. (b \in Tracked /\ b # a) => b \in Tracked'
      <4> SUFFICES ASSUME NEW k \in 1 .. Len(locos), b = locos[k].addr, b # a
                   PROVE  b \in Tracked'
        BY DEF Tracked
      <4>1. \E j \in 1 .. Len(locos') : locos'[j].addr = locos[k].addr
        BY <1>1, <1>9
      <4> QED
        BY <4>1 DEF Tracked
    <3> QED
      BY <3>1, <3>2
  <2> QED
    BY <2>1
<1>12. MapWhole' /\ NothingViewed'
  BY <1>2, <1>6 DEF ViewInv, MapWhole, NothingViewed
<1>13. AboutTracked'
  <2>1. baseline' \in Tracked' \cup {NoAddr}
    BY <1>2, <1>11 DEF ViewInv, AboutTracked
  <2>2. \A n \in 1 .. Len(toEcos') : toEcos'[n].op = "get" => toEcos'[n].addr \in Tracked'
    <3> SUFFICES ASSUME NEW n \in 1 .. Len(toEcos'), toEcos'[n].op = "get"
                 PROVE  toEcos'[n].addr \in Tracked'
      OBVIOUS
    <3>1. PICK j \in 1 .. Len(toEcos) : toEcos'[n] = toEcos[j]
      BY <1>6
    <3> QED
      BY <1>2, <1>11, <3>1 DEF ViewInv, AboutTracked
  <2>3. \A n \in 1 .. Len(fromEcos') :
           fromEcos'[n].kind = "speed" => fromEcos'[n].addr \in Tracked'
    BY <1>2, <1>11 DEF ViewInv, AboutTracked
  <2> QED
    BY <2>1, <2>2, <2>3 DEF AboutTracked
<1>14. Unheard'
  <2> SUFFICES ASSUME NEW n \in 1 .. Len(toEcos'), toEcos'[n].op = "set",
                      toEcos'[n].addr \notin Tracked \ {a}
               PROVE  /\ toEcos'[n].addr \notin station.viewed
                      /\ \A j \in 1 .. Len(toEcos') : ~IsRequest(toEcos'[j], toEcos'[n].addr)
    BY <1>2, <1>11 DEF Unheard
  <2>1. PICK k \in 1 .. Len(toEcos) : toEcos'[n] = toEcos[k]
    BY <1>6
  <2>2. /\ toEcos[k].addr \notin station.viewed
        /\ \A j \in 1 .. Len(toEcos) : ~IsRequest(toEcos[j], toEcos[k].addr)
    BY <1>2, <2>1 DEF ViewInv, Unheard
  <2> QED
    BY <1>6, <2>1, <2>2 DEF IsRequest
<1>15. Walked'
  <2> SUFFICES ASSUME clean, ~resub.pending, socket = "open"
               PROVE  /\ addrMap = EcosAddr
                      /\ \A b \in EcosAddr, j \in 1 .. Len(locos') :
                            locos'[j].addr = b => Secured(b)'
    BY <1>2 DEF Walked
  <2>1. /\ addrMap = EcosAddr
        /\ \A b \in EcosAddr, j \in 1 .. Len(locos) : locos[j].addr = b => Secured(b)
    BY DEF ViewInv, Walked
  <2>2. ASSUME NEW b \in EcosAddr, NEW j \in 1 .. Len(locos'), locos'[j].addr = b
        PROVE  Secured(b)'
    <3>1. PICK k \in 1 .. Len(locos) : k # i /\ locos'[j].addr = locos[k].addr
      BY <1>8
    <3>2. b # a
      BY <1>1, <2>2, <3>1 DEF ViewInv, Distinct
    <3>3. Secured(b)
      BY <2>1, <2>2, <3>1
    <3>4. Kept(t, b)
      BY <1>4, <3>2 DEF Kept, IsRelease
    <3> QED
      BY <1>0, <1>2, <1>4, <1>5, <3>3, <3>4, SecuredStays
  <2> QED
    BY <2>1, <2>2
<1> QED
  BY <1>10, <1>12, <1>13, <1>14, <1>15 DEF ViewInv

(* A connection starts with nothing viewed and the whole table ahead.      *)
LEMMA ConnectViews ==
    ASSUME Promise, ViewInv, Connect
    PROVE  ViewInv'
<1>1. /\ socket' = "open" /\ toEcos' = Greeting /\ resub' = Restart
      /\ UNCHANGED <<addrMap, baseline, locos, fromEcos, station>>
      /\ status # "CONNECTED"
  BY DEF Connect, MayConnect
<1>2. socket = "closed" /\ addrMap = {}
  BY <1>1 DEF Promise, Quiet, IInv, NoStaleMap
<1>3. \A i \in 1 .. Len(Greeting) : Greeting[i].op \in {"query", "watch", "status"}
  BY DEF Greeting, System, Cmd
<1>4. Tracked' = Tracked /\ Distinct' /\ MapWhole'
  BY <1>1 DEF Tracked, ViewInv, Distinct, MapWhole
<1>5. NothingViewed'
  BY <1>1, <1>2, <1>3 DEF ViewInv, NothingViewed
<1>6. AboutTracked' /\ Unheard'
  BY <1>1, <1>3, <1>4 DEF ViewInv, AboutTracked, Unheard
<1>7. Walked'
  <2>1. Len(locos) \in Nat
    BY DEF Promise, IInv, TypeOK
  <2> QED
    BY <1>1, <2>1 DEF Walked, Restart
<1> QED
  BY <1>4, <1>5, <1>6, <1>7 DEF ViewInv

(* With the connection everything viewed and on its way is gone.           *)
LEMMA SessionEndsViews ==
    ASSUME Promise, ViewInv, SessionEnds, station'.viewed = {}, UNCHANGED locos,
           addrMap' \in {addrMap, {}}, baseline' \in {baseline, NoAddr}
    PROVE  ViewInv'
<1>1. socket' = "closed" /\ toEcos' = <<>> /\ fromEcos' = <<>>
  BY DEF SessionEnds
<1>2. Tracked' = Tracked /\ Distinct' /\ MapWhole'
  BY DEF Tracked, ViewInv, Distinct, MapWhole
<1>3. NothingViewed' /\ AboutTracked' /\ Unheard' /\ Walked'
  BY <1>1, <1>2 DEF ViewInv, NothingViewed, AboutTracked, Unheard, Walked
<1> QED
  BY <1>2, <1>3 DEF ViewInv

(* ECoS views what it is asked to and reports only what it views.          *)
LEMMA StationStepViews ==
    ASSUME Promise, ViewInv, StationStep
    PROVE  ViewInv'
<1>0. TypeOK /\ Quiet
  BY DEF Promise, IInv
<1>1. PICK c \in Commands : c = Head(toEcos)
  BY <1>0 DEF StationStep, TypeOK
<1>2. /\ toEcos # <<>> /\ toEcos' = Tail(toEcos) /\ station' = Processed(c)
      /\ fromEcos' = fromEcos \o Answers(c)
      /\ UNCHANGED <<socket, addrMap, resub, baseline, locos, clean>>
  BY <1>1 DEF StationStep, conn, hist
<1>3. /\ toEcos \in Seq(Commands) /\ fromEcos \in Seq(Messages)
      /\ \E j \in 1 .. Len(toEcos) : toEcos[j] = c
  <2>1. 1 \in 1 .. Len(toEcos) /\ toEcos[1] = Head(toEcos)
    BY <1>0, <1>2 DEF TypeOK
  <2> QED
    BY <1>0, <1>1, <2>1 DEF TypeOK
<1>4. /\ \A i \in 1 .. Len(toEcos') : \E j \in 1 .. Len(toEcos) : toEcos'[i] = toEcos[j]
      /\ \A a : /\ Kept(toEcos, a) => Kept(toEcos', a) /\ ~IsRelease(c, a)
                /\ Asked(toEcos, a) => \/ Asked(toEcos', a)
                                       \/ IsRequest(c, a) /\ Kept(toEcos', a)
  BY <1>1, <1>2, <1>3, AskedTail
<1>5. station'.viewed = IF c.op = "request" THEN station.viewed \cup {c.addr}
                        ELSE IF c.op = "release" THEN station.viewed \ {c.addr}
                        ELSE station.viewed
  BY <1>2 DEF Processed
<1>6. Tracked' = Tracked /\ Distinct' /\ MapWhole'
  BY <1>2 DEF Tracked, ViewInv, Distinct, MapWhole
<1>7. NothingViewed'
  BY <1>2, <1>3, <1>4, <1>5 DEF ViewInv, NothingViewed
<1>8. AboutTracked'
  <2>1. baseline' \in Tracked' \cup {NoAddr}
    BY <1>2, <1>6 DEF ViewInv, AboutTracked
  <2>2. \A i \in 1 .. Len(toEcos') : toEcos'[i].op = "get" => toEcos'[i].addr \in Tracked'
    BY <1>4, <1>6 DEF ViewInv, AboutTracked
  <2>3. \A i \in 1 .. Len(Answers(c)) :
           Answers(c)[i].kind = "speed" => Answers(c)[i].addr \in Tracked
    <3>1. /\ \A go \in BOOLEAN : RunMsg(go).kind # "speed"
          /\ Msg("map", NoAddr, NoSpeed).kind # "speed"
          /\ \A a, v : Msg("speed", a, v).addr = a
      BY DEF RunMsg, Msg
    <3>2. station.go \in BOOLEAN
      BY <1>0 DEF TypeOK, Stations
    <3>3. CASE c.op = "query"
      <4>1. Answers(c) = <<Msg("map", NoAddr, NoSpeed)>>
        BY <3>3 DEF Answers
      <4> QED
        BY <3>1, <4>1
    <3>4. CASE c.op = "status"
      <4>1. Answers(c) = <<RunMsg(station.go)>>
        BY <3>4 DEF Answers
      <4> QED
        BY <3>1, <3>2, <4>1
    <3>5. CASE c.op = "get"
      <4>1. PICK v : Answers(c) = <<Msg("speed", c.addr, v)>>
        BY <3>5 DEF Answers
      <4>2. c.addr \in Tracked
        BY <1>3, <3>5 DEF ViewInv, AboutTracked
      <4> QED
        BY <3>1, <4>1, <4>2
    <3>6. CASE c.op = "set" /\ c.addr \in station.viewed
      <4>1. Answers(c) = <<Msg("speed", c.addr, c.val)>>
        BY <3>6 DEF Answers
      <4>2. c.addr \in Tracked
        BY <1>3, <3>6 DEF ViewInv, Unheard
      <4> QED
        BY <3>1, <4>1, <4>2
    <3>7. CASE c.op = "set" /\ c.addr \notin station.viewed
      <4>1. Answers(c) = <<>>
        BY <3>7 DEF Answers
      <4> QED
        BY <4>1
    <3>8. CASE c.op \in {"stop", "go"}
      <4>1. PICK go \in BOOLEAN : go = (c.op = "go")
        OBVIOUS
      <4>2. Answers(c) = <<>> \/ Answers(c) = <<RunMsg(go)>>
        BY <3>8, <4>1 DEF Answers
      <4> QED
        BY <3>1, <4>2
    <3>9. CASE c.op \in {"watch", "request", "release"}
      <4>1. Answers(c) = <<>>
        BY <3>9 DEF Answers
      <4> QED
        BY <4>1
    <3> QED
      BY <3>3, <3>4, <3>5, <3>6, <3>7, <3>8, <3>9 DEF Commands
  <2>4. \A i \in 1 .. Len(fromEcos') :
           fromEcos'[i].kind = "speed" => fromEcos'[i].addr \in Tracked'
    <3> SUFFICES ASSUME NEW i \in 1 .. Len(fromEcos'), fromEcos'[i].kind = "speed"
                 PROVE  fromEcos'[i].addr \in Tracked
      BY <1>6
    <3> DEFINE t == Answers(c)
    <3>1. t \in Seq(Messages)
      BY <1>0, AnswersType
    <3>2. \A j \in 1 .. Len(t) : t[j].kind = "speed" => t[j].addr \in Tracked
      BY <2>3
    <3>3. fromEcos' = fromEcos \o t
      BY <1>2
    <3> HIDE DEF t
    <3>4. CASE i <= Len(fromEcos)
      <4>1. i \in 1 .. Len(fromEcos) /\ fromEcos'[i] = fromEcos[i]
        BY <1>3, <3>1, <3>3, <3>4
      <4> QED
        BY <4>1 DEF ViewInv, AboutTracked
    <3>5. CASE ~(i <= Len(fromEcos))
      <4>1. i - Len(fromEcos) \in 1 .. Len(t) /\ fromEcos'[i] = t[i - Len(fromEcos)]
        BY <1>3, <3>1, <3>3, <3>5
      <4> QED
        BY <3>2, <4>1
    <3> QED
      BY <3>4, <3>5
  <2> QED
    BY <2>1, <2>2, <2>4 DEF AboutTracked
<1>9. Unheard'
  <2> SUFFICES ASSUME NEW i \in 1 .. Len(toEcos'), toEcos'[i].op = "set",
                      toEcos'[i].addr \notin Tracked
               PROVE  /\ toEcos'[i].addr \notin station'.viewed
                      /\ \A j \in 1 .. Len(toEcos') : ~IsRequest(toEcos'[j], toEcos'[i].addr)
    BY <1>6 DEF Unheard
  <2>1. PICK k \in 1 .. Len(toEcos) : toEcos'[i] = toEcos[k]
    BY <1>4
  <2>2. /\ toEcos[k].addr \notin station.viewed
        /\ \A j \in 1 .. Len(toEcos) : ~IsRequest(toEcos[j], toEcos[k].addr)
    BY <2>1 DEF ViewInv, Unheard
  <2>3. ~IsRequest(c, toEcos[k].addr)
    BY <1>3, <2>2
  <2>4. toEcos'[i].addr \notin station'.viewed
    BY <1>5, <2>1, <2>2, <2>3 DEF IsRequest
  <2> QED
    BY <1>4, <2>1, <2>2, <2>4
<1>10. Walked'
  <2>1. ASSUME NEW a, Secured(a)
        PROVE  Secured(a)'
    <3>1. CASE Asked(toEcos, a)
      BY <1>4, <1>5, <3>1 DEF Secured, IsRequest
    <3>2. CASE a \in station.viewed /\ Kept(toEcos, a)
      BY <1>4, <1>5, <3>2 DEF Secured, IsRelease
    <3> QED
      BY <2>1, <3>1, <3>2 DEF Secured
  <2> QED
    BY <1>2, <2>1 DEF ViewInv, Walked
<1> QED
  BY <1>6, <1>7, <1>8, <1>9, <1>10 DEF ViewInv


(* Reading adds no loco to the table and nothing to what is to be read.    *)
LEMMA ReadViews ==
    ASSUME TypeOK, ViewInv,
           (fromEcos # <<>> /\ ReadReply(Head(fromEcos))) \/ ReadNothing
    PROVE  /\ SameLocos
           /\ addrMap' \in {addrMap, EcosAddr}
           /\ \A i \in 1 .. Len(fromEcos') : \E j \in 1 .. Len(fromEcos) :
                 fromEcos'[i] = fromEcos[j]
<1>1. fromEcos \in Seq(Messages) /\ Len(locos) \in Nat
  BY DEF TypeOK
<1>2. CASE ReadNothing
  BY <1>2 DEF ReadNothing, SameLocos
<1>3. CASE fromEcos # <<>> /\ ReadReply(Head(fromEcos))
  <2>1. PICK m \in Messages : m = Head(fromEcos)
    BY <1>1, <1>3
  <2>2. ReadReply(m) /\ fromEcos # <<>>
    BY <1>3, <2>1
  <2>3. /\ 1 \in 1 .. Len(fromEcos) /\ fromEcos[1] = m
        /\ \A i \in 1 .. Len(Tail(fromEcos)) :
              i + 1 \in 1 .. Len(fromEcos) /\ Tail(fromEcos)[i] = fromEcos[i + 1]
    BY <1>1, <2>1, <2>2
  <2>4. \A i \in 1 .. Len(fromEcos') : \E j \in 1 .. Len(fromEcos) :
           fromEcos'[i] = fromEcos[j]
    BY <2>2, <2>3 DEF ReadReply
  <2>5. addrMap' \in {addrMap, EcosAddr}
    BY <2>2 DEF ReadReply, ViewInv, MapWhole
  <2>6. SameLocos
    <3>1. CASE m.kind = "stop"
      BY <2>2, <3>1, StoppedWhere DEF ReadReply
    <3>2. CASE m.kind = "speed" /\ m.addr \in addrMap /\ CanStore(m.addr)
      <4>1. m.addr \in Tracked
        BY <2>3, <3>2 DEF ViewInv, AboutTracked
      <4>2. m.addr \in Addr
        BY <4>1, TrackedType
      <4>3. locos' = Stored(m.addr, m.val)
        BY <2>2, <3>2 DEF ReadReply
      <4> QED
        BY <4>1, <4>2, <4>3, StoredWhere
    <3>3. CASE m.kind # "stop" /\ ~(m.kind = "speed" /\ m.addr \in addrMap
                                                     /\ CanStore(m.addr))
      BY <2>2, <3>3 DEF ReadReply, SameLocos
    <3> QED
      BY <3>1, <3>2, <3>3
  <2> QED
    BY <2>4, <2>5, <2>6
<1> QED
  BY <1>2, <1>3

(* A flush writes only speeds that waited for a loco of the map.           *)
LEMMA FlushContents ==
    ASSUME TypeOK, NEW M \in SUBSET EcosAddr
    PROVE  \A i \in 1 .. Len(FlushSets(M)) :
              /\ FlushSets(M)[i].op = "set"
              /\ FlushSets(M)[i].addr \in Flushable(M)
<1> DEFINE S == Flushable(M)
           order == SetToSeq(S)
           sets == FlushSets(M)
<1>1. IsFiniteSet(S)
  <2>1. S \in SUBSET Addr
    BY LinkAssumption DEF Flushable
  <2> QED
    BY <2>1, LinkAssumption, FS_Subset
<1>2. order \in Seq(S)
  BY <1>1, SetToSeqElements
<1>3. sets = [i \in DOMAIN order |-> Cmd("set", order[i], pending[order[i]])]
  BY DEF FlushSets
<1> HIDE DEF order, S, sets
<1>4. /\ Len(order) \in Nat /\ DOMAIN order = 1 .. Len(order)
      /\ \A i \in 1 .. Len(order) : order[i] \in S
  BY <1>2
<1>5. /\ Len(sets) = Len(order)
      /\ \A i \in 1 .. Len(order) : sets[i] = Cmd("set", order[i], pending[order[i]])
  BY <1>3, <1>4
<1>6. \A i \in 1 .. Len(sets) : sets[i].op = "set" /\ sets[i].addr \in S
  <2> SUFFICES ASSUME NEW i \in 1 .. Len(sets)
               PROVE  sets[i].op = "set" /\ sets[i].addr \in S
    OBVIOUS
  <2>1. sets[i] = [op |-> "set", addr |-> order[i], val |-> pending[order[i]]]
    BY <1>5 DEF Cmd
  <2> QED
    BY <1>4, <1>5, <2>1
<1> QED
  BY <1>6 DEF S, sets

(* Writing twice is writing both at once. *)
LEMMA WrittenTwice ==
    ASSUME NEW q \in Seq(Commands), NEW x \in Seq(Commands), NEW y \in Seq(Commands)
    PROVE  (q \o x) \o y = q \o (x \o y)
  OBVIOUS

(* A pass asks for the baseline, and for the view of the next loco of the  *)
(* table; what it flushes for a loco no longer there, nobody views.        *)
LEMMA PassViews ==
    ASSUME Promise, ViewInv, Pass
    PROVE  ViewInv'
<1>0. TypeOK
  BY DEF Promise, IInv
<1>1. /\ SameLocos /\ addrMap' \in {addrMap, EcosAddr}
      /\ \A i \in 1 .. Len(fromEcos') : \E j \in 1 .. Len(fromEcos) :
            fromEcos'[i] = fromEcos[j]
  BY <1>0, ReadViews DEF Pass
<1>2. addrMap' \in SUBSET EcosAddr /\ locos' \in Seq(Entry) /\ Len(locos) \in Nat
  BY <1>0, ReadType DEF Pass, TypeOK
<1>3. /\ socket = "open" /\ UNCHANGED <<socket, station, clean>>
      /\ resub' = [pending |-> resub.pending /\ ~ResubDone,
                   index |-> IF ResubKnown THEN resub.index + 1 ELSE resub.index]
      /\ baseline' = IF ResubKnown THEN locos'[resub.index].addr ELSE NoAddr
  BY DEF Pass, PacedWork
<1>4. PICK next : next = locos'[resub.index].addr
  OBVIOUS
<1>5. ResubKnown => /\ next \in addrMap' /\ next \in EcosAddr /\ next \in Tracked
                    /\ resub.index \in 1 .. Len(locos) /\ addrMap' # {}
                    /\ resub.pending /\ locos[resub.index].addr = next
  BY <1>0, <1>1, <1>2, <1>4 DEF ResubKnown, ResubTurn, SameLocos, Tracked, TypeOK
<1> DEFINE sets == FlushSets(addrMap')
           ask == IF baseline = NoAddr THEN <<>> ELSE <<Cmd("get", baseline, NoSpeed)>>
           again == IF ResubKnown THEN <<Cmd("request", next, NoSpeed)>> ELSE <<>>
           t == sets \o (ask \o again)
<1>6. /\ sets \in Seq(Commands)
      /\ \A i \in 1 .. Len(sets) : sets[i].op = "set" /\ sets[i].addr \in Flushable(addrMap')
  BY <1>0, <1>2, FlushSetsType, FlushContents
<1>7. /\ ask \in Seq(Commands)
      /\ \A i \in 1 .. Len(ask) : ask[i].op = "get" /\ ask[i].addr \in Tracked
  <2>1. CASE baseline = NoAddr
    BY <2>1
  <2>2. CASE baseline # NoAddr
    <3>1. baseline \in EcosAddr /\ baseline \in Tracked
      BY <1>0, <2>2 DEF TypeOK, ViewInv, AboutTracked
    <3>2. <<Cmd("get", baseline, NoSpeed)>> \in Seq(Commands)
      BY <3>1, CommandTypes
    <3> QED
      BY <2>2, <3>1, <3>2 DEF Cmd
  <2> QED
    BY <2>1, <2>2
<1>8. /\ again \in Seq(Commands)
      /\ \A i \in 1 .. Len(again) : ResubKnown /\ IsRequest(again[i], next)
      /\ ResubKnown => Asked(again, next)
  <2>1. CASE ~ResubKnown
    BY <2>1
  <2>2. CASE ResubKnown
    <3>1. <<Cmd("request", next, NoSpeed)>> \in Seq(Commands)
      BY <1>5, <2>2, CommandTypes
    <3>2. \A i \in 1 .. Len(again) : IsRequest(again[i], next)
      BY <2>2 DEF IsRequest, Cmd
    <3>3. Asked(<<Cmd("request", next, NoSpeed)>>, next)
      BY DEF Asked, IsRequest, IsRelease, Cmd
    <3> QED
      BY <2>2, <3>1, <3>2, <3>3
  <2> QED
    BY <2>1, <2>2
<1>9. toEcos' = toEcos \o (sets \o ask \o again)
  BY <1>4 DEF Pass, PacedWork, Written
<1> HIDE DEF sets, ask, again
<1>10. ask \o again \in Seq(Commands)
  BY <1>7, <1>8
<1>11. sets \o ask \o again = t /\ t \in Seq(Commands) /\ toEcos \in Seq(Commands)
  <2>1. (sets \o ask) \o again = sets \o (ask \o again)
    BY <1>6, <1>7, <1>8, WrittenTwice
  <2> QED
    BY <1>0, <1>6, <1>10, <2>1 DEF TypeOK
<1>12. \A i \in 1 .. Len(t) :
          \/ t[i].op = "set" /\ t[i].addr \in Flushable(addrMap')
          \/ t[i].op = "get" /\ t[i].addr \in Tracked
          \/ ResubKnown /\ IsRequest(t[i], next)
  <2> DEFINE rest == ask \o again
  <2>1. \A i \in 1 .. Len(rest) : \/ rest[i].op = "get" /\ rest[i].addr \in Tracked
                                  \/ ResubKnown /\ IsRequest(rest[i], next)
    BY <1>7, <1>8, JoinedMembers
  <2>2. t = sets \o rest /\ rest \in Seq(Commands)
    BY <1>10
  <2> HIDE DEF rest, t
  <2>3. \A i \in 1 .. Len(sets \o rest) :
           \/ \E j \in 1 .. Len(sets) : (sets \o rest)[i] = sets[j]
           \/ \E j \in 1 .. Len(rest) : (sets \o rest)[i] = rest[j]
    BY <1>6, <2>2, JoinedMembers
  <2> QED
    BY <1>6, <2>1, <2>2, <2>3
<1>13. ResubKnown => Asked(t, next)
  BY <1>6, <1>7, <1>8, <1>10, AskedAppended
<1>14. toEcos' = toEcos \o t
  BY <1>9, <1>11
<1> HIDE DEF t
<1>15. \A i \in 1 .. Len(toEcos') :
          \/ \E j \in 1 .. Len(toEcos) : toEcos'[i] = toEcos[j]
          \/ toEcos'[i].op = "set" /\ toEcos'[i].addr \in Flushable(addrMap')
          \/ toEcos'[i].op = "get" /\ toEcos'[i].addr \in Tracked
          \/ ResubKnown /\ IsRequest(toEcos'[i], next)
  BY SMTT(30), <1>11, <1>12, <1>14, JoinedMembers
<1>16. Tracked' = Tracked /\ Distinct'
  BY <1>0, <1>1, TrackedThen DEF ViewInv
<1>17. MapWhole'
  BY <1>1 DEF ViewInv, MapWhole
<1>18. NothingViewed'
  <2> SUFFICES ASSUME addrMap' = {}
               PROVE  /\ station.viewed = {}
                      /\ \A i \in 1 .. Len(toEcos') : toEcos'[i].op # "request"
    BY <1>3 DEF NothingViewed
  <2>1. addrMap = {}
    BY <1>0, <1>1 DEF TypeOK
  <2>2. ~ResubKnown
    BY <1>5
  <2> QED
    BY <1>15, <2>1, <2>2 DEF ViewInv, NothingViewed
<1>19. AboutTracked'
  <2>1. baseline' \in Tracked' \cup {NoAddr}
    BY <1>3, <1>4, <1>5, <1>16
  <2>2. \A i \in 1 .. Len(toEcos') : toEcos'[i].op = "get" => toEcos'[i].addr \in Tracked'
    BY <1>15, <1>16 DEF ViewInv, AboutTracked, IsRequest
  <2>3. \A i \in 1 .. Len(fromEcos') :
           fromEcos'[i].kind = "speed" => fromEcos'[i].addr \in Tracked'
    BY <1>1, <1>16 DEF ViewInv, AboutTracked
  <2> QED
    BY <2>1, <2>2, <2>3 DEF AboutTracked
<1>20. Unheard'
  <2> SUFFICES ASSUME NEW i \in 1 .. Len(toEcos'), toEcos'[i].op = "set",
                      toEcos'[i].addr \notin Tracked
               PROVE  /\ toEcos'[i].addr \notin station.viewed
                      /\ \A j \in 1 .. Len(toEcos') : ~IsRequest(toEcos'[j], toEcos'[i].addr)
    BY <1>3, <1>16 DEF Unheard
  <2>1. /\ toEcos'[i].addr \notin station.viewed
        /\ \A j \in 1 .. Len(toEcos) : ~IsRequest(toEcos[j], toEcos'[i].addr)
    <3>1. CASE \E j \in 1 .. Len(toEcos) : toEcos'[i] = toEcos[j]
      <4>1. PICK k \in 1 .. Len(toEcos) : toEcos'[i] = toEcos[k]
        BY <3>1
      <4> QED
        BY <4>1 DEF ViewInv, Unheard
    <3>2. CASE toEcos'[i].addr \in Flushable(addrMap')
      <4>1. addrMap = {}
        BY <1>1, <3>2 DEF Flushable, Promise, IInv, NothingOvertakesQueue, ViewInv, MapWhole
      <4> QED
        BY <4>1 DEF ViewInv, NothingViewed, IsRequest
    <3> QED
      BY <1>15, <3>1, <3>2 DEF IsRequest
  <2>2. ResubKnown => next # toEcos'[i].addr
    BY <1>5
  <2> QED
    BY <1>15, <2>1, <2>2 DEF IsRequest
<1>21. Walked'
  <2> SUFFICES ASSUME clean
               PROVE  /\ resub'.pending => resub'.index <= Len(locos') + 1
                      /\ ~resub'.pending => addrMap' = EcosAddr
                      /\ \A b \in EcosAddr, i \in 1 .. Len(locos') :
                            locos'[i].addr = b =>
                               Secured(b)' \/ (resub'.pending /\ i >= resub'.index)
    BY <1>3 DEF Walked
  <2>1. ASSUME NEW b, Secured(b)
        PROVE  Secured(b)'
    <3>1. Kept(t, b)
      BY <1>12 DEF Kept, IsRelease, IsRequest
    <3> QED
      BY <1>0, <1>3, <1>11, <1>14, <2>1, <3>1, SecuredStays
  <2>2. ResubKnown => Secured(next)'
    <3>1. ResubKnown => Asked(toEcos', next)
      BY <1>11, <1>13, <1>14, AskedAppended
    <3> QED
      BY <3>1 DEF Secured
  <2>3. /\ resub.pending => resub.index <= Len(locos) + 1
        /\ ~resub.pending => addrMap = EcosAddr
        /\ \A b \in EcosAddr, i \in 1 .. Len(locos) :
              locos[i].addr = b => Secured(b) \/ (resub.pending /\ i >= resub.index)
    BY <1>3 DEF ViewInv, Walked
  <2>4. /\ Len(locos') = Len(locos)
        /\ \A i \in 1 .. Len(locos) : locos'[i].addr = locos[i].addr
        /\ resub.index \in Nat /\ resub.pending \in BOOLEAN
    BY <1>0, <1>1 DEF SameLocos, TypeOK
  <2>5. CASE ResubKnown
    <3>1. resub'.pending /\ resub'.index = resub.index + 1
      BY <1>3, <1>5, <2>4, <2>5 DEF ResubDone
    <3>2. ASSUME NEW b \in EcosAddr, NEW i \in 1 .. Len(locos), locos[i].addr = b
          PROVE  Secured(b)' \/ i >= resub.index + 1
      <4>1. CASE i = resub.index
        BY <1>5, <2>2, <2>5, <3>2, <4>1
      <4>2. CASE i # resub.index
        BY <2>1, <2>3, <2>4, <3>2, <4>2
      <4> QED
        BY <4>1, <4>2
    <3> QED
      BY <1>2, <1>5, <2>4, <2>5, <3>1, <3>2
  <2>6. CASE ResubDone
    <3>1. ~resub'.pending /\ addrMap' # {} /\ resub.pending /\ resub.index > Len(locos)
      BY <1>3, <2>4, <2>6 DEF ResubDone
    <3>2. addrMap' = EcosAddr
      BY <1>17, <3>1 DEF MapWhole
    <3>3. \A b \in EcosAddr, i \in 1 .. Len(locos) : locos[i].addr = b => Secured(b)'
      BY <1>2, <2>1, <2>3, <2>4, <3>1
    <3> QED
      BY <2>4, <3>1, <3>2, <3>3
  <2>7. CASE ~ResubKnown /\ ~ResubDone
    <3>1. resub'.pending = resub.pending /\ resub'.index = resub.index
      BY <1>3, <2>4, <2>7
    <3> QED
      BY <1>1, <2>1, <2>3, <2>4, <3>1
  <2> QED
    BY <2>5, <2>6, <2>7
<1> QED
  BY <1>16, <1>17, <1>18, <1>19, <1>20, <1>21 DEF ViewInv

(* Every step keeps table, wire and views together. *)
LEMMA NextViews == Promise /\ ViewInv /\ [Next]_vars => ViewInv'
<1> SUFFICES ASSUME Promise, ViewInv, [Next]_vars
             PROVE  ViewInv'
  OBVIOUS
<1>0. TypeOK
  BY DEF Promise, IInv
<1>1. ASSUME NEW a \in Addr, NEW v \in Speeds, ThrottleDrive(a, v)
      PROVE  ViewInv'
  <2>1. (a \in Tracked /\ SameLocos) \/ NewLoco(a)
    BY <1>0, <1>1, StoredWhere DEF ThrottleDrive
  <2>2. /\ baseline' \in {baseline, a}
        /\ UNCHANGED <<socket, addrMap, resub, fromEcos, station, clean>>
    BY <1>1 DEF ThrottleDrive, Subscribe
  <2>3. CASE a \in addrMap
    <3> DEFINE sub == Subscription(a)
               set == <<Cmd("set", a, v)>>
               t == sub \o set
    <3>1. set \in Seq(Commands) /\ set[1].op = "set" /\ set[1].addr = a /\ Len(set) = 1
      BY <1>0, <2>3, CommandTypes DEF TypeOK, Cmd
    <3>2. /\ sub \in Seq(Commands)
          /\ \A i \in 1 .. Len(sub) : IsRequest(sub[i], a) /\ CanSubscribe(a)
          /\ (a \notin Tracked /\ CanSubscribe(a)) => Asked(sub, a)
      BY <1>0, SubscriptionType DEF Subscription, IsRequest, IsRelease, Asked, Cmd
    <3>3. toEcos' = Written(t)
      BY <1>1, <2>3 DEF ThrottleDrive
    <3> HIDE DEF sub, set
    <3>4. /\ t \in Seq(Commands)
          /\ \A i \in 1 .. Len(t) : /\ t[i].op \in {"request", "set"} /\ t[i].addr = a
                                    /\ t[i].op = "request" => CanSubscribe(a)
      <4>1. \A i \in 1 .. Len(t) : \/ \E j \in 1 .. Len(sub) : t[i] = sub[j]
                                   \/ \E j \in 1 .. Len(set) : t[i] = set[j]
        BY <3>1, <3>2, JoinedMembers
      <4>2. \A j \in 1 .. Len(set) : set[j].op = "set" /\ set[j].addr = a
        BY <3>1
      <4>3. t \in Seq(Commands)
        BY <3>1, <3>2
      <4> HIDE DEF t
      <4> QED
        BY <3>2, <4>1, <4>2, <4>3 DEF IsRequest
    <3>5. (a \notin Tracked /\ CanSubscribe(a)) => Asked(t, a)
      <4>1. Kept(set, a)
        BY <3>1 DEF Kept, IsRelease
      <4> QED
        BY <3>1, <3>2, <4>1, AskedStays
    <3> HIDE DEF t
    <3> QED
      BY <2>1, <2>2, <3>3, <3>4, <3>5, ThrottleViews
  <2>4. CASE a \notin addrMap
    <3>1. toEcos' = toEcos /\ ~CanSubscribe(a)
      BY <1>1, <2>4 DEF ThrottleDrive, CanSubscribe
    <3> DEFINE t == <<>>
    <3>2. toEcos' = Written(t) /\ t \in Seq(Commands) /\ \A i \in 1 .. Len(t) : FALSE
      BY <1>0, <3>1 DEF Written, TypeOK
    <3> HIDE DEF t
    <3>3. \A i \in 1 .. Len(t) : /\ t[i].op \in {"request", "set"} /\ t[i].addr = a
                                 /\ t[i].op = "request" => CanSubscribe(a)
      BY <3>2
    <3> QED
      BY <2>1, <2>2, <3>1, <3>2, <3>3, ThrottleViews
  <2> QED
    BY <2>3, <2>4
<1>2. ASSUME NEW a \in Addr, ThrottleSelect(a)
      PROVE  ViewInv'
  <2>1. (a \in Tracked /\ SameLocos) \/ NewLoco(a)
    BY <1>0, <1>2, StoredWhere DEF ThrottleSelect
  <2>2. /\ baseline' \in {baseline, a} /\ toEcos' = Written(Subscription(a))
        /\ UNCHANGED <<socket, addrMap, resub, fromEcos, station, clean>>
    BY <1>2 DEF ThrottleSelect, Subscribe, hist
  <2> DEFINE sub == Subscription(a)
  <2>3. /\ sub \in Seq(Commands)
        /\ \A i \in 1 .. Len(sub) : /\ sub[i].op \in {"request", "set"} /\ sub[i].addr = a
                                    /\ sub[i].op = "request" => CanSubscribe(a)
        /\ (a \notin Tracked /\ CanSubscribe(a)) => Asked(sub, a)
    BY <1>0, SubscriptionType DEF Subscription, IsRequest, IsRelease, Asked, Cmd
  <2> HIDE DEF sub
  <2>4. toEcos' = Written(sub)
    BY <2>2 DEF sub
  <2> QED
    BY <2>1, <2>2, <2>3, <2>4, ThrottleViews
<1>3. CASE ThrottleStop \/ ThrottleGo
  <2>1. PICK t \in Seq(Commands) : /\ \A i \in 1 .. Len(t) : t[i].op \in {"stop", "go"}
                                   /\ toEcos' \in {toEcos, Written(t)}
    <3> DEFINE s == <<System("stop")>>
               g == <<System("go")>>
    <3>1. /\ s \in Seq(Commands) /\ \A i \in 1 .. Len(s) : s[i].op \in {"stop", "go"}
          /\ g \in Seq(Commands) /\ \A i \in 1 .. Len(g) : g[i].op \in {"stop", "go"}
      BY CommandTypes DEF System, Cmd
    <3>2. CASE ThrottleStop
      <4>1. toEcos' \in {toEcos, Written(s)}
        BY <3>2 DEF ThrottleStop
      <4> HIDE DEF s
      <4> QED
        BY <3>1, <4>1
    <3>3. CASE ThrottleGo
      <4>1. toEcos' \in {toEcos, Written(g)}
        BY <3>3 DEF ThrottleGo
      <4> HIDE DEF g
      <4> QED
        BY <3>1, <4>1
    <3> QED
      BY <1>3, <3>2, <3>3
  <2>2. SameLocos
    <3>1. CASE ThrottleStop
      BY <1>0, <3>1, StoppedWhere DEF ThrottleStop
    <3>2. CASE ThrottleGo
      BY <3>2 DEF ThrottleGo, SameLocos
    <3> QED
      BY <1>3, <3>1, <3>2
  <2>3. UNCHANGED <<socket, addrMap, baseline, fromEcos, station, clean, resub>>
    BY <1>3 DEF ThrottleStop, ThrottleGo, conn, hist
  <2> QED
    BY <1>0, <2>1, <2>2, <2>3, ViewsUntouched
<1>4. ASSUME NEW i \in 1 .. Len(locos), Expire(i)
      PROVE  ViewInv'
  BY <1>4, ExpireViews
<1>5. CASE Connect
  BY <1>5, ConnectViews
<1>6. CASE LoseConnection \/ StationCloses
  <2>1. /\ SessionEnds /\ UNCHANGED locos
        /\ addrMap' \in {addrMap, {}} /\ baseline' \in {baseline, NoAddr}
    BY <1>6 DEF LoseConnection, StationCloses, MapAfterLoss
  <2>2. station'.viewed = {}
    <3>1. station \in Stations
      BY <1>0 DEF TypeOK
    <3>2. CASE LoseConnection
      BY <3>1, <3>2 DEF LoseConnection, Stations
    <3>3. CASE StationCloses
      BY <3>1, <3>3 DEF StationCloses, Stations
    <3> QED
      BY <1>6, <3>2, <3>3
  <2> QED
    BY <2>1, <2>2, SessionEndsViews
<1>7. CASE Pass
  BY <1>7, PassViews
<1>8. CASE StationStep
  BY <1>8, StationStepViews
<1>9. ASSUME NEW go \in BOOLEAN, OperatorRuns(go)
      PROVE  ViewInv'
  <2>1. /\ UNCHANGED <<socket, addrMap, baseline, locos, toEcos, clean, resub>>
        /\ fromEcos' = IF station.watched THEN Append(fromEcos, RunMsg(go)) ELSE fromEcos
        /\ station' = [station EXCEPT !.go = go]
    BY <1>9 DEF OperatorRuns, conn, hist
  <2>2. station'.viewed = station.viewed
    BY <1>0, <2>1 DEF TypeOK, Stations
  <2>3. RunMsg(go) \in Messages /\ RunMsg(go).kind # "speed" /\ fromEcos \in Seq(Messages)
    BY <1>0 DEF RunMsg, Msg, Messages, TypeOK
  <2>4. \A i \in 1 .. Len(fromEcos') : fromEcos'[i].kind = "speed" =>
           \E j \in 1 .. Len(fromEcos) : fromEcos'[i] = fromEcos[j]
    <3> SUFFICES ASSUME NEW i \in 1 .. Len(fromEcos'), fromEcos'[i].kind = "speed"
                 PROVE  \E j \in 1 .. Len(fromEcos) : fromEcos'[i] = fromEcos[j]
      OBVIOUS
    <3>1. CASE fromEcos' = fromEcos
      BY <3>1
    <3>2. CASE fromEcos' = Append(fromEcos, RunMsg(go))
      <4>1. /\ Len(fromEcos') = Len(fromEcos) + 1 /\ Len(fromEcos) \in Nat
            /\ fromEcos'[Len(fromEcos) + 1] = RunMsg(go)
            /\ \A j \in 1 .. Len(fromEcos) : fromEcos'[j] = fromEcos[j]
        BY <2>3, <3>2
      <4>2. i \in 1 .. Len(fromEcos)
        BY <2>3, <4>1
      <4> QED
        BY <4>1, <4>2
    <3> QED
      BY <2>1, <3>1, <3>2
  <2>5. SameLocos
    BY <2>1 DEF SameLocos
  <2>6. <<>> \in Seq(Commands) /\ \A i \in 1 .. Len(<<>>) : <<>>[i].op \in {"stop", "go"}
    OBVIOUS
  <2> QED
    BY <1>0, <2>1, <2>2, <2>4, <2>5, <2>6, ViewsUntouched
<1>10. CASE ConnectFails \/ AwaitWifi \/ Deadline \/ NetworkChanges \/ UNCHANGED vars
  <2>1. /\ UNCHANGED <<socket, addrMap, baseline, locos, toEcos, fromEcos, station>>
        /\ clean' => clean /\ resub' = resub
    BY <1>10 DEF ConnectFails, AwaitWifi, Deadline, NetworkChanges, vars, conn, hist
  <2>2. SameLocos
    BY <2>1 DEF SameLocos
  <2>3. <<>> \in Seq(Commands) /\ \A i \in 1 .. Len(<<>>) : <<>>[i].op \in {"stop", "go"}
    OBVIOUS
  <2> QED
    BY <1>0, <2>1, <2>2, <2>3, ViewsUntouched
<1> QED
  BY <1>1, <1>2, <1>3, <1>4, <1>5, <1>6, <1>7, <1>8, <1>9, <1>10 DEF Next

(* After a connect every tracked loco of the ECoS is viewed again once the *)
(* re-subscription is through, however the throttles' own requests and the *)
(* messages of ECoS come between its steps; unless it met a loco ECoS does *)
(* not have, or one expired meanwhile.                                     *)
THEOREM ViewedAgain == Spec => []ViewedAfterConnect
<1>1. Init => ViewInv
  BY DEF Init, ViewInv, Distinct, MapWhole, NothingViewed, AboutTracked, Unheard, Walked, Tracked
<1>2. Promise /\ ViewInv => ViewedAfterConnect
  <2> SUFFICES ASSUME Promise, ViewInv, Subscribed, clean,
                      NEW a \in EcosAddr, NEW i \in 1 .. Len(locos), locos[i].addr = a
               PROVE  a \in station.viewed
    BY DEF ViewedAfterConnect, Tracked
  <2>1. Secured(a) /\ toEcos = <<>>
    BY DEF ViewInv, Walked, Subscribed, Settled
  <2> QED
    BY <2>1 DEF Secured, Asked
<1> QED
  BY <1>1, <1>2, PromiseKept, NextViews, PTL DEF Spec

-----------------------------------------------------------------------------
(* The parser under the connection.  Where it stands in a block that began  *)
(* when its line was empty: at the words of the line being sent, with an    *)
(* entry per line before, or out of the block because of a line too long.   *)
Lines == Len(block.lines)
IsSeq(s) == \E S : s \in Seq(S)
Prefix(s, t, n) == IsSeq(s) /\ Len(s) = n /\ \A i \in 1 .. n : s[i] = t[i]
Spoiled ==
    \/ \E i \in 1 .. Lines : i < row /\ Len(block.lines[i]) >= MaxLine
    \/ row \in 1 .. Lines /\ sent >= MaxLine
EntriesKept == IF row - 1 < MaxReplies THEN row - 1 ELSE MaxReplies
ReadsAlong ==
    /\ Prefix(line, Row(block, row), sent)
    /\ row # 0 =>
         /\ open = TRUE /\ header = block.header
         /\ IsSeq(entries) /\ Len(entries) = EntriesKept
         /\ \A i \in 1 .. EntriesKept : entries[i] = PropertyLine(block.lines[i])
LooksOn ==
    /\ row # 0 /\ open = FALSE
    /\ row = Lines + 1 => Prefix(line, Row(block, row), sent)
    /\ row # Lines + 1 => \A i \in 1 .. Len(line) : ~IsMarker(line[i])

PlaceSound ==
    /\ block \in Blocks \cup {NoBlock} /\ row \in 0 .. AfterLast(block) /\ sent \in Nat
    /\ cut \in BOOLEAN
    /\ ~Over => block \in Blocks /\ sent <= Len(Row(block, row)) /\ cut = FALSE
    /\ Over => sent = 0
LineSound ==
    /\ IsSeq(line) /\ Len(line) \in 0 .. MaxLine - 1 /\ open \in BOOLEAN
    /\ (cut = FALSE /\ row # 0 /\ sent = 0) => line = <<>>
BlockSound ==
    inStep => /\ (Over /\ cut = FALSE) => given = Meant(block)
              /\ (~Over \/ cut # FALSE) => given = <<>>
              /\ ~Over => IF Spoiled THEN LooksOn ELSE ReadsAlong
StreamInv == PlaceSound /\ LineSound /\ BlockSound

\* Sequences of anything.
LEMMA EmptyIsSeq == IsSeq(<<>>) /\ Len(<<>>) = 0
BY <<>> \in Seq({}) DEF IsSeq

LEMMA SeqLen == ASSUME NEW s, IsSeq(s) PROVE Len(s) \in Nat /\ (Len(s) = 0 <=> s = <<>>)
BY DEF IsSeq

LEMMA AppendIsSeq ==
    ASSUME NEW s, NEW w, IsSeq(s)
    PROVE  /\ IsSeq(Append(s, w)) /\ Len(s) \in Nat /\ Len(Append(s, w)) = Len(s) + 1
           /\ Append(s, w) # <<>> /\ Append(s, w)[Len(s) + 1] = w
           /\ \A i \in 1 .. Len(s) : Append(s, w)[i] = s[i]
<1>1. PICK S : s \in Seq(S)
  BY DEF IsSeq
<1> DEFINE T == S \cup {w}
<1>2. s \in Seq(T) /\ w \in T
  BY <1>1
<1> HIDE DEF T
<1> QED
  BY <1>2 DEF IsSeq

LEMMA PrefixGrows ==
    ASSUME NEW s, NEW t, NEW n \in Nat, Prefix(s, t, n)
    PROVE  Prefix(Append(s, t[n + 1]), t, n + 1)
<1>1. IsSeq(s) /\ Len(s) = n /\ \A i \in 1 .. n : s[i] = t[i]
  BY DEF Prefix
<1> DEFINE u == Append(s, t[n + 1])
<1>2. IsSeq(u) /\ Len(u) = n + 1 /\ u[n + 1] = t[n + 1] /\ \A i \in 1 .. n : u[i] = s[i]
  BY <1>1, AppendIsSeq
<1> HIDE DEF u
<1>3. \A i \in 1 .. n + 1 : u[i] = t[i]
  BY <1>1, <1>2
<1> QED
  BY <1>2, <1>3 DEF u, Prefix

LEMMA PrefixWhole ==
    ASSUME NEW s, NEW t, IsSeq(t), Prefix(s, t, Len(t))
    PROVE  s = t
<1>1. PICK S : s \in Seq(S)
  BY DEF Prefix, IsSeq
<1>2. PICK T : t \in Seq(T)
  BY DEF IsSeq
<1>3. s \in Seq(S \cup T) /\ t \in Seq(S \cup T)
  BY <1>1, <1>2
<1>4. Len(s) = Len(t) /\ \A i \in 1 .. Len(s) : s[i] = t[i]
  BY DEF Prefix
<1> QED
  BY <1>3, <1>4, SeqEqual

LEMMA PrefixOfNothing == ASSUME NEW t PROVE Prefix(<<>>, t, 0)
BY EmptyIsSeq DEF Prefix

\* What ECoS sends.
LEMMA BlockType ==
    ASSUME NEW b \in Blocks
    PROVE  /\ b.header \in Nat /\ Len(b.lines) \in Nat /\ b.lines \in Seq(Seq(Words) \ {<<>>})
           /\ b.lines = <<>> <=> Len(b.lines) = 0
           /\ AfterLast(b) = Len(b.lines) + 2
BY EcosParserAssumption DEF AfterLast

LEMMA RowType ==
    ASSUME NEW b \in Blocks, NEW i \in 1 .. Len(b.lines)
    PROVE  /\ Row(b, i) = b.lines[i] /\ IsSeq(Row(b, i)) /\ Len(Row(b, i)) \in Nat \ {0}
           /\ \A k \in 1 .. Len(Row(b, i)) : ~IsMarker(Row(b, i)[k])
<1>1. Len(b.lines) \in Nat /\ b.lines \in Seq(Seq(Words) \ {<<>>})
  BY BlockType
<1>2. i # 0 /\ i # Len(b.lines) + 1
  BY <1>1
<1>3. Row(b, i) = b.lines[i]
  BY <1>2 DEF Row
<1>4. b.lines[i] \in Seq(Words) /\ b.lines[i] # <<>>
  BY <1>1
<1>5. PICK s \in Seq(Words) : s = b.lines[i] /\ s # <<>>
  BY <1>4
<1>6. IsSeq(s) /\ Len(s) \in Nat \ {0} /\ \A k \in 1 .. Len(s) : ~IsMarker(s[k])
  BY <1>5, EcosParserAssumption DEF IsSeq
<1> QED
  BY <1>3, <1>5, <1>6

LEMMA MarkerRows ==
    ASSUME NEW b \in Blocks
    PROVE  /\ IsSeq(Row(b, 0)) /\ Len(Row(b, 0)) = 1
           /\ Row(b, 0)[1] = (IF b.header = 0 THEN ReplyStart ELSE EventStart(b.header))
           /\ IsSeq(Row(b, Len(b.lines) + 1)) /\ Len(Row(b, Len(b.lines) + 1)) = 1
           /\ Row(b, Len(b.lines) + 1)[1] = BlockEnd(b.code)
<1>1. Len(b.lines) + 1 # 0
  BY BlockType
<1>2. ASSUME NEW w PROVE IsSeq(<<w>>) /\ Len(<<w>>) = 1 /\ <<w>>[1] = w
  <2>1. <<w>> \in Seq({w})
    OBVIOUS
  <2> QED
    BY <2>1 DEF IsSeq
<1> QED
  BY <1>1, <1>2 DEF Row

LEMMA RowLength ==
    ASSUME NEW b \in Blocks, NEW i \in 0 .. Len(b.lines) + 1
    PROVE  Len(Row(b, i)) \in Nat \ {0}
<1>1. Len(b.lines) \in Nat
  BY BlockType
<1>2. i = 0 \/ i \in 1 .. Len(b.lines) \/ i = Len(b.lines) + 1
  BY <1>1
<1> QED
  BY <1>2, RowType, MarkerRows

-----------------------------------------------------------------------------
\* A word at the parser, whatever it is.
LEMMA TakesWord ==
    ASSUME LineSound, NEW w, TakeWord(w)
    PROVE  /\ IsSeq(line') /\ Len(line') \in 0 .. MaxLine - 1 /\ open' \in BOOLEAN
           /\ IF Len(line) = MaxLine - 1
              THEN line' = <<>> /\ open' = FALSE
              ELSE line' = Append(line, w) /\ UNCHANGED <<entries, open, header>>
<1>1. IsSeq(line) /\ Len(line) \in Nat /\ Len(line) <= MaxLine - 1 /\ MaxLine \in Nat
      /\ MaxLine > 1 /\ open \in BOOLEAN
  BY SeqLen, EcosParserAssumption DEF LineSound
<1>2. CASE Len(line) = MaxLine - 1
  <2>1. line' = <<>> /\ open' = FALSE
    BY <1>1, <1>2 DEF TakeWord, NewBlock
  <2>2. IsSeq(line') /\ Len(line') = 0
    BY <2>1, EmptyIsSeq
  <2>3. Len(line') \in 0 .. MaxLine - 1
    BY <1>1, <2>2
  <2> QED
    BY <1>2, <2>1, <2>2, <2>3
<1>3. CASE Len(line) # MaxLine - 1
  <2>1. line' = Append(line, w) /\ UNCHANGED <<entries, open, header>>
    <3>1. ~(Len(line) >= MaxLine - 1)
      BY <1>1, <1>3
    <3> QED
      BY <3>1 DEF TakeWord
  <2>2. IsSeq(line') /\ Len(line') = Len(line) + 1
    BY <1>1, <2>1, AppendIsSeq
  <2> QED
    BY <1>1, <1>3, <2>1, <2>2
<1> QED
  BY <1>2, <1>3

LEMMA BeginSound ==
    ASSUME StreamInv, NEW b \in Blocks, Begin(b) PROVE StreamInv'
<1>1. /\ block' = b /\ row' = 0 /\ sent' = 0 /\ given' = <<>>
      /\ inStep' = (line = <<>>) /\ cut' = FALSE /\ line' = line /\ open' = open
  BY DEF Begin, reading
<1>2. Len(b.lines) \in Nat /\ AfterLast(b) = Len(b.lines) + 2 /\ Len(Row(b, 0)) = 1
  BY BlockType, MarkerRows
<1>3. PlaceSound'
  <2>1. ~Over' /\ 0 \in 0 .. AfterLast(b) /\ 0 <= Len(Row(b, 0))
    BY <1>1, <1>2 DEF Over
  <2> QED
    BY <1>1, <2>1 DEF PlaceSound
<1>4. LineSound'
  BY <1>1 DEF StreamInv, LineSound
<1>5. BlockSound'
  <2> SUFFICES ASSUME inStep' PROVE BlockSound'
    BY DEF BlockSound
  <2>1. line' = <<>>
    BY <1>1
  <2>2. ~Over'
    BY <1>1, <1>2 DEF Over
  <2>3. ~Spoiled'
    <3>1. ASSUME NEW i \in 1 .. Len(b.lines) PROVE ~(i < 0)
      BY <1>2
    <3> QED
      BY <3>1, <1>1, <1>2 DEF Spoiled, Lines
  <2>4. ReadsAlong'
    BY <1>1, <2>1, PrefixOfNothing DEF ReadsAlong
  <2> QED
    BY <1>1, <2>2, <2>3, <2>4 DEF BlockSound
<1> QED
  BY <1>3, <1>4, <1>5 DEF StreamInv

\* One more word of a block that began in step.
LEMMA SendWordReads ==
    ASSUME StreamInv, SendWord, inStep, ~Spoiled
    PROVE  IF Spoiled' THEN LooksOn' ELSE ReadsAlong'
<1> DEFINE r == Row(block, row)
<1>1. /\ ~Over /\ sent < Len(r) /\ TakeWord(r[sent + 1]) /\ sent' = sent + 1
      /\ UNCHANGED <<block, row, given, inStep, cut>>
  BY DEF SendWord
<1>2. /\ block \in Blocks /\ row \in 0 .. Lines + 1 /\ sent \in Nat /\ Lines \in Nat /\ cut = FALSE
  BY <1>1, BlockType DEF StreamInv, PlaceSound, Over, Lines, AfterLast
<1>3. /\ Prefix(line, r, sent)
      /\ row # 0 => /\ open = TRUE /\ header = block.header
                    /\ IsSeq(entries) /\ Len(entries) = EntriesKept
                    /\ \A i \in 1 .. EntriesKept : entries[i] = PropertyLine(block.lines[i])
  BY <1>1 DEF StreamInv, BlockSound, ReadsAlong
<1>4. Len(line) = sent
  BY <1>3 DEF Prefix
<1>5. /\ IF Len(line) = MaxLine - 1
         THEN line' = <<>> /\ open' = FALSE
         ELSE line' = Append(line, r[sent + 1]) /\ UNCHANGED <<entries, open, header>>
  BY <1>1, TakesWord DEF StreamInv
<1>6. r' = r /\ Lines' = Lines /\ EntriesKept' = EntriesKept
  BY <1>1 DEF Lines, EntriesKept
<1>7. ~\E i \in 1 .. Lines : i < row /\ Len(block.lines[i]) >= MaxLine
  BY DEF Spoiled
<1>8. Spoiled' <=> (row \in 1 .. Lines /\ sent + 1 >= MaxLine)
  BY <1>1, <1>6, <1>7 DEF Spoiled
<1>9. MaxLine \in Nat /\ MaxLine > 1
  BY EcosParserAssumption
<1>10. CASE Len(line) = MaxLine - 1
  <2>1. row \in 1 .. Lines
    <3>1. sent >= 1 /\ Len(r) >= 2
      BY <1>1, <1>2, <1>4, <1>9, <1>10, RowLength
    <3>2. row # 0 /\ row # Lines + 1
      <4>1. row = 0 => Len(r) = 1
        BY <1>2, MarkerRows
      <4>2. row = Lines + 1 => Len(r) = 1
        BY <1>2, MarkerRows DEF Lines
      <4> QED
        BY <4>1, <4>2, <3>1
    <3> QED
      BY <3>2, <1>2
  <2>2. Spoiled'
    BY <1>2, <1>4, <1>8, <1>9, <1>10, <2>1
  <2>3. row # 0 /\ row # Lines + 1
    BY <2>1, <1>2
  <2>4. line' = <<>> /\ open' = FALSE
    BY <1>5, <1>10
  <2>5. LooksOn'
    BY <2>3, <2>4, <1>1, <1>6, EmptyIsSeq DEF LooksOn
  <2> QED
    BY <2>2, <2>5
<1>11. CASE Len(line) # MaxLine - 1
  <2>1. line' = Append(line, r[sent + 1]) /\ UNCHANGED <<entries, open, header>>
    BY <1>5, <1>11
  <2>2. Prefix(line', r, sent + 1)
    BY <2>1, <1>2, <1>3, PrefixGrows
  <2>3. ~Spoiled'
    <3>1. Len(line) \in 0 .. MaxLine - 1
      BY DEF StreamInv, LineSound
    <3>2. ~(sent + 1 >= MaxLine)
      BY <3>1, <1>2, <1>4, <1>9, <1>11
    <3> QED
      BY <3>2, <1>8
  <2>4. ReadsAlong'
    BY <2>1, <2>2, <1>1, <1>3, <1>6 DEF ReadsAlong
  <2> QED
    BY <2>3, <2>4
<1> QED
  BY <1>10, <1>11

LEMMA SendWordLooks ==
    ASSUME StreamInv, SendWord, inStep, Spoiled
    PROVE  Spoiled' /\ LooksOn'
<1> DEFINE r == Row(block, row)
<1>1. /\ ~Over /\ sent < Len(r) /\ TakeWord(r[sent + 1]) /\ sent' = sent + 1
      /\ UNCHANGED <<block, row, given, inStep, cut>>
  BY DEF SendWord
<1>2. /\ block \in Blocks /\ row \in 0 .. Lines + 1 /\ sent \in Nat /\ Lines \in Nat /\ cut = FALSE
      /\ IsSeq(line)
  BY <1>1, BlockType DEF StreamInv, PlaceSound, LineSound, Over, Lines, AfterLast
<1>3. /\ row # 0 /\ open = FALSE
      /\ row = Lines + 1 => Prefix(line, r, sent)
      /\ row # Lines + 1 => \A i \in 1 .. Len(line) : ~IsMarker(line[i])
  BY <1>1 DEF StreamInv, BlockSound, LooksOn
<1>4. /\ IF Len(line) = MaxLine - 1
         THEN line' = <<>> /\ open' = FALSE
         ELSE line' = Append(line, r[sent + 1]) /\ UNCHANGED <<entries, open, header>>
  BY <1>1, TakesWord DEF StreamInv
<1>5. r' = r /\ Lines' = Lines /\ MaxLine \in Nat /\ MaxLine > 1
  BY <1>1, EcosParserAssumption DEF Lines
<1>6. Spoiled'
  <2>1. CASE \E i \in 1 .. Lines : i < row /\ Len(block.lines[i]) >= MaxLine
    BY <2>1, <1>1, <1>5 DEF Spoiled
  <2>2. CASE row \in 1 .. Lines /\ sent >= MaxLine
    <3>1. sent + 1 >= MaxLine
      BY <2>2, <1>2, <1>5
    <3> QED
      BY <3>1, <2>2, <1>1, <1>5 DEF Spoiled
  <2> QED
    BY <2>1, <2>2 DEF Spoiled
<1>7. open' = FALSE
  BY <1>3, <1>4
<1>8. row = Lines + 1 => Prefix(line', r, sent + 1)
  <2> SUFFICES ASSUME row = Lines + 1 PROVE Prefix(line', r, sent + 1)
    OBVIOUS
  <2>1. Len(r) = 1 /\ Prefix(line, r, sent) /\ Len(line) = sent
    BY <1>2, <1>3, MarkerRows DEF Lines, Prefix
  <2>2. Len(line) # MaxLine - 1
    BY <2>1, <1>1, <1>2, <1>5
  <2>3. line' = Append(line, r[sent + 1])
    BY <2>2, <1>4
  <2> QED
    BY <2>1, <2>3, <1>2, PrefixGrows
<1>9. row # Lines + 1 => \A i \in 1 .. Len(line') : ~IsMarker(line'[i])
  <2> SUFFICES ASSUME row # Lines + 1 PROVE \A i \in 1 .. Len(line') : ~IsMarker(line'[i])
    OBVIOUS
  <2>1. CASE Len(line) = MaxLine - 1
    BY <2>1, <1>4, EmptyIsSeq
  <2>2. CASE Len(line) # MaxLine - 1
    <3>1. ~IsMarker(r[sent + 1])
      <4>1. row \in 1 .. Lines
        BY <1>2, <1>3
      <4>2. Len(r) \in Nat /\ \A k \in 1 .. Len(r) : ~IsMarker(r[k])
        BY <4>1, <1>2, RowType DEF Lines
      <4>3. sent + 1 \in 1 .. Len(r)
        BY <4>2, <1>1, <1>2
      <4> QED
        BY <4>2, <4>3
    <3>2. /\ Len(line) \in Nat /\ Len(line') = Len(line) + 1
          /\ line'[Len(line) + 1] = r[sent + 1]
          /\ \A i \in 1 .. Len(line) : line'[i] = line[i]
      BY <2>2, <1>2, <1>4, AppendIsSeq
    <3>3. \A i \in 1 .. Len(line) : ~IsMarker(line'[i])
      BY <3>2, <1>3
    <3>4. \A i \in 1 .. Len(line) + 1 : i \in 1 .. Len(line) \/ i = Len(line) + 1
      BY <3>2
    <3> QED
      BY <3>1, <3>2, <3>3, <3>4
  <2> QED
    BY <2>1, <2>2
<1>10. LooksOn'
  BY <1>1, <1>3, <1>5, <1>7, <1>8, <1>9 DEF LooksOn
<1> QED
  BY <1>6, <1>10

LEMMA SendWordSound == ASSUME StreamInv, SendWord PROVE StreamInv'
<1>1. /\ ~Over /\ sent < Len(Row(block, row)) /\ TakeWord(Row(block, row)[sent + 1])
      /\ sent' = sent + 1 /\ UNCHANGED <<block, row, given, inStep, cut>>
  BY DEF SendWord
<1>2. /\ block \in Blocks /\ row \in 0 .. AfterLast(block) /\ sent \in Nat /\ cut = FALSE
      /\ Len(Row(block, row)) \in Nat /\ AfterLast(block) \in Nat /\ row \in 0 .. Lines + 1
  <2>1. block \in Blocks /\ row \in 0 .. AfterLast(block) /\ sent \in Nat /\ cut = FALSE
    BY <1>1 DEF StreamInv, PlaceSound
  <2>2. row \in 0 .. Lines + 1 /\ AfterLast(block) \in Nat
    BY <1>1, <2>1, BlockType DEF Over, Lines, AfterLast
  <2> QED
    BY <2>1, <2>2, RowLength
<1>3. PlaceSound'
  <2>1. sent' \in Nat /\ sent' <= Len(Row(block, row)) /\ ~Over'
    BY <1>1, <1>2 DEF Over
  <2> QED
    BY <2>1, <1>1, <1>2 DEF PlaceSound
<1>4. LineSound'
  <2>1. sent' # 0
    BY <1>1, <1>2
  <2>2. IsSeq(line') /\ Len(line') \in 0 .. MaxLine - 1 /\ open' \in BOOLEAN
    BY <1>1, TakesWord DEF StreamInv
  <2> QED
    BY <2>1, <2>2 DEF LineSound
<1>5. BlockSound'
  <2> SUFFICES ASSUME inStep' PROVE BlockSound'
    BY DEF BlockSound
  <2>1. given' = <<>> /\ ~Over'
    BY <1>1 DEF StreamInv, BlockSound, Over
  <2>2. IF Spoiled' THEN LooksOn' ELSE ReadsAlong'
    <3>1. inStep
      BY <1>1
    <3> QED
      BY <3>1, SendWordReads, SendWordLooks
  <2> QED
    BY <2>1, <2>2 DEF BlockSound
<1> QED
  BY <1>3, <1>4, <1>5 DEF StreamInv

\* What happens to the block when the newline is taken: the words of the line
\* are all those of the row.
LEMMA NewlineInStep ==
    ASSUME StreamInv, SendNewline, inStep, ~Spoiled
    PROVE  /\ ~Spoiled'
           /\ row # Lines + 1 => ReadsAlong'
           /\ given' = IF row = Lines + 1 THEN Meant(block) ELSE <<>>
<1> DEFINE r == Row(block, row)
<1>1. /\ ~Over /\ sent = Len(r) /\ TakeNewline /\ row' = row + 1 /\ sent' = 0 /\ line' = <<>>
      /\ UNCHANGED <<block, inStep, cut>>
  BY DEF SendNewline, TakeNewline
<1>2. /\ block \in Blocks /\ row \in 0 .. Lines + 1 /\ Lines \in Nat /\ cut = FALSE
  BY <1>1, BlockType DEF StreamInv, PlaceSound, Over, Lines, AfterLast
<1>3. /\ Prefix(line, r, sent) /\ given = <<>>
      /\ row # 0 => /\ open = TRUE /\ header = block.header
                    /\ IsSeq(entries) /\ Len(entries) = EntriesKept
                    /\ \A i \in 1 .. EntriesKept : entries[i] = PropertyLine(block.lines[i])
  BY <1>1 DEF StreamInv, BlockSound, ReadsAlong
<1>4. IsSeq(r) /\ Len(r) \in Nat \ {0}
  <2>1. row = 0 \/ row \in 1 .. Lines \/ row = Lines + 1
    BY <1>2
  <2> QED
    BY <2>1, <1>2, RowType, MarkerRows DEF Lines
<1>5. line = r /\ line # <<>>
  <2>1. line = r
    BY <1>1, <1>3, <1>4, PrefixWhole
  <2> QED
    BY <2>1, <1>4, EmptyIsSeq
<1>6. \/ StartLine \/ EndLine \/ ContentLine \/ IgnoredLine
  BY <1>1, <1>5 DEF TakeNewline
<1>7. Lines' = Lines /\ MaxLine \in Nat /\ MaxLine > 1 /\ MaxReplies \in Nat /\ MaxReplies > 0
  BY <1>1, EcosParserAssumption DEF Lines
<1>8. \A i \in 1 .. Lines : i < row => ~(Len(block.lines[i]) >= MaxLine)
  BY DEF Spoiled
<1>9. row \in 1 .. Lines => ~(Len(block.lines[row]) >= MaxLine)
  <2> SUFFICES ASSUME row \in 1 .. Lines PROVE ~(Len(block.lines[row]) >= MaxLine)
    OBVIOUS
  <2>1. r = block.lines[row]
    BY <1>2, RowType DEF Lines
  <2>2. ~(sent >= MaxLine)
    BY DEF Spoiled
  <2> QED
    BY <2>1, <2>2, <1>1
<1>10. \A i \in 1 .. Lines : i < row + 1 => ~(Len(block.lines[i]) >= MaxLine)
  <2> SUFFICES ASSUME NEW i \in 1 .. Lines, i < row + 1
               PROVE  ~(Len(block.lines[i]) >= MaxLine)
    OBVIOUS
  <2>1. i < row \/ i = row
    BY <1>2
  <2> QED
    BY <2>1, <1>8, <1>9
<1>11. ~Spoiled'
  <2>1. ~(sent' >= MaxLine)
    BY <1>1, <1>7
  <2> QED
    BY <2>1, <1>1, <1>7, <1>10 DEF Spoiled
<1>12. CASE row = 0
  <2>1. line[1] = (IF block.header = 0 THEN ReplyStart ELSE EventStart(block.header))
    BY <1>2, <1>5, <1>12, MarkerRows
  <2>2. /\ line[1].t \in {"reply", "event"}
        /\ line[1].t = "event" => line[1].id = block.header
        /\ line[1].t # "event" => block.header = 0
    BY <2>1 DEF ReplyStart, EventStart
  <2>3. StartLine
    <3>1. line[1].t # "end"
      BY <2>2
    <3>2. line[1].t \in {"reply", "event", "end"}
      BY <2>2
    <3>3. IsMarker(line[1])
      BY <3>2 DEF IsMarker
    <3> QED
      BY <1>6, <3>1, <3>3, Zenon DEF EndLine, ContentLine, IgnoredLine
  <2>4. entries' = <<>> /\ open' = TRUE /\ header' = block.header /\ given' = <<>>
    BY <2>2, <2>3, <1>3 DEF StartLine, NewBlock
  <2>5. EntriesKept' = 0 /\ EntriesKept' \in Nat
    <3>1. row' - 1 = 0 /\ 0 < MaxReplies
      BY <1>1, <1>7, <1>12
    <3> QED
      BY <3>1 DEF EntriesKept
  <2>6. ReadsAlong'
    <3>1. Prefix(line', Row(block, row)', sent')
      BY <1>1, PrefixOfNothing
    <3>2. IsSeq(entries') /\ Len(entries') = EntriesKept' /\ 1 .. EntriesKept' = {}
      BY <2>4, <2>5, EmptyIsSeq
    <3> QED
      BY <3>1, <3>2, <2>4, <1>1 DEF ReadsAlong
  <2>7. row # Lines + 1
    BY <1>2, <1>12
  <2> QED
    BY <1>11, <2>4, <2>6, <2>7
<1>13. CASE row \in 1 .. Lines
  <2>1. /\ row # 0 /\ row # Lines + 1 /\ r = block.lines[row] /\ 1 \in 1 .. Len(r)
        /\ \A k \in 1 .. Len(r) : ~IsMarker(r[k])
    BY <1>2, <1>4, <1>13, RowType DEF Lines
  <2>2. ~IsMarker(line[1]) /\ open = TRUE /\ header = block.header
    BY <2>1, <1>3, <1>5
  <2>3. ContentLine \/ (Len(entries) >= MaxReplies /\ UNCHANGED <<entries, open, header, given>>)
    BY <1>6, <2>2 DEF StartLine, EndLine, IgnoredLine, IsMarker
  <2>4. open' = TRUE /\ header' = block.header /\ given' = <<>>
    BY <2>2, <2>3, <1>3 DEF ContentLine
  <2>5. IsSeq(entries) /\ Len(entries) = EntriesKept /\ EntriesKept \in Nat /\ row \in Nat
        /\ \A i \in 1 .. EntriesKept : entries[i] = PropertyLine(block.lines[i])
    BY <2>1, <1>2, <1>3, <1>7 DEF EntriesKept
  <2>6. IsSeq(entries') /\ Len(entries') = EntriesKept'
        /\ \A i \in 1 .. EntriesKept' : entries'[i] = PropertyLine(block.lines[i])
    <3>1. CASE ContentLine
      <4>1. entries' = Append(entries, PropertyLine(block.lines[row])) /\ Len(entries) < MaxReplies
        BY <3>1, <2>1, <1>5 DEF ContentLine
      <4>2. EntriesKept = row - 1 /\ EntriesKept' = row /\ EntriesKept' = EntriesKept + 1
        <5>1. EntriesKept < MaxReplies
          BY <4>1, <2>5
        <5>2. EntriesKept = row - 1
          BY <5>1, <1>7 DEF EntriesKept
        <5>3. row - 1 < MaxReplies /\ row' - 1 = row
          BY <5>1, <5>2, <2>5, <1>1
        <5>4. EntriesKept' = row
          BY <5>3, <2>5, <1>7 DEF EntriesKept
        <5> QED
          BY <5>2, <5>4, <2>5
      <4>3. IsSeq(entries') /\ Len(entries') = EntriesKept + 1
            /\ entries'[EntriesKept + 1] = PropertyLine(block.lines[row])
            /\ \A i \in 1 .. EntriesKept : entries'[i] = entries[i]
        BY <4>1, <2>5, AppendIsSeq
      <4>4. \A i \in 1 .. EntriesKept' : i \in 1 .. EntriesKept \/ (i = row /\ i = EntriesKept + 1)
        BY <4>2, <2>5
      <4> QED
        BY <4>2, <4>3, <4>4, <2>5
    <3>2. CASE Len(entries) >= MaxReplies /\ UNCHANGED <<entries, open, header, given>>
      <4>1. EntriesKept = MaxReplies /\ row - 1 >= MaxReplies
        BY <3>2, <2>5, <1>7 DEF EntriesKept
      <4>2. ~(row' - 1 < MaxReplies)
        BY <4>1, <2>5, <1>1, <1>7
      <4>3. EntriesKept' = EntriesKept
        BY <4>1, <4>2 DEF EntriesKept
      <4> QED
        BY <3>2, <4>3, <2>5
    <3> QED
      BY <2>3, <3>1, <3>2
  <2>7. ReadsAlong'
    <3>1. Prefix(line', Row(block, row)', sent')
      BY <1>1, PrefixOfNothing
    <3>2. block' = block
      BY <1>1
    <3> QED
      BY <3>1, <3>2, <2>4, <2>6 DEF ReadsAlong
  <2> QED
    BY <1>11, <2>1, <2>4, <2>7
<1>14. CASE row = Lines + 1
  <2>1. line[1] = BlockEnd(block.code) /\ row # 0
    BY <1>2, <1>5, <1>14, MarkerRows DEF Lines
  <2>2. line[1].t = "end" /\ line[1].code = block.code
    BY <2>1 DEF BlockEnd
  <2>3. open = TRUE /\ header = block.header /\ IsSeq(entries) /\ Len(entries) = EntriesKept
        /\ \A i \in 1 .. EntriesKept : entries[i] = PropertyLine(block.lines[i])
    BY <2>1, <1>3
  <2>4. EndLine
    BY <1>6, <2>2, <2>3 DEF StartLine, ContentLine, IgnoredLine, IsMarker
  <2> DEFINE out == IF entries = <<>> THEN <<Bare(block.header, block.code)>>
                    ELSE [i \in 1 .. Len(entries) |->
                            Stamped(entries[i], block.header, block.code)]
  <2>5. given' = out
    <3>1. given' = <<>> \o out
      BY <2>2, <2>3, <2>4, <1>3 DEF EndLine
    <3>2. \E S : out \in Seq(S)
      <4>1. CASE entries = <<>>
        <5>1. <<Bare(block.header, block.code)>> \in Seq({Bare(block.header, block.code)})
          OBVIOUS
        <5> QED
          BY <4>1, <5>1
      <4>2. CASE entries # <<>>
        <5> DEFINE f(i) == Stamped(entries[i], block.header, block.code)
                   S == {f(i) : i \in 1 .. Len(entries)}
        <5>1. Len(entries) \in Nat /\ out = [i \in 1 .. Len(entries) |-> f(i)]
          BY <4>2, <2>3, SeqLen
        <5> HIDE DEF f
        <5>2. [i \in 1 .. Len(entries) |-> f(i)] \in Seq(S)
          BY <5>1
        <5> QED
          BY <5>1, <5>2
      <4> QED
        BY <4>1, <4>2
    <3> HIDE DEF out
    <3> QED
      BY <3>1, <3>2
  <2>6. out = Meant(block)
    <3>1. ~\E i \in 1 .. Len(block.lines) : Len(block.lines[i]) >= MaxLine
      <4>1. \A i \in 1 .. Lines : i < row
        BY <1>2, <1>14
      <4> QED
        BY <4>1, <1>8 DEF Lines
    <3>2. EntriesKept = (IF Lines < MaxReplies THEN Lines ELSE MaxReplies) /\ EntriesKept \in Nat
          /\ (EntriesKept = 0 <=> Lines = 0)
      <4>1. row - 1 = Lines
        BY <1>2, <1>14
      <4> QED
        BY <4>1, <1>2, <1>7 DEF EntriesKept
    <3>3. entries = <<>> <=> block.lines = <<>>
      BY <3>2, <2>3, <1>2, SeqLen, BlockType DEF Lines
    <3>4. CASE entries = <<>>
      BY <3>1, <3>3, <3>4 DEF Meant
    <3>5. CASE entries # <<>>
      <4>1. out = [i \in 1 .. EntriesKept |-> Stamped(entries[i], block.header, block.code)]
        BY <3>5, <2>3
      <4>2. Meant(block) = [i \in 1 .. EntriesKept |->
                              Stamped(PropertyLine(block.lines[i]), block.header, block.code)]
        BY <3>1, <3>2, <3>3, <3>5 DEF Meant, Lines
      <4> HIDE DEF out
      <4> QED
        BY <4>1, <4>2, <2>3
    <3> QED
      BY <3>4, <3>5
  <2> QED
    BY <1>11, <1>14, <2>5, <2>6
<1> QED
  BY <1>2, <1>12, <1>13, <1>14

\* The same newline when the block was lost to a line too long.
LEMMA NewlineLooks ==
    ASSUME StreamInv, SendNewline, inStep, Spoiled
    PROVE  /\ given' = <<>>
           /\ row # Lines + 1 => Spoiled' /\ LooksOn'
           /\ row = Lines + 1 => Meant(block) = <<>>
<1> DEFINE r == Row(block, row)
<1>1. /\ ~Over /\ sent = Len(r) /\ TakeNewline /\ row' = row + 1 /\ sent' = 0 /\ line' = <<>>
      /\ UNCHANGED <<block, inStep, cut>>
  BY DEF SendNewline, TakeNewline
<1>2. /\ block \in Blocks /\ row \in 0 .. Lines + 1 /\ Lines \in Nat /\ cut = FALSE
  BY <1>1, BlockType DEF StreamInv, PlaceSound, Over, Lines, AfterLast
<1>3. /\ row # 0 /\ open = FALSE /\ given = <<>>
      /\ row = Lines + 1 => Prefix(line, r, sent)
      /\ row # Lines + 1 => \A i \in 1 .. Len(line) : ~IsMarker(line[i])
  BY <1>1 DEF StreamInv, BlockSound, LooksOn
<1>4. IsSeq(line)
  BY DEF StreamInv, LineSound
<1>5. line # <<>> => line[1].t = "end" \/ ~IsMarker(line[1])
  <2> SUFFICES ASSUME line # <<>> PROVE line[1].t = "end" \/ ~IsMarker(line[1])
    OBVIOUS
  <2>1. CASE row = Lines + 1
    <3>1. IsSeq(r) /\ r[1] = BlockEnd(block.code)
      BY <1>2, <2>1, MarkerRows DEF Lines
    <3>2. line = r
      BY <1>1, <1>3, <2>1, <3>1, PrefixWhole
    <3>3. line[1] = BlockEnd(block.code)
      BY <3>1, <3>2
    <3> QED
      BY <3>3 DEF BlockEnd
  <2>2. CASE row # Lines + 1
    <3>1. 1 \in 1 .. Len(line)
      BY <1>4, SeqLen
    <3> QED
      BY <1>3, <2>2, <3>1
  <2> QED
    BY <2>1, <2>2
<1>6. UNCHANGED <<entries, open, header, given>>
  <2>1. CASE line = <<>>
    BY <1>1, <2>1, Zenon DEF TakeNewline, StartLine, EndLine, ContentLine, IgnoredLine
  <2>2. CASE line # <<>>
    <3>1. StartLine \/ EndLine \/ ContentLine \/ IgnoredLine
      BY <1>1, <2>2, Zenon DEF TakeNewline
    <3>2. ~StartLine
      <4>1. line[1].t \in {"reply", "event"} => IsMarker(line[1]) /\ line[1].t # "end"
        BY DEF IsMarker
      <4> QED
        BY <1>5, <2>2, <4>1, Zenon DEF StartLine
    <3>3. ~EndLine /\ ~ContentLine
      BY <1>3 DEF EndLine, ContentLine
    <3> QED
      BY <3>1, <3>2, <3>3, Zenon DEF IgnoredLine
  <2> QED
    BY <2>1, <2>2
<1>7. \E i \in 1 .. Lines : i < row + 1 /\ Len(block.lines[i]) >= MaxLine
  <2>1. CASE \E i \in 1 .. Lines : i < row /\ Len(block.lines[i]) >= MaxLine
    <3>1. PICK i \in 1 .. Lines : i < row /\ Len(block.lines[i]) >= MaxLine
      BY <2>1
    <3>2. i < row + 1
      BY <1>2, <3>1
    <3> QED
      BY <3>1, <3>2
  <2>2. CASE row \in 1 .. Lines /\ sent >= MaxLine
    <3>1. r = block.lines[row]
      BY <1>2, <2>2, RowType DEF Lines
    <3>2. row < row + 1
      BY <1>2
    <3> QED
      BY <2>2, <3>1, <3>2, <1>1
  <2> QED
    BY <2>1, <2>2 DEF Spoiled
<1>8. Lines' = Lines
  BY <1>1 DEF Lines
<1>9. Spoiled'
  <2>1. \E i \in 1 .. Lines' : i < row' /\ Len(block'.lines[i]) >= MaxLine
    BY <1>1, <1>7, <1>8
  <2> QED
    BY <2>1 DEF Spoiled
<1>10. LooksOn'
  <2>1. row' # 0 /\ open' = FALSE
    BY <1>1, <1>2, <1>3, <1>6
  <2>2. Prefix(line', Row(block, row)', sent')
    BY <1>1, PrefixOfNothing
  <2>3. \A i \in 1 .. Len(line') : ~IsMarker(line'[i])
    BY <1>1, EmptyIsSeq
  <2> QED
    BY <2>1, <2>2, <2>3 DEF LooksOn
<1>11. Meant(block) = <<>>
  <2>1. \E i \in 1 .. Len(block.lines) : Len(block.lines[i]) >= MaxLine
    BY <1>7 DEF Lines
  <2> QED
    BY <2>1 DEF Meant
<1> QED
  BY <1>3, <1>6, <1>9, <1>10, <1>11

LEMMA SendNewlineSound == ASSUME StreamInv, SendNewline PROVE StreamInv'
<1>1. /\ ~Over /\ TakeNewline /\ row' = row + 1 /\ sent' = 0 /\ line' = <<>>
      /\ UNCHANGED <<block, inStep, cut>>
  BY DEF SendNewline, TakeNewline
<1>2. /\ block \in Blocks /\ row \in 0 .. Lines + 1 /\ Lines \in Nat /\ cut = FALSE
      /\ AfterLast(block) = Lines + 2
  BY <1>1, BlockType DEF StreamInv, PlaceSound, Over, Lines, AfterLast
<1>3. Over' <=> row = Lines + 1
  BY <1>1, <1>2 DEF Over
<1>4. PlaceSound'
  <2>1. row' \in 0 .. AfterLast(block)
    BY <1>1, <1>2
  <2>2. ~Over' => 0 <= Len(Row(block, row'))
    <3> SUFFICES ASSUME ~Over' PROVE 0 <= Len(Row(block, row'))
      OBVIOUS
    <3>1. row' \in 0 .. Len(block.lines) + 1
      BY <1>1, <1>2, <1>3 DEF Lines
    <3>2. Len(Row(block, row')) \in Nat
      BY <1>2, <3>1, RowLength
    <3> QED
      BY <3>2
  <2> QED
    BY <1>1, <1>2, <2>1, <2>2 DEF PlaceSound
<1>5. LineSound'
  <2>1. open' \in BOOLEAN
    <3>1. open \in BOOLEAN
      BY DEF StreamInv, LineSound
    <3> QED
      BY <1>1, <3>1
         DEF TakeNewline, StartLine, EndLine, ContentLine, IgnoredLine, NewBlock
  <2>2. IsSeq(line') /\ Len(line') \in 0 .. MaxLine - 1
    <3>1. 0 \in 0 .. MaxLine - 1
      BY EcosParserAssumption
    <3> QED
      BY <1>1, <3>1, EmptyIsSeq
  <2> QED
    BY <1>1, <2>1, <2>2 DEF LineSound
<1>6. BlockSound'
  <2> SUFFICES ASSUME inStep' PROVE BlockSound'
    BY DEF BlockSound
  <2>0. inStep
    BY <1>1
  <2>1. CASE row = Lines + 1
    <3>1. given' = Meant(block)
      <4>1. CASE Spoiled
        BY <2>0, <2>1, <4>1, NewlineLooks
      <4>2. CASE ~Spoiled
        BY <2>0, <2>1, <4>2, NewlineInStep
      <4> QED
        BY <4>1, <4>2
    <3>2. given' = (Meant(block))'
      BY <1>1, <3>1
    <3> QED
      BY <1>1, <1>2, <1>3, <2>1, <3>2 DEF BlockSound
  <2>2. CASE row # Lines + 1
    <3>1. given' = <<>> /\ (IF Spoiled' THEN LooksOn' ELSE ReadsAlong')
      <4>1. CASE Spoiled
        BY <2>0, <2>2, <4>1, NewlineLooks
      <4>2. CASE ~Spoiled
        BY <2>0, <2>2, <4>2, NewlineInStep
      <4> QED
        BY <4>1, <4>2
    <3> QED
      BY <1>3, <2>2, <3>1 DEF BlockSound
  <2> QED
    BY <2>1, <2>2
<1> QED
  BY <1>4, <1>5, <1>6 DEF StreamInv

\* A connection that breaks off leaves what the parser has and ends the block.
LEMMA LostSound ==
    ASSUME StreamInv, Lost, IsSeq(line'), Len(line') \in 0 .. MaxLine - 1, open' \in BOOLEAN
    PROVE  StreamInv'
<1>1. /\ ~Over /\ cut' = TRUE /\ row' = AfterLast(block) /\ sent' = 0
      /\ UNCHANGED <<block, given, inStep>>
  BY DEF Lost
<1>2. block \in Blocks /\ AfterLast(block) \in Nat
  BY <1>1, BlockType DEF StreamInv, PlaceSound, AfterLast
<1>3. Over'
  BY <1>1 DEF Over
<1>4. PlaceSound'
  BY <1>1, <1>2, <1>3 DEF PlaceSound
<1>5. LineSound'
  BY <1>1 DEF LineSound
<1>6. BlockSound'
  BY <1>1, <1>3 DEF StreamInv, BlockSound
<1> QED
  BY <1>4, <1>5, <1>6 DEF StreamInv

LEMMA BreakSound == ASSUME StreamInv, BreakOff \/ BreakInWord PROVE StreamInv'
<1>1. CASE BreakOff
  <2>1. Lost /\ line' = line /\ open' = open
    BY <1>1 DEF BreakOff, reading
  <2>2. IsSeq(line) /\ Len(line) \in 0 .. MaxLine - 1 /\ open \in BOOLEAN
    BY DEF StreamInv, LineSound
  <2> QED
    BY <2>1, <2>2, LostSound
<1>2. CASE BreakInWord
  <2>1. PICK w : TakeWord(w)
    BY <1>2 DEF BreakInWord
  <2>2. Lost
    BY <1>2 DEF BreakInWord
  <2>3. IsSeq(line') /\ Len(line') \in 0 .. MaxLine - 1 /\ open' \in BOOLEAN
    BY <2>1, TakesWord DEF StreamInv
  <2> QED
    BY <2>2, <2>3, LostSound
<1> QED
  BY <1>1, <1>2

LEMMA NothingSentSound == NothingSent => StreamInv
<1> SUFFICES ASSUME NothingSent PROVE StreamInv
  OBVIOUS
<1>1. /\ line = <<>> /\ open = FALSE /\ block = NoBlock /\ row = AfterLast(NoBlock) /\ sent = 0
      /\ inStep = FALSE /\ cut = FALSE
  BY DEF NothingSent
<1>2. AfterLast(NoBlock) = 2
  BY DEF AfterLast, NoBlock
<1>3. PlaceSound
  <2>1. Over /\ row \in 0 .. AfterLast(block)
    BY <1>1, <1>2 DEF Over
  <2> QED
    BY <1>1, <2>1 DEF PlaceSound
<1>4. LineSound
  <2>1. 0 \in 0 .. MaxLine - 1
    BY EcosParserAssumption
  <2> QED
    BY <1>1, <2>1, EmptyIsSeq DEF LineSound
<1> QED
  BY <1>1, <1>3, <1>4 DEF StreamInv, BlockSound

LEMMA TransferSound == ASSUME StreamInv, [Transfer]_<<reading, sending>> PROVE StreamInv'
<1>1. CASE UNCHANGED <<reading, sending>>
  BY <1>1 DEF reading, sending, StreamInv, PlaceSound, LineSound, BlockSound, Over, Spoiled,
              LooksOn, ReadsAlong, Lines, EntriesKept
<1>2. CASE Transfer
  BY <1>2, BeginSound, SendWordSound, SendNewlineSound, BreakSound DEF Transfer
<1> QED
  BY <1>1, <1>2

LEMMA StreamInvMeans == StreamInv => Resynchronises
<1> SUFFICES ASSUME StreamInv PROVE Resynchronises
  OBVIOUS
<1>1. cut \in BOOLEAN
  BY DEF StreamInv, PlaceSound
<1>2. ASSUME Over, ~cut PROVE line = <<>>
  <2>1. AfterLast(block) # 0
    <3>1. Len(block.lines) \in Nat
      BY BlockType DEF StreamInv, PlaceSound, NoBlock
    <3> QED
      BY <3>1 DEF AfterLast
  <2>2. row # 0 /\ sent = 0 /\ cut = FALSE
    BY <1>1, <1>2, <2>1 DEF Over, StreamInv, PlaceSound
  <2> QED
    BY <2>2 DEF StreamInv, LineSound
<1>3. ASSUME inStep PROVE given = IF Over /\ ~cut THEN Meant(block) ELSE <<>>
  BY <1>1, <1>3 DEF StreamInv, BlockSound
<1> QED
  BY <1>2, <1>3 DEF Resynchronises

(* Whatever ECoS sends, block after block, and wherever in a block its      *)
(* connections break off: after a whole block the parser is at the start    *)
(* of a line, and of a block begun there it hands on what the block says,   *)
(* at its end.                                                              *)
THEOREM BlocksAreRead == Stream => []Resynchronises
<1>1. NothingSent => StreamInv
  BY NothingSentSound
<1>2. StreamInv /\ [Transfer]_<<reading, sending>> => StreamInv'
  BY TransferSound
<1>3. StreamInv => Resynchronises
  BY StreamInvMeans
<1> QED
  BY <1>1, <1>2, <1>3, PTL DEF Stream
=============================================================================
