----------------------------- MODULE Z21LanProofs -----------------------------
(***************************************************************************)
(* That the Z21 server tells its clients the truth about what they asked   *)
(* for, for any number of clients, places, locos and turnouts.             *)
(***************************************************************************)
EXTENDS Z21Lan, SequenceTheorems, FiniteSetTheorems, TLAPS

Told == [loco : [Addr -> Locos \cup {Untold}], turnout : [Turnouts -> BOOLEAN \cup {Untold}],
         stop : BOOLEAN \cup {Untold}]
Asked == [locos : SUBSET Addr, last : Addr \cup {Nobody}]

(* Every session is a client's only one, and hears broadcasts unless that  *)
(* client turned them off.                                                 *)
Sessions ==
    /\ \A p \in Places : Active(p) => clients[p].who \in Clients
    /\ \A p, q \in Places : Active(p) /\ Active(q) /\ clients[p].who = clients[q].who => p = q
    /\ \A p \in Places : Active(p) /\ ~clients[p].flag => clients[p].who \in muted

\* The packet being handled belongs to the client whose place it is.
Attributed ==
    current # Idle => /\ current.who \in Clients
                      /\ here # 0 => clients[here].who = current.who

\* Nothing is remembered of a client without a session.
HasSession(c) == \E p \in Places : Active(p) /\ clients[p].who = c
Strangers ==
    \A c \in Clients : ~HasSession(c) =>
        told[c] = NothingTold /\ asked[c] = NothingAsked /\ c \notin muted

IInv ==
    /\ TypeOK /\ Sessions /\ Attributed /\ Strangers
    /\ StopTruthful /\ SubscriberTold /\ OwnSubscriptions

-----------------------------------------------------------------------------
(* subscribeClientToLoco() keeps a list of distinct locos within bounds,   *)
(* with the loco asked for in it.                                          *)
LEMMA SubscribedList ==
    ASSUME NEW list \in Seq(Addr), NEW a \in Addr, Len(list) <= MaxSubscribed
    PROVE  /\ Subscribed(list, a) \in Seq(Addr) /\ Len(Subscribed(list, a)) <= MaxSubscribed
           /\ ToSet(Subscribed(list, a)) \subseteq ToSet(list) \cup {a}
           /\ a \in ToSet(Subscribed(list, a))
           /\ (\A i, j \in DOMAIN list : list[i] = list[j] => i = j) =>
                  \A i, j \in DOMAIN Subscribed(list, a) :
                      Subscribed(list, a)[i] = Subscribed(list, a)[j] => i = j
<1>1. CASE a \in ToSet(list)
  BY <1>1 DEF Subscribed
<1>2. CASE a \notin ToSet(list)
  <2> DEFINE short == IF Len(list) = MaxSubscribed THEN Tail(list) ELSE list
             k == IF Len(list) = MaxSubscribed THEN 1 ELSE 0
  <2>1. MaxSubscribed \in Nat /\ MaxSubscribed >= 1
    BY Z21Assumption
  <2>2. /\ short \in Seq(Addr) /\ Len(short) = Len(list) - k /\ Len(short) + 1 <= MaxSubscribed
        /\ \A i \in 1 .. Len(short) : i + k \in 1 .. Len(list) /\ short[i] = list[i + k]
    BY <2>1
  <2>3. Subscribed(list, a) = Append(short, a)
    BY <1>2 DEF Subscribed
  <2> HIDE DEF short
  <2>4. /\ Append(short, a) \in Seq(Addr) /\ Len(Append(short, a)) = Len(short) + 1
        /\ \A i \in 1 .. Len(short) : Append(short, a)[i] = list[i + k]
        /\ Append(short, a)[Len(short) + 1] = a
        /\ DOMAIN Append(short, a) = 1 .. Len(short) + 1
    <3>1. /\ Append(short, a) \in Seq(Addr) /\ Len(Append(short, a)) = Len(short) + 1
          /\ \A i \in 1 .. Len(short) : Append(short, a)[i] = short[i]
          /\ Append(short, a)[Len(short) + 1] = a
      BY <2>2, AppendProperties
    <3>2. DOMAIN Append(short, a) = 1 .. Len(short) + 1
      BY <3>1, LenProperties
    <3>. QED BY <2>2, <3>1, <3>2
  <2>5. \A i \in DOMAIN list : list[i] # a
    BY <1>2 DEF ToSet
  <2>6. DOMAIN list = 1 .. Len(list) /\ Len(short) \in Nat
    BY <2>2
  <2>7. a \in ToSet(Append(short, a))
    BY <2>4, <2>6 DEF ToSet
  <2>8. ToSet(Append(short, a)) \subseteq ToSet(list) \cup {a}
    <3>1. ASSUME NEW i \in 1 .. Len(short) + 1
          PROVE  Append(short, a)[i] \in ToSet(list) \cup {a}
      <4>1. CASE i = Len(short) + 1
        BY <2>4, <4>1
      <4>2. CASE i \in 1 .. Len(short)
        BY <2>2, <2>4, <2>6, <4>2 DEF ToSet
      <4>. QED BY <2>6, <4>1, <4>2
    <3>. QED BY <2>4, <3>1 DEF ToSet
  <2>9. ASSUME \A i, j \in DOMAIN list : list[i] = list[j] => i = j,
               NEW i \in DOMAIN Append(short, a), NEW j \in DOMAIN Append(short, a),
               Append(short, a)[i] = Append(short, a)[j]
        PROVE  i = j
    <3>1. i \in 1 .. Len(short) + 1 /\ j \in 1 .. Len(short) + 1
      BY <2>4, <2>9
    <3>2. ASSUME NEW m \in 1 .. Len(short) PROVE m + k \in DOMAIN list /\ Append(short, a)[m] = list[m + k]
      BY <2>2, <2>4, <2>6
    <3>3. \A m \in 1 .. Len(short) : Append(short, a)[m] # a
      BY <3>2, <2>5
    <3>4. CASE i = Len(short) + 1 \/ j = Len(short) + 1
      BY <3>1, <3>3, <3>4, <2>4, <2>6, <2>9
    <3>5. CASE i \in 1 .. Len(short) /\ j \in 1 .. Len(short)
      <4>1. list[i + k] = list[j + k]
        BY <3>2, <3>5, <2>9
      <4>2. i + k = j + k
        BY <4>1, <3>2, <3>5, <2>9
      <4>. QED BY <4>2, <3>5, <2>6
    <3>. QED BY <3>1, <3>4, <3>5, <2>6
  <2>. QED BY <2>1, <2>2, <2>3, <2>4, <2>7, <2>8, <2>9
<1>. QED BY <1>1, <1>2

-----------------------------------------------------------------------------
(* A datagram changes what its receivers were told and nothing else; nobody *)
(* without a session receives any.                                         *)
LEMMA SentTo ==
    ASSUME TypeOK, NEW P \in SUBSET Places, NEW what \in [Clients -> Told]
    PROVE  /\ Sent(P, what) \in [Clients -> Told]
           /\ \A c \in Clients : Sent(P, what)[c] \in {told[c], what[c]}
           /\ \A c \in Clients : ~HasSession(c) => Sent(P, what)[c] = told[c]
           /\ \A p \in P : Active(p) /\ clients[p].who \in Clients
                  => Sent(P, what)[clients[p].who] = what[clients[p].who]
<1> DEFINE them == {clients[p].who : p \in {q \in P : Active(q)}}
<1>1. Sent(P, what) = [c \in Clients |-> IF c \in them THEN what[c] ELSE told[c]]
  BY DEF Sent
<1>2. told \in [Clients -> Told]
  BY DEF TypeOK, Told
<1>3. \A c \in Clients : ~HasSession(c) => c \notin them
  BY DEF HasSession
<1>4. \A p \in P : Active(p) => clients[p].who \in them
  OBVIOUS
<1> HIDE DEF them
<1>. QED BY <1>1, <1>2, <1>3, <1>4

\* What is sent about a loco, about the stop and about a turnout.
LEMMA Contents ==
    ASSUME TypeOK
    PROVE  /\ \A a \in Addr, st \in Locos :
                /\ LocoInfo(a, st) \in [Clients -> Told]
                /\ \A c \in Clients :
                     /\ LocoInfo(a, st)[c].loco[a] = st /\ LocoInfo(a, st)[c].stop = told[c].stop
                     /\ \A b \in Addr \ {a} : LocoInfo(a, st)[c].loco[b] = told[c].loco[b]
           /\ \A s \in BOOLEAN :
                /\ StopInfo(s) \in [Clients -> Told]
                /\ \A c \in Clients : StopInfo(s)[c].stop = s /\ StopInfo(s)[c].loco = told[c].loco
           /\ \A t \in Nat, d \in BOOLEAN :
                /\ TurnoutInfo(t, d) \in [Clients -> Told]
                /\ \A c \in Clients : /\ TurnoutInfo(t, d)[c].stop = told[c].stop
                                      /\ TurnoutInfo(t, d)[c].loco = told[c].loco
<1>1. \A c \in Clients : told[c] \in Told
  BY DEF TypeOK, Told
<1>2. ASSUME NEW a \in Addr, NEW st \in Locos
      PROVE  /\ LocoInfo(a, st) \in [Clients -> Told]
             /\ \A c \in Clients :
                  /\ LocoInfo(a, st)[c].loco[a] = st /\ LocoInfo(a, st)[c].stop = told[c].stop
                  /\ \A b \in Addr \ {a} : LocoInfo(a, st)[c].loco[b] = told[c].loco[b]
  BY <1>1 DEF LocoInfo, Told
<1>3. ASSUME NEW s \in BOOLEAN
      PROVE  /\ StopInfo(s) \in [Clients -> Told]
             /\ \A c \in Clients : StopInfo(s)[c].stop = s /\ StopInfo(s)[c].loco = told[c].loco
  BY <1>1 DEF StopInfo, Told
<1>4. ASSUME NEW t \in Nat, NEW d \in BOOLEAN
      PROVE  /\ TurnoutInfo(t, d) \in [Clients -> Told]
             /\ \A c \in Clients : /\ TurnoutInfo(t, d)[c].stop = told[c].stop
                                   /\ TurnoutInfo(t, d)[c].loco = told[c].loco
  BY <1>1 DEF TurnoutInfo, Told
<1>. QED BY <1>2, <1>3, <1>4

LEMMA LocoBroadcast ==
    ASSUME TypeOK, Sessions, NEW a \in Addr, NEW st \in Locos
    PROVE  /\ BroadcastLocoInfo(a, st) \in [Clients -> Told]
           /\ \A c \in Clients :
                /\ BroadcastLocoInfo(a, st)[c].stop = told[c].stop
                /\ \A b \in Addr \ {a} : BroadcastLocoInfo(a, st)[c].loco[b] = told[c].loco[b]
                /\ ~HasSession(c) => BroadcastLocoInfo(a, st)[c] = told[c]
           /\ \A p \in Places : Listening(p) /\ IsSubscribed(p, a)
                => BroadcastLocoInfo(a, st)[clients[p].who].loco[a] = st
<1> DEFINE P == {p \in Places : Listening(p) /\ IsSubscribed(p, a)}
<1>1. P \in SUBSET Places /\ LocoInfo(a, st) \in [Clients -> Told]
  BY Contents
<1>2. BroadcastLocoInfo(a, st) = Sent(P, LocoInfo(a, st))
  BY DEF BroadcastLocoInfo
<1>3. \A p \in Places : Listening(p) /\ IsSubscribed(p, a)
         => p \in P /\ Active(p) /\ clients[p].who \in Clients
  BY DEF Listening, Sessions
<1> HIDE DEF P
<1> DEFINE what == LocoInfo(a, st)
           r == Sent(P, what)
<1>4. /\ what \in [Clients -> Told]
      /\ \A c \in Clients : /\ what[c].loco[a] = st /\ what[c].stop = told[c].stop
                            /\ \A b \in Addr \ {a} : what[c].loco[b] = told[c].loco[b]
  BY Contents
<1> HIDE DEF what
<1>5. /\ r \in [Clients -> Told]
      /\ \A c \in Clients : r[c] \in {told[c], what[c]} /\ (~HasSession(c) => r[c] = told[c])
      /\ \A p \in P : Active(p) /\ clients[p].who \in Clients => r[clients[p].who] = what[clients[p].who]
  BY <1>1, <1>4, SentTo
<1>6. BroadcastLocoInfo(a, st) = r
  BY <1>2 DEF what
<1> HIDE DEF r
<1>. QED BY <1>3, <1>4, <1>5, <1>6

LEMMA StopBroadcast ==
    ASSUME TypeOK, Sessions, NEW s \in BOOLEAN
    PROVE  /\ StopTold(s) \in [Clients -> Told]
           /\ \A c \in Clients : /\ StopTold(s)[c].loco = told[c].loco
                                 /\ ~HasSession(c) => StopTold(s)[c] = told[c]
           /\ \A p \in Places : Listening(p) => StopTold(s)[clients[p].who].stop = s
<1> DEFINE P == {p \in Places : Listening(p)}
<1>1. P \in SUBSET Places /\ StopInfo(s) \in [Clients -> Told]
  BY Contents
<1>2. StopTold(s) = Sent(P, StopInfo(s))
  BY DEF StopTold, BroadcastStop
<1>3. \A p \in Places : Listening(p) => p \in P /\ Active(p) /\ clients[p].who \in Clients
  BY DEF Listening, Sessions
<1> HIDE DEF P
<1> DEFINE what == StopInfo(s)
           r == Sent(P, what)
<1>4. /\ what \in [Clients -> Told]
      /\ \A c \in Clients : what[c].stop = s /\ what[c].loco = told[c].loco
  BY Contents
<1> HIDE DEF what
<1>5. /\ r \in [Clients -> Told]
      /\ \A c \in Clients : r[c] \in {told[c], what[c]} /\ (~HasSession(c) => r[c] = told[c])
      /\ \A p \in P : Active(p) /\ clients[p].who \in Clients => r[clients[p].who] = what[clients[p].who]
  BY <1>1, <1>4, SentTo
<1>6. StopTold(s) = r
  BY <1>2 DEF what
<1> HIDE DEF r
<1>. QED BY <1>3, <1>4, <1>5, <1>6

LEMMA TurnoutBroadcast ==
    ASSUME TypeOK, NEW t \in Nat, NEW d \in BOOLEAN
    PROVE  /\ BroadcastTurnout(t, d) \in [Clients -> Told]
           /\ \A c \in Clients : /\ BroadcastTurnout(t, d)[c].loco = told[c].loco
                                 /\ BroadcastTurnout(t, d)[c].stop = told[c].stop
                                 /\ ~HasSession(c) => BroadcastTurnout(t, d)[c] = told[c]
<1> DEFINE P == {p \in Places : Listening(p)}
           what == TurnoutInfo(t, d)
           r == Sent(P, what)
<1>1. P \in SUBSET Places /\ BroadcastTurnout(t, d) = r
  BY DEF BroadcastTurnout
<1>2. /\ what \in [Clients -> Told]
      /\ \A c \in Clients : what[c].stop = told[c].stop /\ what[c].loco = told[c].loco
  BY Contents
<1> HIDE DEF P, what
<1>3. /\ r \in [Clients -> Told]
      /\ \A c \in Clients : r[c] \in {told[c], what[c]} /\ (~HasSession(c) => r[c] = told[c])
  BY <1>1, <1>2, SentTo
<1> HIDE DEF r
<1>. QED BY <1>1, <1>2, <1>3

LEMMA Replied ==
    ASSUME TypeOK, Sessions, NEW what \in [Clients -> Told]
    PROVE  /\ Reply(what) \in [Clients -> Told]
           /\ \A c \in Clients : /\ Reply(what)[c] \in {told[c], what[c]}
                                 /\ ~HasSession(c) => Reply(what)[c] = told[c]
           /\ here # 0 /\ Active(here) => Reply(what)[clients[here].who] = what[clients[here].who]
<1>1. told \in [Clients -> Told]
  BY DEF TypeOK, Told
<1>2. CASE here = 0
  BY <1>1, <1>2 DEF Reply
<1>3. CASE here # 0
  <2>1. here \in Places
    BY <1>3 DEF TypeOK, here
  <2>2. {here} \in SUBSET Places
    BY <2>1
  <2>3. Active(here) => clients[here].who \in Clients
    BY <2>1 DEF Sessions
  <2>4. Reply(what) = Sent({here}, what)
    BY <1>3 DEF Reply
  <2> DEFINE r == Sent({here}, what)
  <2>5. /\ r \in [Clients -> Told]
        /\ \A c \in Clients : r[c] \in {told[c], what[c]} /\ (~HasSession(c) => r[c] = told[c])
        /\ \A p \in {here} : Active(p) /\ clients[p].who \in Clients
              => r[clients[p].who] = what[clients[p].who]
    BY <2>2, SentTo
  <2>. QED BY <2>3, <2>4, <2>5
<1>. QED BY <1>2, <1>3

(* A step that leaves the sessions alone, and strangers untold, leaves     *)
(* what is said of sessions true.                                          *)
LEMMA SameSessions ==
    ASSUME IInv, UNCHANGED <<clients, current, asked, muted>>,
           \A c \in Clients : ~HasSession(c) => told'[c] = told[c]
    PROVE  Sessions' /\ Attributed' /\ Strangers' /\ OwnSubscriptions'
<1>1. \A c \in Clients : HasSession(c)' <=> HasSession(c)
  BY DEF HasSession, Active
<1>2. Sessions' /\ Attributed'
  BY DEF IInv, Sessions, Attributed, Active, here, Idle
<1>3. Strangers'
  BY <1>1 DEF IInv, Strangers
<1>4. OwnSubscriptions'
  BY DEF IInv, OwnSubscriptions, Active
<1>. QED BY <1>2, <1>3, <1>4

-----------------------------------------------------------------------------
\* The index 0 of a sender without a place is no place.
LEMMA ZeroIsNoPlace == 0 \notin Places
<1>1. Cardinality(Places) \in Nat
  BY Z21Assumption, FS_CardinalityType
<1>. QED BY <1>1, Z21Assumption

LEMMA InitIInv == Init => IInv
<1>. SUFFICES ASSUME Init PROVE IInv
  OBVIOUS
<1>1. TypeOK
  <2>1. /\ clients \in [Places -> [who : Clients \cup {Nobody}, active : BOOLEAN,
                                   flag : BOOLEAN, subscribed : Seq(Addr)]]
        /\ \A p \in Places : Len(clients[p].subscribed) <= MaxSubscribed
    BY Z21Assumption DEF Init, Vacant
  <2>2. told \in [Clients -> Told] /\ asked \in [Clients -> Asked]
    BY DEF Init, NothingTold, NothingAsked, Told, Asked
  <2>3. current \in [place : Places \cup {0}, who : Clients \cup {Nobody}]
    BY DEF Init, Idle
  <2>4. /\ table \in [Addr -> Locos \cup {Unknown}]
        /\ turnouts \in [Turnouts -> BOOLEAN \cup {Unknown}]
        /\ muted \subseteq Clients /\ withheld \subseteq Addr
    BY DEF Init
  <2>5. stopActive \in BOOLEAN
    BY DEF Init
  <2>6. ops \in 0 .. MaxOps
    BY Z21Assumption DEF Init
  <2>. QED BY <2>1, <2>2, <2>3, <2>4, <2>5, <2>6 DEF TypeOK, Told, Asked
<1>2. \A p \in Places : ~Active(p)
  BY DEF Init, Vacant, Active
<1>3. Sessions /\ Attributed /\ Strangers
  BY <1>2 DEF Init, Sessions, Attributed, Strangers
<1>4. StopTruthful /\ SubscriberTold /\ OwnSubscriptions
  BY <1>2 DEF StopTruthful, SubscriberTold, OwnSubscriptions, Hears, Listening
<1>. QED BY <1>1, <1>3, <1>4 DEF IInv

-----------------------------------------------------------------------------
(* A packet of a client with a session, of a new one, of one for whom there *)
(* is no room.                                                             *)
LEMMA PacketKeeps ==
    ASSUME IInv, NEW c \in Clients, Packet(c)
    PROVE  IInv'
<1>1. UNCHANGED <<stopActive, table, turnouts, told, asked, muted, withheld, ops>>
  BY DEF Packet
<1>2. CASE PlacesOf(c) # {} /\ current' = [place |-> CHOOSE p \in PlacesOf(c) : TRUE, who |-> c] /\ UNCHANGED clients
  <2>1. PICK p \in PlacesOf(c) : current' = [place |-> p, who |-> c]
    BY <1>2
  <2>2. p \in Places /\ Active(p) /\ clients[p].who = c
    BY <2>1 DEF PlacesOf
  <2>3. TypeOK'
    <3>1. current' \in [place : Places \cup {0}, who : Clients \cup {Nobody}]
      BY <2>1, <2>2
    <3>. QED BY <1>1, <1>2, <3>1 DEF IInv, TypeOK
  <2>4. Attributed'
    <3>1. current'.place = p /\ current'.who = c /\ clients'[p].who = c
      BY <1>2, <2>1, <2>2
    <3>. QED BY <3>1 DEF Attributed, here
  <2>5. Sessions' /\ Strangers'
    BY <1>1, <1>2 DEF IInv, Sessions, Strangers, HasSession, Active
  <2>6. StopTruthful' /\ SubscriberTold' /\ OwnSubscriptions'
    BY <1>1, <1>2 DEF IInv, StopTruthful, SubscriberTold, OwnSubscriptions, Hears, Listening, Active,
                      IsSubscribed, Tracked
  <2>. QED BY <2>3, <2>4, <2>5, <2>6 DEF IInv
<1>3. CASE PlacesOf(c) = {} /\ current' = [place |-> 0, who |-> c] /\ UNCHANGED clients
  <2>0. current'.place = 0 /\ current'.who = c
    BY <1>3
  <2>1. TypeOK'
    <3>1. current' \in [place : Places \cup {0}, who : Clients \cup {Nobody}]
      BY <1>3
    <3>. QED BY <1>1, <1>3, <3>1 DEF IInv, TypeOK
  <2>2. Attributed'
    BY <2>0 DEF Attributed, here
  <2>3. Sessions' /\ Strangers'
    BY <1>1, <1>3 DEF IInv, Sessions, Strangers, HasSession, Active
  <2>4. StopTruthful' /\ SubscriberTold' /\ OwnSubscriptions'
    BY <1>1, <1>3 DEF IInv, StopTruthful, SubscriberTold, OwnSubscriptions, Hears, Listening, Active,
                      IsSubscribed, Tracked
  <2>. QED BY <2>1, <2>2, <2>3, <2>4 DEF IInv
<1>4. ASSUME PlacesOf(c) = {}, NEW n \in Places, FirstFree(n),
             clients' = [clients EXCEPT ![n] = NewSession(c)], current' = [place |-> n, who |-> c]
      PROVE  IInv'
  <2>1. n \in Places /\ ~Active(n)
    BY <1>4 DEF FirstFree
  <2>2. /\ clients' = [clients EXCEPT ![n] = NewSession(c)]
        /\ current' = [place |-> n, who |-> c]
    BY <1>4
  <2>3. NewSession(c) = [who |-> c, active |-> TRUE, flag |-> TRUE, subscribed |-> <<>>]
    BY DEF NewSession
  <2>4. /\ clients'[n] = [who |-> c, active |-> TRUE, flag |-> TRUE, subscribed |-> <<>>]
        /\ \A p \in Places \ {n} : clients'[p] = clients[p]
    BY <2>1, <2>2, <2>3 DEF IInv, TypeOK
  <2>5. ~HasSession(c)
    BY <1>4 DEF HasSession, PlacesOf
  <2>6. told[c] = NothingTold /\ asked[c] = NothingAsked /\ c \notin muted
    BY <2>5 DEF IInv, Strangers
  <2>7. TypeOK'
    <3>1. /\ clients' \in [Places -> [who : Clients \cup {Nobody}, active : BOOLEAN,
                                      flag : BOOLEAN, subscribed : Seq(Addr)]]
          /\ \A p \in Places : Len(clients'[p].subscribed) <= MaxSubscribed
      BY <2>1, <2>2, <2>3, Z21Assumption DEF IInv, TypeOK
    <3>2. current' \in [place : Places \cup {0}, who : Clients \cup {Nobody}]
      BY <2>1, <2>2
    <3>. QED BY <1>1, <3>1, <3>2 DEF IInv, TypeOK
  <2>8. Attributed'
    BY <2>2, <2>4 DEF Attributed, here
  <2>9. Sessions'
    BY <1>1, <2>1, <2>4, <2>5 DEF IInv, Sessions, HasSession, Active
  <2>10. Strangers'
    BY <1>1, <2>1, <2>4 DEF IInv, Strangers, HasSession, Active
  <2>11. StopTruthful'
    <3>1. told[c].stop = Untold
      BY <2>6 DEF NothingTold
    <3>. QED BY <1>1, <2>1, <2>4, <3>1 DEF IInv, StopTruthful, Hears, Listening, Active
  <2>12. SubscriberTold'
    <3>1. ToSet(<<>>) = {}
      BY DEF ToSet
    <3>. QED BY <1>1, <2>1, <2>4, <3>1 DEF IInv, SubscriberTold, Hears, Listening, Active, IsSubscribed, Tracked
  <2>13. OwnSubscriptions'
    <3>1. ToSet(<<>>) = {} /\ DOMAIN <<>> = {}
      BY DEF ToSet
    <3>2. asked[c].last \notin Addr
      BY <2>6, Z21Assumption DEF NothingAsked
    <3>3. \A p, q \in Places : Active(p)' /\ Active(q)' /\ clients'[p].who = clients'[q].who => p = q
      BY <2>9 DEF Sessions
    <3>4. ASSUME NEW p \in Places, Active(p)'
          PROVE  /\ ToSet(clients'[p].subscribed) \subseteq asked'[clients'[p].who].locos
                 /\ asked'[clients'[p].who].last \in Addr
                      => asked'[clients'[p].who].last \in ToSet(clients'[p].subscribed)
                 /\ \A i, j \in DOMAIN clients'[p].subscribed :
                      clients'[p].subscribed[i] = clients'[p].subscribed[j] => i = j
      <4>1. CASE p = n
        BY <1>1, <2>4, <3>1, <3>2, <4>1
      <4>2. CASE p # n
        BY <1>1, <2>4, <3>4, <4>2 DEF IInv, OwnSubscriptions, Active
      <4>. QED BY <4>1, <4>2
    <3>. QED BY <3>3, <3>4 DEF OwnSubscriptions
  <2>. QED BY <2>7, <2>8, <2>9, <2>10, <2>11, <2>12, <2>13 DEF IInv
<1>. QED BY <1>2, <1>3, <1>4 DEF Packet

-----------------------------------------------------------------------------
(* A session ends by log-off or by silence: its client becomes a stranger. *)
LEMMA SessionEndKeeps ==
    ASSUME IInv, NEW p \in Places, Active(p), SessionEnds(p), ops' \in 0 .. MaxOps,
           UNCHANGED <<current, stopActive, table, turnouts, withheld>>
    PROVE  IInv'
<1> DEFINE w == clients[p].who
<1>1. w \in Clients /\ \A q \in Places : Active(q) /\ clients[q].who = w => q = p
  BY DEF IInv, Sessions
<1>2. /\ ~Active(p)' /\ clients'[p].who = w
      /\ \A q \in Places : clients'[q].who = clients[q].who
      /\ \A q \in Places \ {p} : clients'[q] = clients[q] /\ (Active(q)' <=> Active(q))
  BY DEF SessionEnds, Active, IInv, TypeOK
<1>3. /\ told'[w] = NothingTold /\ asked'[w] = NothingAsked /\ w \notin muted'
      /\ \A c \in Clients \ {w} : /\ told'[c] = told[c] /\ asked'[c] = asked[c]
                                  /\ c \in muted' <=> c \in muted
  BY <1>1 DEF SessionEnds, IInv, TypeOK
<1>4. ASSUME NEW q \in Places, Active(q)'
      PROVE  /\ q # p /\ Active(q) /\ clients'[q] = clients[q] /\ clients[q].who \in Clients \ {w}
             /\ told'[clients[q].who] = told[clients[q].who]
             /\ asked'[clients[q].who] = asked[clients[q].who]
             /\ clients[q].who \in muted' <=> clients[q].who \in muted
  <2>1. q # p /\ Active(q) /\ clients'[q] = clients[q]
    BY <1>2, <1>4
  <2>2. clients[q].who \in Clients \ {w}
    BY <1>1, <2>1 DEF IInv, Sessions
  <2>. QED BY <2>1, <2>2, <1>3
<1>5. TypeOK'
  <2>1. /\ clients' \in [Places -> [who : Clients \cup {Nobody}, active : BOOLEAN,
                                    flag : BOOLEAN, subscribed : Seq(Addr)]]
        /\ \A q \in Places : Len(clients'[q].subscribed) <= MaxSubscribed
    <3>1. /\ clients \in [Places -> [who : Clients \cup {Nobody}, active : BOOLEAN,
                                     flag : BOOLEAN, subscribed : Seq(Addr)]]
          /\ clients' = [clients EXCEPT ![p].active = FALSE]
          /\ \A q \in Places : Len(clients[q].subscribed) <= MaxSubscribed
      BY DEF SessionEnds, IInv, TypeOK
    <3>2. clients' \in [Places -> [who : Clients \cup {Nobody}, active : BOOLEAN,
                                  flag : BOOLEAN, subscribed : Seq(Addr)]]
      BY <3>1
    <3>3. \A q \in Places : clients'[q].subscribed = clients[q].subscribed
      BY <3>1
    <3>. QED BY <3>1, <3>2, <3>3
  <2>2. told' \in [Clients -> Told] /\ asked' \in [Clients -> Asked] /\ muted' \subseteq Clients
    BY DEF SessionEnds, IInv, TypeOK, NothingTold, NothingAsked, Told, Asked
  <2>. QED BY <2>1, <2>2 DEF IInv, TypeOK, Told, Asked
<1>6. Sessions'
  BY <1>4 DEF IInv, Sessions, Active
<1>7. Attributed'
  <2>1. ASSUME here # 0 PROVE here \in Places
    BY <2>1 DEF IInv, TypeOK, here
  <2>. QED BY <1>2, <2>1 DEF IInv, Attributed, here, Idle
<1>8. Strangers'
  <2>1. ASSUME NEW c \in Clients, ~HasSession(c)', c # w PROVE ~HasSession(c)
    BY <1>2, <2>1 DEF HasSession, Active
  <2>. QED BY <1>3, <2>1 DEF IInv, Strangers
<1>9. StopTruthful' /\ SubscriberTold'
  BY <1>4 DEF IInv, StopTruthful, SubscriberTold, Hears, Listening, Active, IsSubscribed, Tracked
<1>10. OwnSubscriptions'
  BY <1>4 DEF IInv, OwnSubscriptions, Active
<1>. QED BY <1>5, <1>6, <1>7, <1>8, <1>9, <1>10 DEF IInv

\* LAN_LOGOFF; a place given up earlier in the packet is not given up twice.
LEMMA LogoffKeeps == ASSUME IInv, Logoff PROVE IInv'
<1>1. ops' \in 0 .. MaxOps
  BY Z21Assumption DEF Logoff, DataSet, Operate, IInv, TypeOK
<1>2. CASE here = 0 \/ ~Active(here)
  <2>1. UNCHANGED <<clients, current, stopActive, table, turnouts, told, asked, muted, withheld>>
    BY <1>2 DEF Logoff
  <2>2. Sessions' /\ Attributed' /\ Strangers' /\ OwnSubscriptions'
    BY <2>1, SameSessions
  <2>3. TypeOK'
    BY <1>1, <2>1 DEF IInv, TypeOK
  <2>4. StopTruthful' /\ SubscriberTold'
    BY <2>1 DEF IInv, StopTruthful, SubscriberTold, Hears, Listening, Active, IsSubscribed, Tracked
  <2>. QED BY <2>2, <2>3, <2>4 DEF IInv
<1>3. CASE here # 0 /\ Active(here)
  <2>1. here \in Places
    BY <1>3 DEF IInv, TypeOK, here
  <2>2. SessionEnds(here) /\ UNCHANGED <<current, stopActive, table, turnouts, withheld>>
    BY <1>3 DEF Logoff
  <2>. QED BY <1>1, <1>3, <2>1, <2>2, SessionEndKeeps
<1>. QED BY <1>2, <1>3

LEMMA ExpireKeeps == ASSUME IInv, NEW p \in Places, Expire(p) PROVE IInv'
<1>1. /\ Active(p) /\ SessionEnds(p) /\ ops' \in 0 .. MaxOps
      /\ UNCHANGED <<current, stopActive, table, turnouts, withheld>>
  BY DEF Expire, IInv, TypeOK
<1>. QED BY <1>1, SessionEndKeeps

(* LAN_SET_BROADCASTFLAGS: who turns broadcasts off is muted for good, so  *)
(* nobody hears now who did not hear before.                               *)
LEMMA SetBroadcastFlagsKeeps == ASSUME IInv, NEW on \in BOOLEAN, SetBroadcastFlags(on) PROVE IInv'
<1>1. ops' \in 0 .. MaxOps /\ UNCHANGED <<current, stopActive, table, turnouts, told, asked, withheld>>
  BY Z21Assumption DEF SetBroadcastFlags, DataSet, Operate, IInv, TypeOK
<1>2. current # Idle /\ current.who \in Clients /\ (here # 0 => here \in Places /\ clients[here].who = current.who)
  BY DEF SetBroadcastFlags, DataSet, IInv, Attributed, TypeOK, here
<1>3. /\ \A q \in Places : /\ clients'[q].who = clients[q].who /\ clients'[q].active = clients[q].active
                           /\ clients'[q].subscribed = clients[q].subscribed
                           /\ q # here => clients'[q].flag = clients[q].flag
      /\ here # 0 => clients'[here].flag = on
      /\ clients' \in [Places -> [who : Clients \cup {Nobody}, active : BOOLEAN,
                                  flag : BOOLEAN, subscribed : Seq(Addr)]]
  <2>1. clients \in [Places -> [who : Clients \cup {Nobody}, active : BOOLEAN,
                                flag : BOOLEAN, subscribed : Seq(Addr)]]
    BY DEF IInv, TypeOK
  <2>2. CASE here = 0
    <3>1. clients' = clients /\ here \notin Places
      BY <2>2, ZeroIsNoPlace DEF SetBroadcastFlags
    <3>. QED BY <2>1, <2>2, <3>1
  <2>3. CASE here # 0
    <3>1. clients' = [clients EXCEPT ![here].flag = on] /\ here \in Places
      BY <1>2, <2>3 DEF SetBroadcastFlags
    <3> DEFINE h == here
    <3>2. clients' = [clients EXCEPT ![h].flag = on] /\ h \in Places
      BY <3>1
    <3> HIDE DEF h
    <3>3. /\ clients'[h] = [clients[h] EXCEPT !.flag = on]
          /\ \A q \in Places \ {h} : clients'[q] = clients[q]
      BY <2>1, <3>2
    <3>4. clients' \in [Places -> [who : Clients \cup {Nobody}, active : BOOLEAN,
                                  flag : BOOLEAN, subscribed : Seq(Addr)]]
      BY <2>1, <3>2
    <3>5. /\ clients'[h].who = clients[h].who /\ clients'[h].active = clients[h].active
          /\ clients'[h].subscribed = clients[h].subscribed /\ clients'[h].flag = on
      BY <2>1, <3>2, <3>3
    <3>. QED BY <3>2, <3>3, <3>4, <3>5 DEF h
  <2>. QED BY <2>2, <2>3
<1>4. /\ on \/ here = 0 \/ ~Active(here) => muted' = muted
      /\ ~on /\ here # 0 /\ Active(here) => muted' = muted \cup {current.who}
  BY DEF SetBroadcastFlags
<1>5. muted \subseteq muted' /\ muted' \subseteq Clients
  BY <1>2, <1>4 DEF IInv, TypeOK
<1>6. \A q \in Places : Active(q)' <=> Active(q)
  BY <1>3 DEF Active
<1>7. TypeOK'
  BY <1>1, <1>3, <1>5 DEF IInv, TypeOK
<1>8. Sessions'
  <2>1. ASSUME NEW q \in Places, Active(q), ~clients'[q].flag PROVE clients[q].who \in muted'
    <3>1. CASE q # here
      BY <1>3, <1>5, <2>1, <3>1 DEF IInv, Sessions
    <3>2. CASE q = here
      <4>1. here # 0
        BY <3>2, ZeroIsNoPlace
      <4>. QED BY <1>2, <1>3, <1>4, <2>1, <3>2, <4>1
    <3>. QED BY <3>1, <3>2
  <2>. QED BY <1>3, <1>6, <2>1 DEF IInv, Sessions
<1>9. Attributed'
  BY <1>1, <1>2, <1>3 DEF Attributed, here
<1>10. \A c \in Clients : HasSession(c)' <=> HasSession(c)
  BY <1>3, <1>6 DEF HasSession
<1>11. Strangers'
  <2>1. \A c \in Clients : ~HasSession(c) => c \notin muted'
    BY <1>2, <1>4 DEF IInv, Strangers, HasSession
  <2>. QED BY <1>1, <1>10, <2>1 DEF IInv, Strangers
<1>12. \A q \in Places : Hears(q)' => Hears(q)
  <2>1. ASSUME NEW q \in Places, Hears(q)' PROVE Hears(q)
    <3>1. Active(q) /\ clients[q].who \notin muted
      BY <1>3, <1>5, <1>6, <2>1 DEF Hears, Listening
    <3>2. clients[q].flag
      BY <3>1 DEF IInv, Sessions
    <3>. QED BY <3>1, <3>2 DEF Hears, Listening
  <2>. QED BY <2>1
<1>13. StopTruthful' /\ SubscriberTold'
  BY <1>1, <1>3, <1>12 DEF IInv, StopTruthful, SubscriberTold, IsSubscribed, Tracked
<1>14. OwnSubscriptions'
  BY ZenonT(40), <1>1, <1>3, <1>6 DEF IInv, OwnSubscriptions
<1>. QED BY <1>7, <1>8, <1>9, <1>11, <1>13, <1>14 DEF IInv

-----------------------------------------------------------------------------
(* LAN_X_GET_LOCO_INFO: the loco joins the list, whoever it pushes out, and *)
(* its state is sent with the reply.                                       *)
LEMMA GetLocoInfoKeeps == ASSUME IInv, NEW a \in Addr, GetLocoInfo(a) PROVE IInv'
<1> DEFINE st == State(a)
           info == LocoInfo(a, st)
<1>1. /\ ops' \in 0 .. MaxOps
      /\ UNCHANGED <<current, stopActive, table, turnouts, muted, withheld>>
  BY Z21Assumption DEF GetLocoInfo, DataSet, Operate, IInv, TypeOK
<1>2. current # Idle /\ current.who \in Clients /\ (here # 0 => here \in Places /\ clients[here].who = current.who)
  BY DEF GetLocoInfo, DataSet, IInv, Attributed, TypeOK, here
<1>3. st \in Locos /\ (Tracked(a) => st = table[a])
  BY Z21Assumption DEF State, Tracked, Placeholder, IInv, TypeOK
<1>4. /\ info \in [Clients -> Told]
      /\ \A c \in Clients : /\ info[c].loco[a] = st /\ info[c].stop = told[c].stop
                            /\ \A b \in Addr \ {a} : info[c].loco[b] = told[c].loco[b]
  BY <1>3, Contents DEF IInv
<1>5. told' = Reply(info)
  BY DEF GetLocoInfo, State
<1> HIDE DEF info, st
<1>6. /\ told' \in [Clients -> Told]
      /\ \A c \in Clients : told'[c] \in {told[c], info[c]} /\ (~HasSession(c) => told'[c] = told[c])
      /\ here # 0 /\ Active(here) => told'[clients[here].who] = info[clients[here].who]
  BY <1>4, <1>5, Replied DEF IInv
<1>7. /\ clients' \in [Places -> [who : Clients \cup {Nobody}, active : BOOLEAN,
                                  flag : BOOLEAN, subscribed : Seq(Addr)]]
      /\ \A q \in Places : /\ clients'[q].who = clients[q].who /\ clients'[q].active = clients[q].active
                           /\ clients'[q].flag = clients[q].flag
                           /\ q # here => clients'[q].subscribed = clients[q].subscribed
      /\ here # 0 => clients'[here].subscribed = Subscribed(clients[here].subscribed, a)
  <2>1. clients \in [Places -> [who : Clients \cup {Nobody}, active : BOOLEAN,
                                flag : BOOLEAN, subscribed : Seq(Addr)]]
    BY DEF IInv, TypeOK
  <2>2. CASE here = 0
    <3>1. clients' = clients /\ here \notin Places
      BY <2>2, ZeroIsNoPlace DEF GetLocoInfo
    <3>. QED BY <2>1, <2>2, <3>1
  <2>3. CASE here # 0
    <3> DEFINE h == here
               list == Subscribed(clients[h].subscribed, a)
    <3>1. clients' = [clients EXCEPT ![h].subscribed = list] /\ h \in Places
      BY <1>2, <2>3 DEF GetLocoInfo
    <3>2. list \in Seq(Addr)
      BY <2>1, <3>1, SubscribedList DEF IInv, TypeOK
    <3> HIDE DEF h, list
    <3>3. /\ clients'[h] = [clients[h] EXCEPT !.subscribed = list]
          /\ \A q \in Places \ {h} : clients'[q] = clients[q]
      BY <2>1, <3>1
    <3>4. /\ clients'[h].who = clients[h].who /\ clients'[h].active = clients[h].active
          /\ clients'[h].flag = clients[h].flag /\ clients'[h].subscribed = list
      BY <2>1, <3>1, <3>3
    <3>5. clients' \in [Places -> [who : Clients \cup {Nobody}, active : BOOLEAN,
                                  flag : BOOLEAN, subscribed : Seq(Addr)]]
      BY <2>1, <3>1, <3>2
    <3>. QED BY <3>1, <3>3, <3>4, <3>5 DEF h, list
  <2>. QED BY <2>2, <2>3
<1>8. \A q \in Places : Active(q)' <=> Active(q)
  BY <1>7 DEF Active
<1>9. ASSUME here # 0
      PROVE  LET old == clients[here].subscribed
                 new == clients'[here].subscribed
             IN  /\ new \in Seq(Addr) /\ Len(new) <= MaxSubscribed
                 /\ ToSet(new) \subseteq ToSet(old) \cup {a} /\ a \in ToSet(new)
                 /\ (\A i, j \in DOMAIN old : old[i] = old[j] => i = j) =>
                        \A i, j \in DOMAIN new : new[i] = new[j] => i = j
  <2>1. clients[here].subscribed \in Seq(Addr) /\ Len(clients[here].subscribed) <= MaxSubscribed
    BY <1>2, <1>9 DEF IInv, TypeOK
  <2> DEFINE list == clients[here].subscribed
             longer == clients'[here].subscribed
  <2>2. list \in Seq(Addr) /\ Len(list) <= MaxSubscribed /\ longer = Subscribed(list, a)
    BY <1>7, <1>9, <2>1
  <2> HIDE DEF list, longer
  <2>3. /\ longer \in Seq(Addr) /\ Len(longer) <= MaxSubscribed
        /\ ToSet(longer) \subseteq ToSet(list) \cup {a} /\ a \in ToSet(longer)
        /\ (\A i, j \in DOMAIN list : list[i] = list[j] => i = j) =>
               \A i, j \in DOMAIN longer : longer[i] = longer[j] => i = j
    BY <2>2, SubscribedList
  <2>. QED BY <2>3 DEF list, longer
<1>10. /\ asked' \in [Clients -> Asked]
       /\ \A c \in Clients : c # current.who \/ here = 0 \/ ~Active(here) => asked'[c] = asked[c]
       /\ here # 0 /\ Active(here) => /\ asked'[current.who].locos = asked[current.who].locos \cup {a}
                                      /\ asked'[current.who].last = a
  <2>1. asked \in [Clients -> Asked]
    BY DEF IInv, TypeOK, Asked
  <2>2. CASE here = 0 \/ ~Active(here)
    BY <2>1, <2>2 DEF GetLocoInfo
  <2>3. CASE here # 0 /\ Active(here)
    <3> DEFINE w == current.who
    <3>1. asked' = [asked EXCEPT ![w] = [locos |-> @.locos \cup {a}, last |-> a]] /\ w \in Clients
      BY <1>2, <2>3 DEF GetLocoInfo
    <3> HIDE DEF w
    <3>2. asked'[w] = [locos |-> asked[w].locos \cup {a}, last |-> a]
      BY <2>1, <3>1
    <3>3. asked'[w] \in Asked
      BY <2>1, <3>1, <3>2 DEF Asked
    <3>. QED BY <2>1, <2>3, <3>1, <3>2, <3>3 DEF w
  <2>. QED BY <2>2, <2>3
<1>11. TypeOK'
  <2>1. \A q \in Places : Len(clients'[q].subscribed) <= MaxSubscribed
    BY ZenonT(40), <1>7, <1>9, ZeroIsNoPlace DEF IInv, TypeOK
  <2>. QED BY <1>1, <1>6, <1>7, <1>10, <2>1 DEF IInv, TypeOK, Told, Asked
<1>12. Sessions'
  BY <1>1, <1>7, <1>8 DEF IInv, Sessions
<1>13. Attributed'
  BY <1>1, <1>2, <1>7 DEF Attributed, here
<1>14. Strangers'
  <2>1. \A c \in Clients : HasSession(c)' <=> HasSession(c)
    BY <1>7, <1>8 DEF HasSession
  <2>2. \A c \in Clients : ~HasSession(c) => asked'[c] = asked[c]
    BY <1>2, <1>10 DEF HasSession
  <2>. QED BY <1>1, <1>6, <2>1, <2>2 DEF IInv, Strangers
<1>15. \A q \in Places : Hears(q)' => Hears(q) /\ Active(q) /\ clients[q].who \in Clients
  BY <1>1, <1>7, <1>8 DEF Hears, Listening, IInv, Sessions
<1>16. StopTruthful'
  <2>1. \A c \in Clients : told'[c].stop = told[c].stop
    BY <1>4, <1>6
  <2>. QED BY <1>1, <1>7, <1>15, <2>1 DEF IInv, StopTruthful
<1>17. SubscriberTold'
  <2>1. ASSUME NEW q \in Places, NEW b \in Addr, Hears(q)', IsSubscribed(q, b)', Tracked(b)', b \notin withheld'
        PROVE  told'[clients'[q].who].loco[b] = table'[b]
    <3> DEFINE w == clients[q].who
    <3>1. Hears(q) /\ Active(q) /\ w \in Clients /\ clients'[q].who = w
      BY <1>7, <1>15, <2>1
    <3>2. Tracked(b) /\ table'[b] = table[b] /\ b \notin withheld
      BY <1>1, <2>1 DEF Tracked
    <3>3. CASE IsSubscribed(q, b)
      <4>1. told[w].loco[b] = table[b]
        BY <3>1, <3>2, <3>3 DEF IInv, SubscriberTold
      <4>2. info[w].loco[b] = table[b]
        BY <1>3, <1>4, <3>1, <3>2, <4>1
      <4>. QED BY <1>6, <3>1, <3>2, <4>1, <4>2
    <3>4. CASE ~IsSubscribed(q, b)
      <4>1. q = here /\ here # 0
        BY <1>7, <2>1, <3>4, ZeroIsNoPlace DEF IsSubscribed
      <4>2. b = a
        BY <1>9, <2>1, <3>4, <4>1 DEF IsSubscribed
      <4>3. told'[w] = info[w]
        BY <1>6, <3>1, <4>1
      <4>. QED BY <1>3, <1>4, <3>1, <3>2, <4>2, <4>3
    <3>. QED BY <3>3, <3>4
  <2>. QED BY <2>1 DEF SubscriberTold
<1>18. OwnSubscriptions'
  <2>1. ASSUME NEW q \in Places, Active(q)
        PROVE  /\ ToSet(clients'[q].subscribed) \subseteq asked'[clients'[q].who].locos
               /\ asked'[clients'[q].who].last \in Addr
                    => asked'[clients'[q].who].last \in ToSet(clients'[q].subscribed)
               /\ \A i, j \in DOMAIN clients'[q].subscribed :
                    clients'[q].subscribed[i] = clients'[q].subscribed[j] => i = j
    <3> DEFINE list == clients[q].subscribed
               w == clients[q].who
    <3>1. /\ ToSet(list) \subseteq asked[w].locos /\ (asked[w].last \in Addr => asked[w].last \in ToSet(list))
          /\ \A i, j \in DOMAIN list : list[i] = list[j] => i = j
      BY <2>1 DEF IInv, OwnSubscriptions
    <3>2. w \in Clients /\ clients'[q].who = w
      BY <1>7, <2>1 DEF IInv, Sessions
    <3>3. CASE q # here
      <4>1. clients'[q].subscribed = list
        BY <1>7, <3>3
      <4>2. w # current.who \/ here = 0 \/ ~Active(here)
        BY <1>2, <2>1, <3>3 DEF IInv, Sessions
      <4>3. asked'[w] = asked[w]
        BY <1>10, <3>2, <4>2
      <4>. QED BY <3>1, <3>2, <4>1, <4>3
    <3>4. CASE q = here
      <4>1. here # 0
        BY <3>4, ZeroIsNoPlace
      <4>2. w = current.who
        BY <1>2, <3>4, <4>1
      <4>. QED BY <1>9, <1>10, <2>1, <3>1, <3>2, <3>4, <4>1, <4>2
    <3>. QED BY <3>3, <3>4
  <2>2. \A p, q \in Places : Active(p)' /\ Active(q)' /\ clients'[q].who = clients'[p].who => q = p
    BY <1>7, <1>8 DEF IInv, Sessions
  <2>. QED BY <1>8, <2>1, <2>2 DEF OwnSubscriptions
<1>. QED BY <1>11, <1>12, <1>13, <1>14, <1>16, <1>17, <1>18 DEF IInv

-----------------------------------------------------------------------------
(* What is left to show of a step that changes no session.                 *)
LEMMA KeepsInSessions ==
    ASSUME IInv, UNCHANGED <<clients, current, asked, muted>>,
           told' \in [Clients -> Told], \A c \in Clients : ~HasSession(c) => told'[c] = told[c],
           table' \in [Addr -> Locos \cup {Unknown}],
           turnouts' \in [Turnouts -> BOOLEAN \cup {Unknown}],
           stopActive' \in BOOLEAN, withheld' \subseteq Addr, ops' \in 0 .. MaxOps,
           \A p \in Places : Hears(p) /\ told'[clients[p].who].stop # Untold
                => told'[clients[p].who].stop = stopActive',
           \A p \in Places, a \in Addr :
                Hears(p) /\ IsSubscribed(p, a) /\ table'[a] # Unknown /\ a \notin withheld'
                    => told'[clients[p].who].loco[a] = table'[a]
    PROVE  IInv'
<1>1. Sessions' /\ Attributed' /\ Strangers' /\ OwnSubscriptions'
  BY SameSessions
<1>2. TypeOK'
  BY DEF IInv, TypeOK, Told
<1>3. \A p \in Places : Hears(p)' <=> Hears(p)
  BY DEF Hears, Listening, Active
<1>4. StopTruthful'
  BY <1>3 DEF StopTruthful
<1>5. SubscriberTold'
  BY <1>3 DEF SubscriberTold, IsSubscribed, Tracked
<1>. QED BY <1>1, <1>2, <1>4, <1>5 DEF IInv

\* The type of each variable, for a step that changes some of them.
LEMMA Types ==
    ASSUME IInv
    PROVE  /\ told \in [Clients -> Told] /\ table \in [Addr -> Locos \cup {Unknown}]
           /\ turnouts \in [Turnouts -> BOOLEAN \cup {Unknown}]
           /\ stopActive \in BOOLEAN /\ withheld \subseteq Addr /\ ops \in 0 .. MaxOps
           /\ Operate => ops' \in 0 .. MaxOps
           /\ \A p \in Places : Hears(p) => Listening(p) /\ clients[p].who \in Clients
           /\ \A p \in Places : Hears(p) /\ told[clients[p].who].stop # Untold
                => told[clients[p].who].stop = stopActive
           /\ \A p \in Places, a \in Addr :
                Hears(p) /\ IsSubscribed(p, a) /\ table[a] # Unknown /\ a \notin withheld
                    => told[clients[p].who].loco[a] = table[a]
<1>1. /\ told \in [Clients -> Told] /\ table \in [Addr -> Locos \cup {Unknown}]
      /\ turnouts \in [Turnouts -> BOOLEAN \cup {Unknown}]
      /\ stopActive \in BOOLEAN /\ withheld \subseteq Addr /\ ops \in 0 .. MaxOps
  BY DEF IInv, TypeOK, Told
<1>2. Operate => ops' \in 0 .. MaxOps
  BY <1>1, Z21Assumption DEF Operate
<1>3. \A p \in Places : Hears(p) => Listening(p) /\ clients[p].who \in Clients
  BY DEF Hears, Listening, IInv, Sessions
<1>4. \A p \in Places : Hears(p) /\ told[clients[p].who].stop # Untold
                => told[clients[p].who].stop = stopActive
  BY DEF IInv, StopTruthful
<1>5. \A p \in Places, a \in Addr :
          Hears(p) /\ IsSubscribed(p, a) /\ table[a] # Unknown /\ a \notin withheld
              => told[clients[p].who].loco[a] = table[a]
  BY DEF IInv, SubscriberTold, Tracked
<1>. QED BY <1>1, <1>2, <1>3, <1>4, <1>5

(* The router takes a command for a loco, of a Z21 client or of another    *)
(* throttle, and everyone subscribed hears of it.                          *)
LEMMA LocoChangeKeeps ==
    ASSUME IInv, NEW a \in Addr, NEW st \in Locos, Operate,
           UNCHANGED <<clients, current, stopActive, turnouts, asked, muted>>,
           table' = [table EXCEPT ![a] = st], told' = BroadcastLocoInfo(a, st),
           withheld' = withheld \ {a}
    PROVE  IInv'
<1> DEFINE sent == BroadcastLocoInfo(a, st)
<1>1. /\ sent \in [Clients -> Told]
      /\ \A c \in Clients :
           /\ sent[c].stop = told[c].stop
           /\ \A b \in Addr \ {a} : sent[c].loco[b] = told[c].loco[b]
           /\ ~HasSession(c) => sent[c] = told[c]
      /\ \A p \in Places : Listening(p) /\ IsSubscribed(p, a) => sent[clients[p].who].loco[a] = st
  BY LocoBroadcast DEF IInv
<1>2. told' = sent
  OBVIOUS
<1> HIDE DEF sent
<1>3. /\ table' \in [Addr -> Locos \cup {Unknown}] /\ table'[a] = st
      /\ \A b \in Addr \ {a} : table'[b] = table[b]
  BY Types
<1>4. \A p \in Places : Hears(p) /\ told'[clients[p].who].stop # Untold
          => told'[clients[p].who].stop = stopActive'
  BY <1>1, <1>2, Types
<1>5. \A p \in Places, b \in Addr :
          Hears(p) /\ IsSubscribed(p, b) /\ table'[b] # Unknown /\ b \notin withheld'
              => told'[clients[p].who].loco[b] = table'[b]
  BY <1>1, <1>2, <1>3, Types
<1>6. /\ stopActive' \in BOOLEAN /\ withheld' \subseteq Addr /\ ops' \in 0 .. MaxOps
      /\ turnouts' \in [Turnouts -> BOOLEAN \cup {Unknown}]
  BY Types
<1>7. told' \in [Clients -> Told] /\ \A c \in Clients : ~HasSession(c) => told'[c] = told[c]
  BY <1>1, <1>2
<1>. QED BY <1>3, <1>4, <1>5, <1>6, <1>7, KeepsInSessions

LEMMA CommandedKeeps == ASSUME IInv, NEW a \in Addr, NEW st \in Locos, Commanded(a, st) PROVE IInv'
<1>1. UNCHANGED <<clients, current, stopActive, turnouts, asked, muted>> /\ Operate
  BY DEF Commanded, DataSet
<1>2. CASE /\ table' = [table EXCEPT ![a] = st] /\ told' = Confirmed(a, st)
           /\ withheld' = withheld \ {a}
  BY <1>1, <1>2, LocoChangeKeeps DEF Confirmed
<1>3. CASE UNCHANGED <<table, told, withheld>>
  BY <1>1, <1>3, Types, KeepsInSessions
<1>. QED BY <1>2, <1>3 DEF Commanded

LEMMA StateType == ASSUME IInv, NEW a \in Addr PROVE State(a) \in Locos /\ State(a).fns \subseteq Fns
<1>1. State(a) \in Locos
  BY Z21Assumption DEF State, Tracked, Placeholder, IInv, TypeOK
<1>. QED BY <1>1, Z21Assumption

LEMMA SetLocoFunctionKeeps ==
    ASSUME IInv, NEW a \in Addr, NEW f \in Fns, SetLocoFunction(a, f) PROVE IInv'
<1>1. ASSUME NEW F \in SUBSET Fns PROVE [State(a) EXCEPT !.fns = F] \in Locos
  BY StateType, Z21Assumption
<1>2. PICK F \in SUBSET Fns : Commanded(a, [State(a) EXCEPT !.fns = F])
  BY StateType DEF SetLocoFunction
<1>. QED BY <1>1, <1>2, CommandedKeeps

\* What ECoS changed and the router kept from Z21, and a loco it forgot.
LEMMA ChangedUnheardKeeps ==
    ASSUME IInv, NEW a \in Addr, NEW st \in Locos, ChangedUnheard(a, st) PROVE IInv'
<1>1. /\ UNCHANGED <<clients, current, stopActive, turnouts, told, asked, muted>> /\ Operate
      /\ table' = [table EXCEPT ![a] = st] /\ withheld' = withheld \cup {a}
  BY DEF ChangedUnheard, Others
<1>2. table' \in [Addr -> Locos \cup {Unknown}] /\ \A b \in Addr \ {a} : table'[b] = table[b]
  BY <1>1, Types
<1>3. \A p \in Places, b \in Addr :
          Hears(p) /\ IsSubscribed(p, b) /\ table'[b] # Unknown /\ b \notin withheld'
              => told'[clients[p].who].loco[b] = table'[b]
  BY <1>1, <1>2, Types
<1>. QED BY <1>1, <1>2, <1>3, Types, KeepsInSessions

LEMMA ForgetKeeps == ASSUME IInv, NEW a \in Addr, Forget(a) PROVE IInv'
<1>1. /\ UNCHANGED <<clients, current, stopActive, turnouts, told, asked, muted, withheld>> /\ Operate
      /\ table' = [table EXCEPT ![a] = Unknown]
  BY DEF Forget, Others
<1>2. /\ table' \in [Addr -> Locos \cup {Unknown}] /\ table'[a] = Unknown
      /\ \A b \in Addr \ {a} : table'[b] = table[b]
  BY <1>1, Types
<1>3. \A p \in Places, b \in Addr :
          Hears(p) /\ IsSubscribed(p, b) /\ table'[b] # Unknown /\ b \notin withheld'
              => told'[clients[p].who].loco[b] = table'[b]
  BY <1>1, <1>2, Types
<1>. QED BY <1>1, <1>2, <1>3, Types, KeepsInSessions

-----------------------------------------------------------------------------
\* Turnouts, and the replies about them, touch neither locos nor the stop.
LEMMA TurnoutsKeep ==
    ASSUME IInv, Operate, turnouts' \in [Turnouts -> BOOLEAN \cup {Unknown}],
           UNCHANGED <<clients, current, stopActive, table, asked, muted, withheld>>,
           told' \in [Clients -> Told],
           \A c \in Clients : /\ told'[c].loco = told[c].loco /\ told'[c].stop = told[c].stop
                              /\ ~HasSession(c) => told'[c] = told[c]
    PROVE  IInv'
<1>1. \A p \in Places : Hears(p) /\ told'[clients[p].who].stop # Untold
          => told'[clients[p].who].stop = stopActive'
  BY Types
<1>2. \A p \in Places, b \in Addr :
          Hears(p) /\ IsSubscribed(p, b) /\ table'[b] # Unknown /\ b \notin withheld'
              => told'[clients[p].who].loco[b] = table'[b]
  BY Types
<1>. QED BY <1>1, <1>2, Types, KeepsInSessions

LEMMA WireOfTurnout == ASSUME NEW t \in Turnouts PROVE t - 1 \in Nat /\ (t - 1) + 1 = t /\ t \in Nat
BY Z21Assumption

LEMMA SetTurnoutKeeps ==
    ASSUME IInv, NEW t \in Turnouts, NEW d \in BOOLEAN, SetTurnout(t - 1, d) PROVE IInv'
<1>1. turnouts' = [turnouts EXCEPT ![t] = d] /\ Operate
  BY WireOfTurnout DEF SetTurnout, DataSet
<1>2. UNCHANGED <<clients, current, stopActive, table, told, asked, muted, withheld>>
  BY DEF SetTurnout
<1>3. turnouts' \in [Turnouts -> BOOLEAN \cup {Unknown}]
  BY <1>1, Types
<1>. QED BY <1>1, <1>2, <1>3, Types, TurnoutsKeep

LEMMA GetTurnoutInfoKeeps == ASSUME IInv, NEW t \in Turnouts, GetTurnoutInfo(t - 1) PROVE IInv'
<1> DEFINE what == TurnoutInfo(t - 1, Known(t - 1))
<1>1. /\ Operate /\ told' \in {told, Reply(what)}
      /\ UNCHANGED <<clients, current, stopActive, table, turnouts, asked, muted, withheld>>
  BY DEF GetTurnoutInfo, DataSet
<1>2. Known(t - 1) \in BOOLEAN
  BY DEF Known
<1>3. /\ what \in [Clients -> Told]
      /\ \A c \in Clients : what[c].stop = told[c].stop /\ what[c].loco = told[c].loco
  BY <1>2, WireOfTurnout, Contents DEF IInv
<1> HIDE DEF what
<1>4. /\ Reply(what) \in [Clients -> Told]
      /\ \A c \in Clients : /\ Reply(what)[c] \in {told[c], what[c]}
                            /\ ~HasSession(c) => Reply(what)[c] = told[c]
  BY <1>3, Replied DEF IInv
<1>5. /\ told' \in [Clients -> Told]
      /\ \A c \in Clients : /\ told'[c].loco = told[c].loco /\ told'[c].stop = told[c].stop
                            /\ ~HasSession(c) => told'[c] = told[c]
  BY <1>1, <1>3, <1>4, Types
<1>. QED BY <1>1, <1>5, Types, TurnoutsKeep

LEMMA OthersTurnoutKeeps ==
    ASSUME IInv, NEW t \in Turnouts, NEW d \in BOOLEAN, OthersTurnout(t, d) PROVE IInv'
<1>1. /\ Operate /\ turnouts' = [turnouts EXCEPT ![t] = d] /\ told' = BroadcastTurnout(t, d)
      /\ UNCHANGED <<clients, current, stopActive, table, asked, muted, withheld>>
  BY DEF OthersTurnout, Others
<1>2. turnouts' \in [Turnouts -> BOOLEAN \cup {Unknown}]
  BY <1>1, Types
<1>3. /\ told' \in [Clients -> Told]
      /\ \A c \in Clients : /\ told'[c].loco = told[c].loco /\ told'[c].stop = told[c].stop
                            /\ ~HasSession(c) => told'[c] = told[c]
  BY <1>1, WireOfTurnout, TurnoutBroadcast DEF IInv
<1>. QED BY <1>1, <1>2, <1>3, TurnoutsKeep

-----------------------------------------------------------------------------
\* What the handlers of a stop leave of the loco table.
LEMMA StoppedTableType ==
    ASSUME IInv
    PROVE  /\ StoppedTable \in [Addr -> Locos \cup {Unknown}]
           /\ \A a \in Addr : /\ Tracked(a) => StoppedTable[a] \in Locos
                              /\ ~Tracked(a) => StoppedTable[a] = Unknown
<1>1. ASSUME NEW a \in Addr
      PROVE  /\ Tracked(a) => [table[a] EXCEPT !.speed = 0] \in Locos
  BY Z21Assumption, Types DEF Tracked
<1>. QED BY <1>1 DEF StoppedTable

(* Every loco of the table stops, its subscribers hear of each, and every  *)
(* listener hears of the stop.                                             *)
LEMMA StopEverythingKeeps ==
    ASSUME IInv, Operate, StopEverything, UNCHANGED <<clients, current, turnouts, asked, muted>>
    PROVE  IInv'
<1> DEFINE stop == StopTold(TRUE)
           sent(a) == BroadcastLocoInfo(a, StoppedTable[a])
           locos(c) == [a \in Addr |-> IF Tracked(a) THEN sent(a)[c].loco[a] ELSE stop[c].loco[a]]
<1>1. /\ table' = StoppedTable /\ stopActive' = TRUE /\ withheld' = {a \in withheld : ~Tracked(a)}
      /\ told' = [c \in Clients |-> [stop[c] EXCEPT !.loco = locos(c)]]
  BY DEF StopEverything
<1>2. /\ stop \in [Clients -> Told]
      /\ \A c \in Clients : /\ stop[c].loco = told[c].loco
                            /\ ~HasSession(c) => stop[c] = told[c]
      /\ \A p \in Places : Listening(p) => stop[clients[p].who].stop = TRUE
  BY StopBroadcast DEF IInv
<1>3. ASSUME NEW a \in Addr, Tracked(a)
      PROVE  /\ sent(a) \in [Clients -> Told]
             /\ \A c \in Clients : ~HasSession(c) => sent(a)[c] = told[c]
             /\ \A p \in Places : Listening(p) /\ IsSubscribed(p, a)
                    => sent(a)[clients[p].who].loco[a] = StoppedTable[a]
  BY <1>3, StoppedTableType, LocoBroadcast DEF IInv
<1> HIDE DEF stop, sent
<1>4. ASSUME NEW c \in Clients PROVE locos(c) \in [Addr -> Locos \cup {Untold}]
  <2>1. ASSUME NEW a \in Addr, Tracked(a) PROVE sent(a)[c].loco[a] \in Locos \cup {Untold}
    BY <1>3, <2>1 DEF Told
  <2>2. ASSUME NEW a \in Addr PROVE stop[c].loco[a] \in Locos \cup {Untold}
    BY <1>2 DEF Told
  <2>. QED BY <2>1, <2>2
<1>5. ASSUME NEW c \in Clients, ~HasSession(c) PROVE locos(c) = stop[c].loco
  <2>1. ASSUME NEW a \in Addr, Tracked(a) PROVE sent(a)[c].loco[a] = stop[c].loco[a]
    BY <1>2, <1>3, <1>5, <2>1
  <2>2. stop[c].loco \in [Addr -> Locos \cup {Untold}]
    BY <1>2 DEF Told
  <2>. QED BY <2>1, <2>2
<1>6. \A c \in Clients, a \in Addr : Tracked(a) => locos(c)[a] = sent(a)[c].loco[a]
  OBVIOUS
<1> HIDE DEF locos
<1>7. /\ told' \in [Clients -> Told]
      /\ \A c \in Clients : told'[c].loco = locos(c) /\ told'[c].stop = stop[c].stop
  BY ZenonT(40), <1>1, <1>2, <1>4 DEF Told
<1>8. ASSUME NEW c \in Clients, ~HasSession(c) PROVE told'[c] = told[c]
  <2>1. stop[c] \in Told /\ stop[c] = told[c]
    BY <1>2, <1>8
  <2>2. told'[c] = [stop[c] EXCEPT !.loco = stop[c].loco]
    BY <1>1, <1>5, <1>8
  <2>. QED BY <2>1, <2>2 DEF Told
<1>9. ASSUME NEW p \in Places, Hears(p) PROVE told'[clients[p].who].stop = stopActive'
  BY <1>1, <1>2, <1>7, <1>9, Types
<1>10. ASSUME NEW p \in Places, NEW a \in Addr, Hears(p), IsSubscribed(p, a), table'[a] # Unknown
       PROVE  told'[clients[p].who].loco[a] = table'[a]
  <2>1. Tracked(a)
    BY <1>1, <1>10, StoppedTableType
  <2>2. Listening(p) /\ clients[p].who \in Clients
    BY <1>10, Types
  <2>3. told'[clients[p].who].loco[a] = sent(a)[clients[p].who].loco[a]
    BY <1>6, <1>7, <2>1, <2>2
  <2>. QED BY <1>1, <1>3, <1>10, <2>1, <2>2, <2>3
<1>11. /\ table' \in [Addr -> Locos \cup {Unknown}] /\ stopActive' \in BOOLEAN
       /\ turnouts' \in [Turnouts -> BOOLEAN \cup {Unknown}]
       /\ withheld' \subseteq Addr /\ ops' \in 0 .. MaxOps
  BY <1>1, StoppedTableType, Types
<1>. QED BY <1>7, <1>8, <1>9, <1>10, <1>11, KeepsInSessions

\* Track power comes back, and every listener hears that.
LEMMA ResumeKeeps ==
    ASSUME IInv, Operate, stopActive' = FALSE, told' = StopTold(FALSE),
           UNCHANGED <<clients, current, table, turnouts, asked, muted, withheld>>
    PROVE  IInv'
<1> DEFINE sent == StopTold(FALSE)
<1>1. /\ sent \in [Clients -> Told]
      /\ \A c \in Clients : sent[c].loco = told[c].loco /\ (~HasSession(c) => sent[c] = told[c])
      /\ \A p \in Places : Listening(p) => sent[clients[p].who].stop = FALSE
  BY StopBroadcast DEF IInv
<1>2. told' = sent
  OBVIOUS
<1> HIDE DEF sent
<1>3. \A p \in Places : Hears(p) => told'[clients[p].who].stop = stopActive'
  BY <1>1, <1>2, Types
<1>4. \A p \in Places, a \in Addr :
          Hears(p) /\ IsSubscribed(p, a) /\ table'[a] # Unknown /\ a \notin withheld'
              => told'[clients[p].who].loco[a] = table'[a]
  <2>1. \A c \in Clients : told'[c].loco = told[c].loco
    BY <1>1, <1>2
  <2>2. UNCHANGED <<table, withheld>>
    OBVIOUS
  <2>. QED BY ONLY <2>1, <2>2, Types, IInv
<1>5. told' \in [Clients -> Told] /\ \A c \in Clients : ~HasSession(c) => told'[c] = told[c]
  BY <1>1, <1>2
<1>. QED BY <1>3, <1>4, <1>5, Types, KeepsInSessions

LEMMA GetStatusKeeps == ASSUME IInv, GetStatus PROVE IInv'
<1> DEFINE what == StopInfo(stopActive)
<1>1. /\ Operate /\ told' = Reply(what)
      /\ UNCHANGED <<clients, current, stopActive, table, turnouts, asked, muted, withheld>>
  BY DEF GetStatus, DataSet
<1>2. /\ what \in [Clients -> Told]
      /\ \A c \in Clients : what[c].stop = stopActive /\ what[c].loco = told[c].loco
  BY Types, Contents DEF IInv
<1> HIDE DEF what
<1>3. /\ Reply(what) \in [Clients -> Told]
      /\ \A c \in Clients : /\ Reply(what)[c] \in {told[c], what[c]}
                            /\ ~HasSession(c) => Reply(what)[c] = told[c]
  BY <1>2, Replied DEF IInv
<1>4. \A p \in Places : Hears(p) /\ told'[clients[p].who].stop # Untold
          => told'[clients[p].who].stop = stopActive'
  BY <1>1, <1>2, <1>3, Types
<1>5. \A p \in Places, a \in Addr :
          Hears(p) /\ IsSubscribed(p, a) /\ table'[a] # Unknown /\ a \notin withheld'
              => told'[clients[p].who].loco[a] = table'[a]
  <2>1. \A c \in Clients : told'[c].loco = told[c].loco
    BY <1>1, <1>2, <1>3
  <2>. QED BY <1>1, <2>1, Types
<1>. QED BY <1>1, <1>3, <1>4, <1>5, Types, KeepsInSessions

\* Between packets nobody's packet is handled; nothing else changes.
LEMMA EndOfPacketKeeps == ASSUME IInv, EndOfPacket PROVE IInv'
<1>1. current' = Idle
      /\ UNCHANGED <<clients, stopActive, table, turnouts, told, asked, muted, withheld, ops>>
  BY DEF EndOfPacket
<1>2. TypeOK'
  <2>1. current' \in [place : Places \cup {0}, who : Clients \cup {Nobody}]
    BY <1>1 DEF Idle
  <2>. QED BY <1>1, <2>1 DEF IInv, TypeOK
<1>3. Attributed'
  BY <1>1 DEF Attributed, Idle
<1>4. Sessions' /\ Strangers'
  BY <1>1 DEF IInv, Sessions, Strangers, HasSession, Active
<1>5. StopTruthful' /\ SubscriberTold' /\ OwnSubscriptions'
  BY <1>1 DEF IInv, StopTruthful, SubscriberTold, OwnSubscriptions, Hears, Listening, Active,
              IsSubscribed, Tracked
<1>. QED BY <1>2, <1>3, <1>4, <1>5 DEF IInv

LEMMA StutterKeeps == ASSUME IInv, UNCHANGED vars PROVE IInv'
<1>1. UNCHANGED <<clients, current, stopActive, table, turnouts, told, asked, muted, withheld, ops>>
  BY DEF vars
<1>. QED BY <1>1, Types, KeepsInSessions

-----------------------------------------------------------------------------
LEMMA StepKeepsIInv == ASSUME IInv, [Next]_vars PROVE IInv'
<1>1. ASSUME NEW c \in Clients, Packet(c) PROVE IInv'
  BY <1>1, PacketKeeps
<1>2. CASE EndOfPacket
  BY <1>2, EndOfPacketKeeps
<1>3. CASE Logoff
  BY <1>3, LogoffKeeps
<1>4. CASE SetStop
  BY <1>4, StopEverythingKeeps DEF SetStop, DataSet
<1>5. CASE TrackPowerOn
  BY <1>5, ResumeKeeps DEF TrackPowerOn, DataSet
<1>6. CASE GetStatus
  BY <1>6, GetStatusKeeps
<1>7. ASSUME NEW on \in BOOLEAN, SetBroadcastFlags(on) PROVE IInv'
  BY <1>7, SetBroadcastFlagsKeeps
<1>8. ASSUME NEW a \in Addr, GetLocoInfo(a) \/ Forget(a) PROVE IInv'
  BY <1>8, GetLocoInfoKeeps, ForgetKeeps
<1>9. ASSUME NEW a \in Addr, NEW st \in Locos, SetLocoDrive(a, st) PROVE IInv'
  BY <1>9, CommandedKeeps DEF SetLocoDrive
<1>10. ASSUME NEW a \in Addr, NEW st \in Locos, OthersDrive(a, st) PROVE IInv'
  BY <1>10, LocoChangeKeeps DEF OthersDrive, Others
<1>11. ASSUME NEW a \in Addr, NEW st \in Locos, ChangedUnheard(a, st) PROVE IInv'
  BY <1>11, ChangedUnheardKeeps
<1>12. ASSUME NEW a \in Addr, NEW f \in Fns, SetLocoFunction(a, f) PROVE IInv'
  BY <1>12, SetLocoFunctionKeeps
<1>13. ASSUME NEW t \in Turnouts, GetTurnoutInfo(t - 1) PROVE IInv'
  BY <1>13, GetTurnoutInfoKeeps
<1>14. ASSUME NEW t \in Turnouts, NEW d \in BOOLEAN, SetTurnout(t - 1, d) \/ OthersTurnout(t, d) PROVE IInv'
  BY <1>14, SetTurnoutKeeps, OthersTurnoutKeeps
<1>15. CASE OthersStop
  BY <1>15, StopEverythingKeeps DEF OthersStop, Others
<1>16. CASE OthersResume
  BY <1>16, ResumeKeeps DEF OthersResume, Others
<1>17. ASSUME NEW p \in Places, Expire(p) PROVE IInv'
  BY <1>17, ExpireKeeps
<1>18. CASE UNCHANGED vars
  BY <1>18, StutterKeeps
<1>. QED BY <1>1, <1>2, <1>3, <1>4, <1>5, <1>6, <1>7, <1>8, <1>9, <1>10, <1>11, <1>12, <1>13, <1>14,
            <1>15, <1>16, <1>17, <1>18 DEF Next

\* IInv holds throughout: the three theorems below read off what they need.
THEOREM Invariance == Spec => []IInv
<1>1. Init => IInv
  BY InitIInv
<1>2. IInv /\ [Next]_vars => IInv'
  BY StepKeepsIInv
<1>. QED BY <1>1, <1>2, PTL DEF Spec

\* The server's tables stay within the sizes the code reserves for them.
THEOREM TypeCorrect == Spec => []TypeOK
<1>1. IInv => TypeOK
  BY DEF IInv
<1>. QED BY <1>1, Invariance, PTL

(* However sessions come, go and change places, a client that was told     *)
(* about the emergency stop was told the truth.                            *)
THEOREM StopsTold == Spec => []StopTruthful
<1>1. IInv => StopTruthful
  BY DEF IInv
<1>. QED BY <1>1, Invariance, PTL

(* A client holds the subscriptions it asked for, no more than one session *)
(* and, of each loco it subscribed to, the state the loco table has.       *)
THEOREM SubscriptionsKept == Spec => []SubscriptionsHonoured
<1>1. IInv => SubscriptionsHonoured
  BY DEF IInv, SubscriptionsHonoured
<1>. QED BY <1>1, Invariance, PTL

-----------------------------------------------------------------------------
(* Bytes.  A byte made of bits has these bits, and a message closed by the  *)
(* exclusive or of its bytes has an even number of ones in every place.     *)
Bits8 == [0 .. 7 -> {0, 1}]

LEMMA Weights ==
    /\ Weight[1] = 1 /\ Weight[2] = 2 /\ Weight[3] = 4 /\ Weight[4] = 8
    /\ Weight[5] = 16 /\ Weight[6] = 32 /\ Weight[7] = 64 /\ Weight[8] = 128
BY DEF Weight

LEMMA BitAt ==
    ASSUME NEW b
    PROVE  /\ Bit(b, 0) = (b \div 1) % 2 /\ Bit(b, 1) = (b \div 2) % 2
           /\ Bit(b, 2) = (b \div 4) % 2 /\ Bit(b, 3) = (b \div 8) % 2
           /\ Bit(b, 4) = (b \div 16) % 2 /\ Bit(b, 5) = (b \div 32) % 2
           /\ Bit(b, 6) = (b \div 64) % 2 /\ Bit(b, 7) = (b \div 128) % 2
BY Weights DEF Bit

LEMMA BitsBack ==
    ASSUME NEW bits \in Bits8
    PROVE  /\ FromBits(bits) \in 0 .. 255
           /\ \A i \in 0 .. 7 : Bit(FromBits(bits), i) = bits[i]
<1>1. /\ bits[0] \in {0, 1} /\ bits[1] \in {0, 1} /\ bits[2] \in {0, 1} /\ bits[3] \in {0, 1}
      /\ bits[4] \in {0, 1} /\ bits[5] \in {0, 1} /\ bits[6] \in {0, 1} /\ bits[7] \in {0, 1}
  BY DEF Bits8
<1> DEFINE b == FromBits(bits)
<1>2. b = bits[0] + 2 * bits[1] + 4 * bits[2] + 8 * bits[3]
            + 16 * bits[4] + 32 * bits[5] + 64 * bits[6] + 128 * bits[7]
  BY DEF FromBits
<1> HIDE DEF b
<1>4. /\ b \in 0 .. 255
      /\ (b \div 1) % 2 = bits[0] /\ (b \div 2) % 2 = bits[1] /\ (b \div 4) % 2 = bits[2]
      /\ (b \div 8) % 2 = bits[3] /\ (b \div 16) % 2 = bits[4] /\ (b \div 32) % 2 = bits[5]
      /\ (b \div 64) % 2 = bits[6] /\ (b \div 128) % 2 = bits[7]
  <2>1. PICK b0 \in {0, 1}, b1 \in {0, 1}, b2 \in {0, 1}, b3 \in {0, 1} :
          b0 = bits[0] /\ b1 = bits[1] /\ b2 = bits[2] /\ b3 = bits[3]
    BY <1>1
  <2>4. PICK b4 \in {0, 1}, b5 \in {0, 1}, b6 \in {0, 1}, b7 \in {0, 1} :
          b4 = bits[4] /\ b5 = bits[5] /\ b6 = bits[6] /\ b7 = bits[7]
    BY <1>1
  <2>2. b = b0 + 2 * b1 + 4 * b2 + 8 * b3 + 16 * b4 + 32 * b5 + 64 * b6 + 128 * b7
    BY <1>2, <2>1, <2>4
  <2>3. /\ b \in 0 .. 255
        /\ (b \div 1) % 2 = b0 /\ (b \div 2) % 2 = b1 /\ (b \div 4) % 2 = b2
        /\ (b \div 8) % 2 = b3 /\ (b \div 16) % 2 = b4 /\ (b \div 32) % 2 = b5
        /\ (b \div 64) % 2 = b6 /\ (b \div 128) % 2 = b7
    BY <2>2
  <2> QED
    BY <2>1, <2>3, <2>4
<1>5. ASSUME NEW i \in 0 .. 7 PROVE Bit(b, i) = bits[i]
  <2>1. i = 0 \/ i = 1 \/ i = 2 \/ i = 3 \/ i = 4 \/ i = 5 \/ i = 6 \/ i = 7
    OBVIOUS
  <2> QED
    BY <1>4, <2>1, BitAt
<1> QED
  BY <1>4, <1>5 DEF b

LEMMA BitType == ASSUME NEW b \in Nat, NEW i \in 0 .. 7 PROVE Bit(b, i) \in {0, 1}
<1>1. i = 0 \/ i = 1 \/ i = 2 \/ i = 3 \/ i = 4 \/ i = 5 \/ i = 6 \/ i = 7
  OBVIOUS
<1> QED
  BY <1>1, BitAt

LEMMA ByteOfBits ==
    ASSUME NEW F, NEW S, NEW fn \in Seq(S)
    PROVE  /\ ByteOf(F, fn) \in 0 .. 255
           /\ \A i \in 0 .. 7 : Bit(ByteOf(F, fn), i) = 1 <=> i < Len(fn) /\ fn[i + 1] \in F
<1> DEFINE bits == [i \in 0 .. 7 |-> IF i < Len(fn) /\ fn[i + 1] \in F THEN 1 ELSE 0]
<1>1. bits \in Bits8
  BY DEF Bits8
<1>2. ByteOf(F, fn) = FromBits(bits)
  BY DEF ByteOf
<1>3. \A i \in 0 .. 7 : bits[i] = IF i < Len(fn) /\ fn[i + 1] \in F THEN 1 ELSE 0
  OBVIOUS
<1> HIDE DEF bits
<1>4. ASSUME NEW i \in 0 .. 7
      PROVE  Bit(ByteOf(F, fn), i) = 1 <=> i < Len(fn) /\ fn[i + 1] \in F
  <2>1. Bit(FromBits(bits), i) = bits[i]
    BY <1>1, BitsBack, Zenon
  <2>2. (bits[i] = 1) <=> (i < Len(fn) /\ fn[i + 1] \in F)
    BY <1>3
  <2> QED
    BY <1>2, <2>1, <2>2, Zenon
<1> QED
  BY <1>1, <1>2, <1>4, BitsBack

LEMMA HavingFinite ==
    ASSUME NEW s \in Seq(Nat), NEW i
    PROVE  IsFiniteSet(Having(s, i)) /\ Cardinality(Having(s, i)) \in Nat
           /\ Having(s, i) \subseteq 1 .. Len(s)
<1>1. DOMAIN s = 1 .. Len(s) /\ Len(s) \in Nat
  OBVIOUS
<1>2. Having(s, i) \subseteq 1 .. Len(s)
  BY <1>1 DEF Having
<1>3. IsFiniteSet(1 .. Len(s))
  BY <1>1, FS_Interval
<1> QED
  BY <1>2, <1>3, FS_Subset, FS_CardinalityType

LEMMA XorBits ==
    ASSUME NEW s \in Seq(Nat)
    PROVE  /\ XorOf(s) \in 0 .. 255 /\ XorOf(s) \in Nat
           /\ \A i \in 0 .. 7 : Bit(XorOf(s), i) = Cardinality(Having(s, i)) % 2
<1> DEFINE bits == [i \in 0 .. 7 |-> Cardinality(Having(s, i)) % 2]
<1>1. \A i \in 0 .. 7 : Cardinality(Having(s, i)) % 2 \in {0, 1}
  BY HavingFinite
<1>2. bits \in Bits8 /\ XorOf(s) = FromBits(bits)
  BY <1>1 DEF Bits8, XorOf
<1>3. \A i \in 0 .. 7 : bits[i] = Cardinality(Having(s, i)) % 2
  OBVIOUS
<1> HIDE DEF bits
<1>4. FromBits(bits) \in 0 .. 255 /\ \A i \in 0 .. 7 : Bit(FromBits(bits), i) = bits[i]
  BY <1>2, BitsBack
<1>5. \A x \in 0 .. 255 : x \in Nat
  OBVIOUS
<1> QED
  BY <1>2, <1>3, <1>4, <1>5, Zenon

LEMMA ClosedIsEven == ASSUME NEW s \in Seq(Nat) PROVE XorOf(Append(s, XorOf(s))) = 0
<1> DEFINE c == XorOf(s)
           t == Append(s, c)
<1>1. c \in Nat /\ \A i \in 0 .. 7 : Bit(c, i) = Cardinality(Having(s, i)) % 2
  BY XorBits, Zenon
<1> HIDE DEF c
<1>2. t \in Seq(Nat) /\ DOMAIN t = 1 .. Len(s) + 1 /\ Len(s) \in Nat
  BY <1>1
<1>3. t[Len(s) + 1] = c /\ \A k \in 1 .. Len(s) : t[k] = s[k]
  BY <1>1
<1> HIDE DEF t
<1>4. ASSUME NEW i \in 0 .. 7 PROVE Cardinality(Having(t, i)) % 2 = 0
  <2> DEFINE H == Having(s, i)
             n == Cardinality(H)
  <2>1. IsFiniteSet(H) /\ n \in Nat /\ H \subseteq 1 .. Len(s)
    BY HavingFinite
  <2>2. CASE Bit(c, i) = 1
    <3>1. Having(t, i) = H \cup {Len(s) + 1} /\ Len(s) + 1 \notin H
      <4>1. \A k \in 1 .. Len(s) + 1 : k \in 1 .. Len(s) \/ k = Len(s) + 1
        BY <1>2
      <4>2. DOMAIN s = 1 .. Len(s) /\ \A k \in 1 .. Len(s) : k \in 1 .. Len(s) + 1
        BY <1>2
      <4>3. Len(s) + 1 \in 1 .. Len(s) + 1 /\ Len(s) + 1 \notin 1 .. Len(s)
        BY <1>2
      <4>4. Having(t, i) = H \cup {Len(s) + 1}
        BY <1>2, <1>3, <2>2, <4>1, <4>2, <4>3, Zenon DEF Having
      <4> QED
        BY <2>1, <4>3, <4>4, Zenon
    <3> HIDE DEF H
    <3>2. Cardinality(Having(t, i)) = n + 1
      BY <2>1, <3>1, FS_AddElement
    <3>3. n % 2 = 1
      BY <1>1, <2>2 DEF H
    <3> HIDE DEF n
    <3> QED
      BY <2>1, <3>2, <3>3
  <2>3. CASE Bit(c, i) # 1
    <3>1. Having(t, i) = H
      <4>1. \A k \in 1 .. Len(s) + 1 : k \in 1 .. Len(s) \/ k = Len(s) + 1
        BY <1>2
      <4>2. DOMAIN s = 1 .. Len(s) /\ \A k \in 1 .. Len(s) : k \in 1 .. Len(s) + 1
        BY <1>2
      <4> QED
        BY <1>2, <1>3, <2>3, <4>1, <4>2, Zenon DEF Having
    <3>2. n % 2 = 0
      <4>1. n % 2 # 1
        BY <1>1, <2>3
      <4> HIDE DEF n
      <4> QED
        BY <4>1, <2>1
    <3> QED
      BY <3>1, <3>2
  <2> QED
    BY <2>2, <2>3
<1>5. [i \in 0 .. 7 |-> Cardinality(Having(t, i)) % 2] = [i \in 0 .. 7 |-> 0]
  BY <1>4
<1>6. FromBits([i \in 0 .. 7 |-> 0]) = 0
  BY DEF FromBits
<1> QED
  BY <1>5, <1>6 DEF XorOf, t, c

-----------------------------------------------------------------------------
(* The conversions of the Z21 codec.                                        *)
\* The addresses that fit in 14 bits.
FourteenBits == 0 .. 16383

LEMMA AddressBack ==
    ASSUME NEW a \in FourteenBits
    PROVE  DecodeAddress(EncodeAddress(a).msb, EncodeAddress(a).lsb) = a
<1>1. /\ EncodeAddress(a).msb = ((a \div 256) % 64) + (IF a >= 128 THEN 192 ELSE 0)
      /\ EncodeAddress(a).lsb = a % 256
  BY DEF EncodeAddress
<1>2. PICK m \in Int : m = a \div 256
  BY DEF FourteenBits
<1>6. 0 <= m /\ m <= 63 /\ 256 * m + (a % 256) = a
  BY <1>2 DEF FourteenBits
<1>7. m % 64 = m
  BY <1>6
<1>3. (m + 192) % 64 = m /\ (m + 0) % 64 = m
  BY <1>6
<1>4. EncodeAddress(a).msb % 64 = m
  BY <1>1, <1>2, <1>3, <1>7
<1>5. m * 256 + (a % 256) = a
  BY <1>6
<1> QED
  BY <1>1, <1>4, <1>5 DEF DecodeAddress

LEMMA AddressBytes ==
    ASSUME NEW a \in FourteenBits
    PROVE  EncodeAddress(a).msb \in Nat /\ EncodeAddress(a).lsb \in Nat
<1>1. /\ EncodeAddress(a).msb = ((a \div 256) % 64) + (IF a >= 128 THEN 192 ELSE 0)
      /\ EncodeAddress(a).lsb = a % 256
  BY DEF EncodeAddress
<1>2. (a \div 256) % 64 \in 0 .. 63 /\ a % 256 \in 0 .. 255
  BY DEF FourteenBits
<1> QED
  BY <1>1, <1>2

LEMMA SpeedBack ==
    ASSUME NEW dir \in {0, 1}, NEW speed \in 0 .. TopSpeed
    PROVE  /\ EncodeSpeed128(dir, speed) \in 0 .. 255
           /\ DecodeSpeed(128, EncodeSpeed128(dir, speed)) = [dir |-> dir, speed |-> speed]
<1> DEFINE b == EncodeSpeed128(dir, speed)
<1>1. b = (IF speed = 0 THEN 0 ELSE (speed + 1) % 128) + (IF dir = 1 THEN 0 ELSE 128)
  BY DEF EncodeSpeed128
<1> HIDE DEF b
<1>2. b \in 0 .. 255 /\ b % 128 = (IF speed = 0 THEN 0 ELSE speed + 1)
      /\ (b \div 128) % 2 = 1 - dir
  BY <1>1 DEF TopSpeed
<1>3. Bit(b, 7) = 1 - dir
  <2>1. Bit(b, 7) = (b \div 128) % 2
    BY BitAt
  <2> QED
    BY <1>2, <2>1
<1>4. Step(128, b) = speed
  BY <1>2 DEF Step, TopSpeed
<1>5. 1 - Bit(b, 7) = dir
  BY <1>3
<1>6. DecodeSpeed(128, b) = [dir |-> dir, speed |-> speed]
  BY <1>4, <1>5 DEF DecodeSpeed
<1> QED
  BY <1>2, <1>6 DEF b

\* The functions that the four bytes of a loco information packet show.
FunctionsOf(p) ==
    {Order[i] : i \in {j \in 1 .. 5 : Bit(p[6], j - 1) = 1}}
    \cup {n \in 5 .. 28 : Bit(p[7 + ((n - 5) \div 8)], (n - 5) % 8) = 1}

LEMMA HighBits ==
    ASSUME NEW F, NEW k \in Nat
    PROVE  /\ ByteOf(F, [i \in 1 .. 8 |-> k + i]) \in Nat
           /\ \A i \in 0 .. 7 :
                (Bit(ByteOf(F, [j \in 1 .. 8 |-> k + j]), i) = 1) <=> (k + i + 1 \in F)
<1> DEFINE fn == [i \in 1 .. 8 |-> k + i]
<1>1. fn \in Seq(Nat) /\ Len(fn) = 8 /\ \A i \in 0 .. 7 : fn[i + 1] = k + i + 1
  <2>1. \A i \in 1 .. 8 : k + i \in Nat
    OBVIOUS
  <2>2. fn \in [1 .. 8 -> Nat] /\ 8 \in Nat
    BY <2>1
  <2>3. fn \in Seq(Nat) /\ Len(fn) = 8
    BY <2>2
  <2>4. ASSUME NEW i \in 0 .. 7 PROVE fn[i + 1] = k + i + 1
    <3>1. i + 1 \in 1 .. 8 /\ k + (i + 1) = k + i + 1
      OBVIOUS
    <3> QED
      BY <3>1
  <2> QED
    BY <2>3, <2>4
<1> HIDE DEF fn
<1>2. \A i \in 0 .. 7 : i < 8
  OBVIOUS
<1>3. /\ ByteOf(F, fn) \in 0 .. 255
      /\ \A i \in 0 .. 7 : (Bit(ByteOf(F, fn), i) = 1) <=> (i < Len(fn) /\ fn[i + 1] \in F)
  BY <1>1, ByteOfBits
<1>4. \A i \in 0 .. 7 : (Bit(ByteOf(F, fn), i) = 1) <=> (k + i + 1 \in F)
  BY <1>1, <1>2, <1>3, Zenon
<1>5. ByteOf(F, fn) \in Nat
  <2>1. \A x \in 0 .. 255 : x \in Nat
    OBVIOUS
  <2> QED
    BY <1>3, <2>1, Zenon
<1> QED
  BY <1>4, <1>5, Zenon DEF fn

LEMMA LowBits ==
    ASSUME NEW F
    PROVE  /\ ByteOf(F, <<1, 2, 3, 4, 0>>) \in Nat
           /\ \A j \in 1 .. 5 :
                (Bit(ByteOf(F, <<1, 2, 3, 4, 0>>), j - 1) = 1) <=> (Order[j] \in F)
<1> DEFINE fn == <<1, 2, 3, 4, 0>>
<1>1. fn \in Seq(Nat) /\ Len(fn) = 5 /\ Order = fn
  BY DEF Order
<1>2. \A j \in 1 .. 5 : j - 1 \in 0 .. 7 /\ j - 1 < 5 /\ (j - 1) + 1 = j
  OBVIOUS
<1> HIDE DEF fn
<1>3. /\ ByteOf(F, fn) \in 0 .. 255
      /\ \A i \in 0 .. 7 : (Bit(ByteOf(F, fn), i) = 1) <=> (i < Len(fn) /\ fn[i + 1] \in F)
  BY <1>1, ByteOfBits
<1>4. ASSUME NEW j \in 1 .. 5
      PROVE  (Bit(ByteOf(F, fn), j - 1) = 1) <=> (Order[j] \in F)
  <2> DEFINE i == j - 1
  <2>1. i \in 0 .. 7 /\ i < 5 /\ i + 1 = j
    BY <1>2
  <2> HIDE DEF i
  <2>2. (Bit(ByteOf(F, fn), i) = 1) <=> (Order[j] \in F)
    BY <1>1, <1>3, <2>1, Zenon
  <2> QED
    BY <2>2 DEF i
<1>5. ByteOf(F, fn) \in Nat
  <2>1. \A x \in 0 .. 255 : x \in Nat
    OBVIOUS
  <2> QED
    BY <1>3, <2>1, Zenon
<1> QED
  BY <1>4, <1>5, Zenon DEF fn

LEMMA FunctionsBack ==
    ASSUME NEW F \in SUBSET (0 .. 28), NEW p,
           p[6] = ByteOf(F, <<1, 2, 3, 4, 0>>),
           p[7] = ByteOf(F, [i \in 1 .. 8 |-> 4 + i]),
           p[8] = ByteOf(F, [i \in 1 .. 8 |-> 12 + i]),
           p[9] = ByteOf(F, [i \in 1 .. 8 |-> 20 + i])
    PROVE  FunctionsOf(p) = F
<1>1. \A j \in 1 .. 5 : (Bit(p[6], j - 1) = 1) <=> (Order[j] \in F)
  BY LowBits
<1>5. ASSUME NEW k \in Nat, NEW b, b = ByteOf(F, [i \in 1 .. 8 |-> k + i])
      PROVE  \A i \in 0 .. 7 : (Bit(b, i) = 1) <=> (k + i + 1 \in F)
  BY <1>5, HighBits, Zenon
<1>6. 4 \in Nat /\ 12 \in Nat /\ 20 \in Nat
  OBVIOUS
<1>2. ASSUME NEW n \in 5 .. 28
      PROVE  (Bit(p[7 + ((n - 5) \div 8)], (n - 5) % 8) = 1) <=> (n \in F)
  <2>1. PICK k \in Int, i \in Int : k = (n - 5) \div 8 /\ i = (n - 5) % 8
    OBVIOUS
  <2>2. /\ 0 <= i /\ i <= 7 /\ n = 8 * k + i + 5
        /\ k = 0 \/ k = 1 \/ k = 2
    BY <2>1
  <2>3. i \in 0 .. 7
    BY <2>2
  <2>4. CASE k = 0
    <3>1. (Bit(p[7], i) = 1) <=> (4 + i + 1 \in F)
      BY <1>5, <1>6, <2>3, Zenon
    <3>2. 4 + i + 1 = n /\ 7 + k = 7
      BY <2>2, <2>4
    <3> QED
      BY <2>1, <3>1, <3>2
  <2>5. CASE k = 1
    <3>1. (Bit(p[8], i) = 1) <=> (12 + i + 1 \in F)
      BY <1>5, <1>6, <2>3, Zenon
    <3>2. 12 + i + 1 = n /\ 7 + k = 8
      BY <2>2, <2>5
    <3> QED
      BY <2>1, <3>1, <3>2
  <2>6. CASE k = 2
    <3>1. (Bit(p[9], i) = 1) <=> (20 + i + 1 \in F)
      BY <1>5, <1>6, <2>3, Zenon
    <3>2. 20 + i + 1 = n /\ 7 + k = 9
      BY <2>2, <2>6
    <3> QED
      BY <2>1, <3>1, <3>2
  <2> QED
    BY <2>2, <2>4, <2>5, <2>6
<1>3. ASSUME NEW n \in F PROVE n \in FunctionsOf(p)
  <2>1. n \in 5 .. 28 \/ n \in 0 .. 4
    OBVIOUS
  <2>2. CASE n \in 5 .. 28
    BY <1>2, <2>2, Zenon DEF FunctionsOf
  <2>3. CASE n \in 0 .. 4
    <3>1. PICK j \in 1 .. 5 : Order[j] = n
      <4>1. Order[1] = 1 /\ Order[2] = 2 /\ Order[3] = 3 /\ Order[4] = 4 /\ Order[5] = 0
        BY DEF Order
      <4>2. n = 0 \/ n = 1 \/ n = 2 \/ n = 3 \/ n = 4
        BY <2>3
      <4> QED
        BY <4>1, <4>2
    <3> QED
      BY <1>1, <3>1, Zenon DEF FunctionsOf
  <2> QED
    BY <2>1, <2>2, <2>3
<1>4. ASSUME NEW n \in FunctionsOf(p) PROVE n \in F
  BY <1>1, <1>2, Zenon DEF FunctionsOf
<1> QED
  BY <1>3, <1>4

LEMMA ClosedKeeps ==
    ASSUME NEW s \in Seq(Nat), NEW p, p = Append(s, XorOf(s))
    PROVE  XorOf(p) = 0 /\ \A i \in 1 .. Len(s) : p[i] = s[i]
<1>1. XorOf(s) \in Nat
  BY XorBits, Zenon
<1>2. PICK c \in Nat : c = XorOf(s)
  BY <1>1
<1>3. \A i \in 1 .. Len(s) : Append(s, c)[i] = s[i]
  OBVIOUS
<1>4. XorOf(p) = 0
  BY ClosedIsEven, Zenon
<1> QED
  BY <1>2, <1>3, <1>4, Zenon

LEMMA PacketBytes ==
    ASSUME NEW h \in Nat, NEW l \in Nat, NEW w \in Nat,
           NEW f1 \in Nat, NEW f2 \in Nat, NEW f3 \in Nat, NEW f4 \in Nat,
           NEW msg, msg = <<239, h, l, 4, w>> \o <<f1, f2, f3, f4>>
    PROVE  /\ msg \in Seq(Nat) /\ Len(msg) = 9
           /\ msg[6] = f1 /\ msg[7] = f2 /\ msg[8] = f3 /\ msg[9] = f4
<1>1. PICK s \in Seq(Nat) : s = <<239, h, l, 4, w>> /\ Len(s) = 5
  <2>1. <<239, h, l, 4, w>> \in Seq(Nat) /\ Len(<<239, h, l, 4, w>>) = 5
    OBVIOUS
  <2> QED
    BY <2>1
<1>2. PICK f \in Seq(Nat) :
         /\ f = <<f1, f2, f3, f4>> /\ Len(f) = 4
         /\ f[1] = f1 /\ f[2] = f2 /\ f[3] = f3 /\ f[4] = f4
  <2>1. <<f1, f2, f3, f4>> \in Seq(Nat) /\ Len(<<f1, f2, f3, f4>>) = 4
    OBVIOUS
  <2> QED
    BY <2>1
<1>3. msg = s \o f
  BY <1>1, <1>2, Zenon
<1>4. msg \in Seq(Nat) /\ Len(msg) = 9
  BY <1>1, <1>2, <1>3
<1>5. msg[6] = f[1] /\ msg[7] = f[2] /\ msg[8] = f[3] /\ msg[9] = f[4]
  BY <1>1, <1>2, <1>3
<1> QED
  BY <1>2, <1>4, <1>5

LEMMA PacketBack ==
    ASSUME NEW a \in FourteenBits, NEW dir \in {0, 1}, NEW F \in SUBSET (0 .. 28),
           NEW p, p = LocoInfoPacket(a, dir, TopSpeed, F)
    PROVE  FunctionsOf(p) = F /\ XorOf(p) = 0
<1>1. PICK h \in Nat, l \in Nat :
         h = EncodeAddress(a).msb /\ l = EncodeAddress(a).lsb
  BY AddressBytes, Zenon
<1>2. PICK w \in Nat : w = EncodeSpeed128(dir, TopSpeed)
  <2>1. TopSpeed \in 0 .. TopSpeed
    BY DEF TopSpeed
  <2>2. EncodeSpeed128(dir, TopSpeed) \in 0 .. 255
    BY <2>1, SpeedBack
  <2> QED
    BY <2>2
<1>3. PICK f1 \in Nat : f1 = ByteOf(F, <<1, 2, 3, 4, 0>>)
  BY LowBits, Zenon
<1>4. \A k \in Nat : ByteOf(F, [i \in 1 .. 8 |-> k + i]) \in Nat
  BY HighBits, Zenon
<1>5. 4 \in Nat /\ 12 \in Nat /\ 20 \in Nat
  OBVIOUS
<1>6. PICK f2 \in Nat : f2 = ByteOf(F, [i \in 1 .. 8 |-> 4 + i])
  BY <1>4, <1>5, Zenon
<1>7. PICK f3 \in Nat : f3 = ByteOf(F, [i \in 1 .. 8 |-> 12 + i])
  BY <1>4, <1>5, Zenon
<1>8. PICK f4 \in Nat : f4 = ByteOf(F, [i \in 1 .. 8 |-> 20 + i])
  BY <1>4, <1>5, Zenon
<1>9. PICK msg : msg = <<239, h, l, 4, w>> \o <<f1, f2, f3, f4>>
  OBVIOUS
<1>10. p = Append(msg, XorOf(msg))
  <2>1. FunctionBytes(F) = <<f1, f2, f3, f4>>
    BY <1>3, <1>6, <1>7, <1>8, Zenon DEF FunctionBytes
  <2>2. msg = <<239, EncodeAddress(a).msb, EncodeAddress(a).lsb, 4,
                EncodeSpeed128(dir, TopSpeed)>> \o FunctionBytes(F)
    BY <1>1, <1>2, <1>9, <2>1
  <2> QED
    BY <2>2 DEF LocoInfoPacket
<1>11. /\ msg \in Seq(Nat) /\ Len(msg) = 9
       /\ msg[6] = f1 /\ msg[7] = f2 /\ msg[8] = f3 /\ msg[9] = f4
  BY <1>9, PacketBytes
<1>12. XorOf(p) = 0 /\ \A i \in 1 .. Len(msg) : p[i] = msg[i]
  BY <1>10, <1>11, ClosedKeeps, Zenon
<1>13. p[6] = f1 /\ p[7] = f2 /\ p[8] = f3 /\ p[9] = f4
  BY <1>11, <1>12
<1>14. FunctionsOf(p) = F
  BY <1>3, <1>6, <1>7, <1>8, <1>13, FunctionsBack, Zenon
<1> QED
  BY <1>12, <1>14

LEMMA Survives == StateSurvives
<1> SUFFICES ASSUME NEW a \in WireAddr, NEW dir \in {0, 1}
             PROVE  LET adr == EncodeAddress(a)
                    IN  /\ DecodeAddress(adr.msb, adr.lsb) = a
                        /\ \A speed \in 0 .. TopSpeed :
                             DecodeSpeed(128, EncodeSpeed128(dir, speed))
                               = [dir |-> dir, speed |-> speed]
                        /\ \A F \in FnSets :
                             LET p == LocoInfoPacket(a, dir, TopSpeed, F)
                                 on == {Order[i] : i \in {j \in 1 .. 5 : Bit(p[6], j - 1) = 1}}
                                       \cup {n \in 5 .. 28 :
                                               Bit(p[7 + ((n - 5) \div 8)], (n - 5) % 8) = 1}
                             IN  on = F /\ XorOf(p) = 0
  BY Zenon DEF StateSurvives
<1>1. a \in FourteenBits /\ FnSets \subseteq SUBSET (0 .. 28)
  BY Z21CodecAssumption DEF FourteenBits
<1>2. DecodeAddress(EncodeAddress(a).msb, EncodeAddress(a).lsb) = a
  BY <1>1, AddressBack
<1>3. \A speed \in 0 .. TopSpeed :
        DecodeSpeed(128, EncodeSpeed128(dir, speed)) = [dir |-> dir, speed |-> speed]
  BY SpeedBack, Zenon
<1>4. ASSUME NEW F \in FnSets, NEW p, p = LocoInfoPacket(a, dir, TopSpeed, F)
      PROVE  FunctionsOf(p) = F /\ XorOf(p) = 0
  <2>1. F \in SUBSET (0 .. 28)
    BY <1>1
  <2> QED
    BY <1>1, <1>4, <2>1, PacketBack, Zenon
<1> QED
  BY <1>2, <1>3, <1>4, Zenon DEF FunctionsOf

-----------------------------------------------------------------------------
Modes == {14, 28, 128}
\* A speed byte with its direction bit.
Facing(dir, c) == c + 128 * (1 - dir)

\* The half-step bit and the direction bit do not disturb the rest of the byte.
LEMMA StepSpeed ==
    ASSUME NEW steps \in Modes, NEW dir \in {0, 1}, NEW c \in 0 .. 127
    PROVE  DecodeSpeed(steps, Facing(dir, c)).speed = DecodeSpeed(steps, c).speed
<1> DEFINE b == Facing(dir, c)
<1>1. b = c \/ b = c + 128
  BY DEF Facing
<1> HIDE DEF b
<1>2. b % 128 = c % 128 /\ b % 16 = c % 16 /\ (b \div 16) % 2 = (c \div 16) % 2
  BY <1>1
<1>3. Bit(b, 4) = Bit(c, 4)
  <2>1. Bit(b, 4) = (b \div 16) % 2
    BY BitAt
  <2>2. Bit(c, 4) = (c \div 16) % 2
    BY BitAt
  <2> QED
    BY <1>2, <2>1, <2>2
<1>4. Step(steps, b) = Step(steps, c)
  BY <1>2, <1>3, Zenon DEF Step
<1> QED
  BY <1>4 DEF DecodeSpeed, b

\* What the code of step n of each mode decodes to.
LEMMA Steps14 == \A n \in 0 .. 14 :
    StepCode(14, n) \in 0 .. 127 /\ Step(14, StepCode(14, n)) = n
BY DEF StepCode, Step

LEMMA Steps28 == \A n \in 0 .. 28 :
    StepCode(28, n) \in 0 .. 127 /\ Step(28, StepCode(28, n)) = n
<1> SUFFICES ASSUME NEW n \in 1 .. 28
             PROVE  StepCode(28, n) \in 0 .. 127 /\ Step(28, StepCode(28, n)) = n
  BY DEF StepCode, Step
<1>1. PICK b \in Int, q \in Int, r \in Int :
         b = StepCode(28, n) /\ q = (n + 3) \div 2 /\ r = (n + 1) % 2 /\ b = q + 16 * r
  BY DEF StepCode
<1>2. r \in {0, 1} /\ 2 * q + r = n + 3 /\ 2 <= q /\ q <= 15
  BY <1>1
<1>3. b \in 0 .. 127 /\ b % 16 = q /\ (b \div 16) % 2 = r
  BY <1>1, <1>2
<1>4. Bit(b, 4) = r
  BY <1>3, BitAt
<1>5. Step(28, b) = n
  BY <1>2, <1>3, <1>4 DEF Step
<1> QED
  BY <1>1, <1>3, <1>5

LEMMA Steps128 == \A n \in 0 .. 126 :
    StepCode(128, n) \in 0 .. 127 /\ Step(128, StepCode(128, n)) = n
BY DEF StepCode, Step

\* The last step of a mode, and the speed of each step.
LastStep(steps) == IF steps = 128 THEN TopSpeed ELSE steps
SpeedOfStep(steps, n) == IF steps = 128 THEN n ELSE (n * TopSpeed) \div steps

LEMMA KnobSpeed ==
    ASSUME NEW steps \in Modes, NEW dir \in {0, 1}, NEW n \in 0 .. LastStep(steps)
    PROVE  DecodeSpeed(steps, Facing(dir, StepCode(steps, n))).speed
             = SpeedOfStep(steps, n)
<1>1. StepCode(steps, n) \in 0 .. 127 /\ Step(steps, StepCode(steps, n)) = n
  <2>1. CASE steps = 14
    <3>1. n \in 0 .. 14
      BY <2>1 DEF LastStep
    <3> QED
      BY <2>1, <3>1, Steps14, Zenon
  <2>2. CASE steps = 28
    <3>1. n \in 0 .. 28
      BY <2>2 DEF LastStep
    <3> QED
      BY <2>2, <3>1, Steps28, Zenon
  <2>3. CASE steps = 128
    <3>1. n \in 0 .. 126
      BY <2>3 DEF LastStep, TopSpeed
    <3> QED
      BY <2>3, <3>1, Steps128, Zenon
  <2> QED
    BY <2>1, <2>2, <2>3 DEF Modes
<1>2. PICK c \in 0 .. 127 : c = StepCode(steps, n)
  BY <1>1
<1>3. DecodeSpeed(steps, Facing(dir, c)).speed = DecodeSpeed(steps, c).speed
  BY StepSpeed, Zenon
<1>4. Step(steps, c) = n
  BY <1>1, <1>2
<1>5. DecodeSpeed(steps, c).speed = SpeedOfStep(steps, n)
  <2>1. CASE steps = 128
    BY <1>4, <2>1 DEF DecodeSpeed, SpeedOfStep
  <2>2. CASE steps # 128
    BY <1>4, <2>2 DEF DecodeSpeed, SpeedOfStep
  <2> QED
    BY <2>1, <2>2
<1> QED
  BY <1>2, <1>3, <1>5, Zenon

LEMMA StopStops ==
    ASSUME NEW steps \in Modes, NEW dir \in {0, 1}, NEW b \in Stops(steps)
    PROVE  DecodeSpeed(steps, Facing(dir, b)).speed = 0
<1>1. b \in 0 .. 127 /\ b % 16 <= 1
  BY DEF Stops, Modes
<1>2. (steps = 128) => b % 128 <= 1
  BY DEF Stops, Modes
<1>3. Step(steps, b) = 0
  BY <1>1, <1>2 DEF Step, Modes
<1>4. (0 * TopSpeed) \div steps = 0
  BY DEF TopSpeed, Modes
<1>5. DecodeSpeed(steps, b).speed = 0
  <2>1. CASE steps = 128
    BY <1>3, <2>1 DEF DecodeSpeed
  <2>2. CASE steps # 128
    BY <1>3, <1>4, <2>2 DEF DecodeSpeed
  <2> QED
    BY <2>1, <2>2
<1> QED
  BY <1>1, <1>5, StepSpeed, Zenon

LEMMA KnobLemma == KnobIsMonotone
<1> SUFFICES ASSUME NEW steps \in Modes, NEW dir \in {0, 1}
             PROVE  LET top == IF steps = 128 THEN TopSpeed ELSE steps
                        speed(b) == DecodeSpeed(steps, b + 128 * (1 - dir)).speed
                    IN  /\ \A b \in Stops(steps) : speed(b) = 0
                        /\ \A n \in 1 .. top :
                             speed(StepCode(steps, n - 1)) < speed(StepCode(steps, n))
                        /\ speed(StepCode(steps, top)) = TopSpeed
  BY Zenon DEF KnobIsMonotone, Modes
<1> DEFINE speed(b) == DecodeSpeed(steps, Facing(dir, b)).speed
<1>1. \A b \in Stops(steps) : speed(b) = 0
  BY StopStops, Zenon
<1>2. \A n \in 0 .. LastStep(steps) : speed(StepCode(steps, n)) = SpeedOfStep(steps, n)
  BY KnobSpeed, Zenon
<1> HIDE DEF speed
<1>3. ASSUME NEW n \in 1 .. LastStep(steps)
      PROVE  speed(StepCode(steps, n - 1)) < speed(StepCode(steps, n))
  <2>1. PICK k \in 0 .. LastStep(steps) : k = n - 1 /\ n \in 0 .. LastStep(steps)
    BY DEF LastStep, TopSpeed, Modes
  <2>2. SpeedOfStep(steps, k) < SpeedOfStep(steps, n)
    <3>1. CASE steps = 14
      BY <2>1, <3>1 DEF SpeedOfStep, LastStep, TopSpeed
    <3>2. CASE steps = 28
      BY <2>1, <3>2 DEF SpeedOfStep, LastStep, TopSpeed
    <3>3. CASE steps = 128
      BY <2>1, <3>3 DEF SpeedOfStep, LastStep, TopSpeed
    <3> QED
      BY <3>1, <3>2, <3>3 DEF Modes
  <2>3. /\ speed(StepCode(steps, k)) = SpeedOfStep(steps, k)
        /\ speed(StepCode(steps, n)) = SpeedOfStep(steps, n)
    BY <1>2, <2>1, Zenon
  <2> QED
    BY <2>1, <2>2, <2>3
<1>4. speed(StepCode(steps, LastStep(steps))) = TopSpeed
  <2>1. LastStep(steps) \in 0 .. LastStep(steps)
    BY DEF LastStep, TopSpeed, Modes
  <2>2. SpeedOfStep(steps, LastStep(steps)) = TopSpeed
    BY DEF SpeedOfStep, LastStep, TopSpeed, Modes
  <2> QED
    BY <1>2, <2>1, <2>2, Zenon
<1> QED
  BY <1>1, <1>3, <1>4, Zenon DEF speed, LastStep, Facing

-----------------------------------------------------------------------------
\* What the press of the button of a position of a turnout commands.
ThePress(t, port) == {[turnout |-> t, diverging |-> port = 1]}

Marks == {0, 128}
Button(mark, pressed, port) == mark + 8 * pressed + port

LEMMA TurnoutBack ==
    ASSUME NEW t \in WireAddr, NEW port \in {0, 1}, NEW marker \in Marks,
           NEW pressed \in {0, 1}
    PROVE  LET adr == EncodeAddress(t - 1)
               command == TurnoutCommand(adr.msb, adr.lsb, Button(marker, pressed, port))
           IN  /\ (pressed = 1) => (command = ThePress(t, port))
               /\ (pressed = 0) => (command = {})
<1> DEFINE b == Button(marker, pressed, port)
<1>1. (b \div 8) % 2 = pressed /\ (b \div 1) % 2 = port
  BY DEF Button, Marks
<1> HIDE DEF b
<1>2. Bit(b, 3) = pressed /\ Bit(b, 0) = port
  BY <1>1, BitAt
<1>3. PICK a \in FourteenBits : a = t - 1 /\ a + 1 = t
  <2>1. t \in 1 .. 16383
    BY Z21CodecAssumption
  <2>2. t - 1 \in FourteenBits /\ (t - 1) + 1 = t
    BY <2>1 DEF FourteenBits
  <2> QED
    BY <2>2
<1>4. PICK h, l : h = EncodeAddress(a).msb /\ l = EncodeAddress(a).lsb
  OBVIOUS
<1>5. DecodeAddress(h, l) = a
  BY <1>4, AddressBack
<1>6. /\ (pressed = 1) => (TurnoutCommand(h, l, b) = ThePress(t, port))
      /\ (pressed = 0) => (TurnoutCommand(h, l, b) = {})
  <2>1. DecodeAddress(h, l) + 1 = t
    BY <1>3, <1>5
  <2>2. CASE pressed = 1
    <3>1. Bit(b, 3) # 0
      BY <1>2, <2>2
    <3> QED
      BY <1>2, <2>1, <2>2, <3>1, Zenon DEF TurnoutCommand, ThePress
  <2>3. CASE pressed = 0
    <3>1. pressed # 1
      BY <2>3
    <3> QED
      BY <1>2, <2>3, <3>1, Zenon DEF TurnoutCommand, ThePress
  <2> QED
    BY <2>2, <2>3, Zenon
<1> QED
  BY <1>3, <1>4, <1>6, Zenon DEF b

LEMMA PressesLemma == PressesDecode
<1>1. ASSUME NEW t \in WireAddr, NEW port \in {0, 1}, NEW marker \in Marks
      PROVE  LET adr == EncodeAddress(t - 1)
                 command(pressed) ==
                   TurnoutCommand(adr.msb, adr.lsb, Button(marker, pressed, port))
             IN  /\ command(1) = {[turnout |-> t, diverging |-> port = 1]}
                 /\ command(0) = {}
  <2>1. 0 \in {0, 1} /\ 1 \in {0, 1} /\ 0 # 1
    OBVIOUS
  <2>2. TurnoutCommand(EncodeAddress(t - 1).msb, EncodeAddress(t - 1).lsb, Button(marker, 1, port))
          = ThePress(t, port)
    BY <2>1, TurnoutBack, Zenon
  <2>3. TurnoutCommand(EncodeAddress(t - 1).msb, EncodeAddress(t - 1).lsb, Button(marker, 0, port))
          = {}
    BY <2>1, TurnoutBack, Zenon
  <2> QED
    BY <2>2, <2>3, Zenon DEF ThePress
<1>2. ASSUME NEW b \in 0 .. 191, NEW c \in 0 .. 191, DecodeFunction(b) = DecodeFunction(c)
      PROVE  b = c
  <2>1. b \div 64 # 3 /\ c \div 64 # 3
    OBVIOUS
  <2>2. /\ DecodeFunction(b) = {[kind |-> b \div 64, fn |-> b % 64]}
        /\ DecodeFunction(c) = {[kind |-> c \div 64, fn |-> c % 64]}
    BY <2>1, Zenon DEF DecodeFunction
  <2>3. [kind |-> b \div 64, fn |-> b % 64] = [kind |-> c \div 64, fn |-> c % 64]
    BY <1>2, <2>2, Zenon
  <2>4. b \div 64 = c \div 64 /\ b % 64 = c % 64
    BY <2>3, Zenon
  <2> QED
    BY <2>4
<1> QED
  BY <1>1, <1>2, Zenon DEF PressesDecode, Button, Marks

\* A turnout is reported under the number that would throw the next one.
LEMMA ReportsLemma == ReportsAreOneAhead
<1> SUFFICES ASSUME NEW t \in WireAddr, NEW diverging \in BOOLEAN,
                    NEW p, p = TurnoutInfoPacket(t, diverging)
             PROVE  /\ TurnoutCommand(p[2], p[3], 8 + (p[4] - 1))
                         = {[turnout |-> t + 1, diverging |-> diverging]}
                    /\ XorOf(p) = 0
  BY Zenon DEF ReportsAreOneAhead
<1>1. t \in FourteenBits
  BY Z21CodecAssumption DEF FourteenBits
<1>2. PICK h \in Nat, l \in Nat : h = EncodeAddress(t).msb /\ l = EncodeAddress(t).lsb
  BY <1>1 DEF EncodeAddress, FourteenBits
<1>3. PICK z \in {1, 2} : z = IF diverging THEN 2 ELSE 1
  OBVIOUS
<1>4. PICK msg : msg = <<67, h, l, z>>
  OBVIOUS
<1>5. p = Append(msg, XorOf(msg))
  BY <1>2, <1>3, <1>4 DEF TurnoutInfoPacket
<1>6. msg \in Seq(Nat) /\ Len(msg) = 4 /\ msg[2] = h /\ msg[3] = l /\ msg[4] = z
  BY <1>4
<1>7. XorOf(p) = 0 /\ \A i \in 1 .. Len(msg) : p[i] = msg[i]
  BY <1>5, <1>6, ClosedKeeps, Zenon
<1>8. p[2] = h /\ p[3] = l /\ p[4] = z
  BY <1>6, <1>7
<1>9. PICK b : b = 8 + (z - 1)
  OBVIOUS
<1>10. Bit(b, 3) = 1 /\ ((Bit(b, 0) = 1) <=> diverging)
  <2>1. b \in Nat /\ (b \div 8) % 2 = 1 /\ (b \div 1) % 2 = z - 1
    BY <1>9
  <2>2. Bit(b, 3) = 1 /\ Bit(b, 0) = z - 1
    BY <2>1, BitAt
  <2> QED
    BY <1>3, <2>2
<1>11. DecodeAddress(h, l) = t
  BY <1>1, <1>2, AddressBack
<1>12. TurnoutCommand(h, l, b) = {[turnout |-> t + 1, diverging |-> diverging]}
  <2>1. Bit(b, 3) # 0 /\ (Bit(b, 0) = 1) = diverging
    BY <1>10
  <2> QED
    BY <1>11, <2>1, Zenon DEF TurnoutCommand
<1> QED
  BY <1>7, <1>8, <1>9, <1>12, Zenon

\* Nothing of a command or of a state is lost in a packet: what the encoders
\* write of a loco, the decoders read, for every address, speed and function, and
\* a turnout's position; its number comes back as one more.
THEOREM CodecLosesNothing == NothingLost
BY Survives, KnobLemma, PressesLemma, ReportsLemma DEF NothingLost

\* Whatever the server does, its packets and its callers' states agree.
THEOREM CodecCorrect == Spec => []CodecKeepsState
<1>1. CodecKeepsState
  BY CodecLosesNothing DEF CodecKeepsState
<1>. QED BY <1>1, PTL
=============================================================================
