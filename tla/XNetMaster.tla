------------------------------ MODULE XNetMaster ------------------------------
(***************************************************************************)
(* The XpressNet side of the bridge: XpressNetInterface and the bus master *)
(* library under it.  The master gives one device after the other a window *)
(* in which it may send one message, remembers which device works with     *)
(* which loco, and mirrors what the other protocols change by messages     *)
(* that throttles overhear.  Everything it sends goes through a ring of    *)
(* RingSize messages, emptied only when it opens the next window; the      *)
(* router writes into it at any time, and nothing checks that it is full.  *)
(*                                                                         *)
(* "bus" is what a throttle that listens has last learnt about each loco   *)
(* from messages throttles act on: a throttle's own, and those sent in its *)
(* manner.  The plain broadcasts of setSpeed() and setFunc..() fill the    *)
(* ring but do not count, as a MultiMaus ignores them.  Master mode only:  *)
(* the bridge is the only master on its bus.  Byte formats: XNetCodec.     *)
(*                                                                         *)
(* XpressNetMasterClass::update() is a Timeout or an Answer, a FlushPlace  *)
(* for each refresh that is due and an OpenWindow; nothing else of the     *)
(* bridge runs in between.                                                 *)
(***************************************************************************)
EXTENDS Naturals, Sequences, FiniteSets, SequencesExt, FiniteSetsExt, XNetCodec

CONSTANTS
    SlotCount,          \* 32 device addresses, 0 not used
    AdrRange,           \* 256 values of XNetAdr
    External,           \* XNetExternalControllerSlot
    Devices,            \* device addresses in use on the bus
    Addr, Speeds, Bits, \* locos; speed bytes; contents of a function group
    FnGroups,           \* "f0", "f5", "f9": F0-F4, F5-F8, F9-F12
    RingSize,           \* XNetBufferSize
    PendingCount,       \* XNetPendingRefreshCount
    KnownCount,         \* places of RefreshKnown
    MaxOps,             \* bound on messages of devices and changes by others
    Inactive,           \* 0xFFFF: nothing ever heard from this slot
    NoLoco,             \* 0: a device, but no loco
    NoSlot

Groups == FnGroups \cup {"speed"}
ValuesOf(g) == IF g = "speed" THEN Speeds ELSE Bits
States == {st \in [Groups -> Speeds \cup Bits] : \A g \in Groups : st[g] \in ValuesOf(g)}
Slots == 0 .. SlotCount - 1
Powers == {"csNormal", "csEmergencyStop", "csTrackVoltageOff"}
FnMessages == 6                         \* setFunc13to20() sends two
NoticeLimit == 3

ASSUME XNetAssumption ==
    /\ SlotCount \in Nat \ {0, 1} /\ AdrRange \in Nat /\ AdrRange % SlotCount = 0
    /\ AdrRange > SlotCount
    /\ FnGroups \subseteq {"f0", "f5", "f9"}
    /\ External \in Slots \ {0} /\ Devices \subseteq Slots \ {0, External}
    /\ RingSize \in Nat \ {0} /\ PendingCount \in Nat \ {0} /\ KnownCount \in Nat \ {0}
    /\ 0 \in Speeds /\ 0 \in Bits /\ IsFiniteSet(Addr)
    /\ {Inactive, NoLoco} \cap Addr = {} /\ NoSlot \notin Slots
    /\ MaxOps \in Nat

VARIABLES
    place,      \* 0 in a window; in update(), the next place to flush
    xnetAdr,    \* XNetAdr
    asked,      \* the slot of DirectedOps, the device being answered
    slots,      \* SlotLokUse
    tx,         \* XNetTXBuffer: msg[] and put, both counted from get
    known,      \* RefreshKnown: [adr, st]
    knownNext,  \* RefreshKnownNext
    pending,    \* PendingRefresh: [adr, st, dirty], Unused if not used
    resting,    \* pending places whose last_sent_ms is under 100 ms ago
    railpower,  \* Railpower
    table,      \* the router's loco table
    bus,        \* see above
    heardPower, \* the last power broadcast
    called,     \* the device that may answer: the last call on the bus
    overrun,    \* history: an unsent message was overwritten
    unshown,    \* history: changes the code itself gives up mirroring
    ops

vars == <<place, xnetAdr, asked, slots, tx, known, knownNext, pending, resting, railpower,
          table, bus, heardPower, called, overrun, unshown, ops>>

Default == [g \in Groups |-> 0]
Unused == [adr |-> NoLoco, st |-> Default, dirty |-> {}]

\* Messages in the ring, with what a listener makes of them.
Inquiry(s) == [kind |-> "inquiry", slot |-> s]
Reply(s) == [kind |-> "reply", slot |-> s]
Busy(s, a) == [kind |-> "busy", slot |-> s, adr |-> a]
Overheard(a, g, v) == [kind |-> "overheard", adr |-> a, group |-> g, val |-> v]
Own(a, g, v) == [kind |-> "own", adr |-> a, group |-> g, val |-> v]
Plain == [kind |-> "plain"]
PowerBroadcast(p) == [kind |-> "power", power |-> p]
Empty == [kind |-> "empty"]
Messages == {Inquiry(s) : s \in Slots} \cup {Reply(s) : s \in Slots}
            \cup {Busy(s, a) : s \in Slots, a \in Addr}
            \cup {Overheard(a, "speed", v) : a \in Addr, v \in Speeds}
            \cup {Overheard(a, g, F) : a \in Addr, g \in FnGroups, F \in Bits}
            \cup {Plain} \cup {PowerBroadcast(p) : p \in Powers}

SeqIf(cond, s) == IF cond THEN s ELSE <<>>
Repeat(m, n) == [i \in 1 .. n |-> m]

-----------------------------------------------------------------------------
(* XNetsend(): the ring takes every message, full or not.                  *)
Landing(q, j) == (q.put + j - 1) % RingSize
Queued(q, msgs) ==
    LET lands(i) == {j \in 1 .. Len(msgs) : Landing(q, j) = i}
    IN  [ring |-> [i \in 0 .. RingSize - 1 |->
                     IF lands(i) = {} THEN q.ring[i] ELSE msgs[Max(lands(i))]],
         put |-> (q.put + Len(msgs)) % RingSize]
Overwrites(q, msgs) ==
    \E j \in 1 .. Len(msgs) : j > RingSize \/ q.ring[Landing(q, j)] # Empty

(* XNetSendData(), XNetReadBuffer(): from get on, whatever is there; the   *)
(* test is for an empty place, not for get having reached put.             *)
Filled(q) == CHOOSE k \in 0 .. RingSize :
                /\ \A i \in 0 .. k - 1 : q.ring[i] # Empty
                /\ k = RingSize \/ q.ring[k] = Empty
Unsent(q) == [i \in 1 .. Filled(q) |-> q.ring[i - 1]]
Sent(q) ==
    [ring |-> [i \in 0 .. RingSize - 1 |->
                 IF i + Filled(q) < RingSize THEN q.ring[i + Filled(q)] ELSE Empty],
     put |-> (q.put + RingSize - Filled(q)) % RingSize]

-----------------------------------------------------------------------------
(* What listeners make of the messages that went out: of each kind, the    *)
(* last one counts.  An inquiry gives its slot the bus until the next call *)
(* byte.                                                                   *)
About(wire, a, g) ==
    {k \in DOMAIN wire : /\ wire[k].kind \in {"overheard", "own"}
                         /\ wire[k].adr = a /\ wire[k].group = g}
Learnt(wire) ==
    [a \in Addr |-> [g \in Groups |-> IF About(wire, a, g) = {} THEN bus[a][g]
                                      ELSE wire[Max(About(wire, a, g))].val]]
PowerNews(wire) == {k \in DOMAIN wire : wire[k].kind = "power"}
PowerHeard(wire) ==
    IF PowerNews(wire) = {} THEN heardPower ELSE wire[Max(PowerNews(wire))].power
Calls(wire) == {k \in DOMAIN wire : wire[k].kind # "plain"}
CalledBy(m) ==
    CASE m.kind = "inquiry" -> m.slot [] m.kind = "overheard" -> External [] OTHER -> NoSlot
MayAnswer(wire) == IF Calls(wire) = {} THEN NoSlot ELSE CalledBy(wire[Max(Calls(wire))])

\* XNetSendData(): "before" is what was on the bus in this pass already.
Transmit(q, before) ==
    \E wire \in {before \o Unsent(q)} :
        /\ tx' = Sent(q)
        /\ bus' = Learnt(wire) /\ heardPower' = PowerHeard(wire)
        /\ called' = MayAnswer(wire)

-----------------------------------------------------------------------------
\* Nobody answered within XNetTransmissionWindow.
Timeout ==
    /\ place = 0
    /\ place' = 1
    /\ UNCHANGED <<xnetAdr, asked, slots, tx, known, knownNext, pending, resting, railpower,
                   table, bus, heardPower, called, overrun, unshown, ops>>

\* sendOverheardLocoState(), and the busy notices of refresh mode 2.
OverheardState(e) ==
    LET part(g) == SeqIf(g \in e.dirty, <<Overheard(e.adr, g, e.st[g])>>)
    IN  part("f0") \o part("f5") \o part("f9") \o part("speed")
Holders(a) == {s \in Slots \ {0} : slots[s] = a}
Present == {s \in Slots \ {0, External} : slots[s] # Inactive}
FirstPresent == {s \in Present : Cardinality({t \in Present : t < s}) < NoticeLimit}
Notified(a) == IF Holders(a) # {} THEN Holders(a) ELSE FirstPresent
BusyTo(S, a) == LET to == SetToSeq(S) IN [i \in 1 .. Len(to) |-> Busy(to[i], a)]
Refresh(e) == OverheardState(e) \o BusyTo(Notified(e.adr), e.adr)

\* flushPendingRefresh(), one place at a time; those not due are passed over.
Due(i) == pending[i] # Unused /\ i \notin resting
FlushPlace(i) ==
    /\ place # 0 /\ i >= place
    /\ Due(i) /\ \A j \in place .. i - 1 : ~Due(j)
    /\ place' = i + 1
    /\ tx' = Queued(tx, Refresh(pending[i]))
    /\ overrun' = (overrun \/ Overwrites(tx, Refresh(pending[i])))
    /\ pending' = [pending EXCEPT ![i] = Unused]
    /\ resting' = resting \cup {i}
    /\ UNCHANGED <<xnetAdr, asked, slots, known, knownNext, railpower, table, bus,
                   heardPower, called, unshown, ops>>

(* getNextXNetAdr(): every address once, then for the rest of the range    *)
(* only those that were ever heard from.  "active" are these, slots are    *)
(* 0 .. count - 1, and XNetAdr wraps at range.                             *)
NextAdr(adr, range) == IF (adr + 1) % range = 0 THEN 1 ELSE adr + 1
\* The first active slot from "first" on; "count" if there is none.
Stop(first, active, count) ==
    LET ahead == {s \in active : s >= first}
    IN  IF ahead = {} THEN count ELSE CHOOSE s \in ahead : \A t \in ahead : s <= t
\* Slips: unused slots are skipped in the first round, too; the end of the
\* range of slots is asked for as a slot of its own.
PollOnlyUsed(adr, active, count, range) ==
    LET n == NextAdr(adr, range)
        stop == Stop(n % count, active, count)
    IN  [adr |-> ((n + stop) - (n % count)) % range, slot |-> IF stop % count = 0 THEN 1 ELSE stop]
PollPastEnd(adr, active, count, range) ==
    LET n == NextAdr(adr, range)
        stop == Stop(n % count, active, count)
    IN  IF n < count THEN [adr |-> n, slot |-> n]
        ELSE [adr |-> ((n + stop) - (n % count)) % range, slot |-> stop]
Poll(adr, active, count, range) ==
    LET n == NextAdr(adr, range)
        stop == Stop(n % count, active, count)
    IN  IF n < count THEN [adr |-> n, slot |-> n % count]
        ELSE [adr |-> ((n + stop) - (n % count)) % range,
              slot |-> IF stop % count = 0 THEN 1 ELSE stop]
NextPoll == Poll(xnetAdr, {s \in Slots : slots[s] # Inactive}, SlotCount, AdrRange)

\* The call byte of the new window goes behind the refreshes (the slip: before
\* them), and the ring is emptied.
OpenedFirst(q, s) ==
    [ring |-> [i \in 0 .. RingSize - 1 |-> IF i = 0 THEN Inquiry(s) ELSE q.ring[i - 1]],
     put |-> (q.put + 1) % RingSize]
Opened(q, s) == Queued(q, <<Inquiry(s)>>)
OpenWindow ==
    /\ place # 0 /\ \A i \in place .. PendingCount : ~Due(i)
    /\ place' = 0
    /\ \E next \in {NextPoll} :
           /\ xnetAdr' = next.adr /\ asked' = next.slot
           /\ \E q \in {Opened(tx, next.slot)} : Transmit(q, <<>>)
           /\ overrun' = (overrun \/ Overwrites(tx, <<Inquiry(next.slot)>>))
    /\ UNCHANGED <<slots, known, knownNext, pending, resting, railpower, table, unshown, ops>>

-----------------------------------------------------------------------------
(* RefreshKnown: what throttles are taken to show of a loco.               *)
KnownAt(a) == {k \in 1 .. KnownCount : known[k].adr = a}
Remember(a, st) ==
    LET k == IF KnownAt(a) # {} THEN Min(KnownAt(a)) ELSE knownNext
    IN  /\ known' = [known EXCEPT ![k] = [adr |-> a, st |-> st]]
        /\ knownNext' = IF KnownAt(a) # {} THEN knownNext ELSE (knownNext % KnownCount) + 1

\* QueueLocoRefresh(), for the state a loco has now.
Changed(a, st) ==
    IF KnownAt(a) = {} THEN Groups
    ELSE {g \in Groups : known[Min(KnownAt(a))].st[g] # st[g]}
Places(P(_)) == {i \in 1 .. PendingCount : P(pending[i])}
PlaceFor(a) ==
    LET same == Places(LAMBDA e : e.adr = a)
        free == Places(LAMBDA e : e = Unused)
    IN  IF same # {} THEN same ELSE IF free # {} THEN {Min(free)} ELSE {}
DirtyOnlyLatest(i, a, st) == Changed(a, st)        \* slip: earlier changes dropped
Dirty(i, a, st) == pending[i].dirty \cup Changed(a, st)
QueueLocoRefresh(a, st) ==
    /\ Remember(a, st)
    /\ IF Changed(a, st) = {} \/ PlaceFor(a) = {}
       THEN /\ unshown' = unshown \cup ({a} \X Changed(a, st))
            /\ UNCHANGED pending
       ELSE LET i == CHOOSE i \in PlaceFor(a) : TRUE
                dirty == Dirty(i, a, st)
            IN  /\ pending' = [pending EXCEPT ![i] = [adr |-> a, st |-> st, dirty |-> dirty]]
                /\ unshown' = unshown \ ({a} \X dirty)

-----------------------------------------------------------------------------
(* A device answers in its window.  The library sees one whole message and *)
(* takes it for one of "asked"; its replies go out before the next window. *)
Operate == place = 0 /\ ops < MaxOps /\ ops' = ops + 1

Received(d, own, replies, use) ==
    /\ Operate /\ called = d
    /\ slots' = use
    /\ \E q \in {Queued(tx, replies)} : Transmit(q, own)
    /\ overrun' = (overrun \/ Overwrites(tx, replies))
    /\ place' = 1
    /\ UNCHANGED <<xnetAdr, asked, pending, resting>>

\* AddBusySlot(), SetBusy(): nobody is told if the slot had the loco already.
Losers(a) == IF slots[asked] = a THEN {} ELSE {s \in Slots \ {0, asked} : slots[s] = a}
BusyNotices(a) == BusyTo(Losers(a), a)
WithLoco(a) == [s \in Slots |-> IF s = asked THEN a
                                ELSE IF s \in Losers(a) THEN NoLoco ELSE slots[s]]

\* onLocoDrive128(), onLocoDriveStepped(); the others' displays follow the
\* message itself, but a refresh still queued will undo that.
Undone(a, g) ==
    IF \E i \in 1 .. PendingCount : pending[i].adr = a /\ g \in pending[i].dirty
    THEN unshown \cup {<<a, g>>} ELSE unshown \ {<<a, g>>}
Drive(d, a, v) ==
    LET st == [table[a] EXCEPT !.speed = v] IN
    /\ Received(d, <<Own(a, "speed", v)>>, BusyNotices(a), WithLoco(a))
    /\ table' = [table EXCEPT ![a] = st]
    /\ Remember(a, st)
    /\ unshown' = Undone(a, "speed")
    /\ UNCHANGED railpower

\* onLocoFunctionGroup(), answered with the whole state.
PressFunction(d, a, g, F) ==
    LET st == [table[a] EXCEPT ![g] = F] IN
    /\ Received(d, <<Own(a, g, F)>>, Append(BusyNotices(a), Reply(asked)), WithLoco(a))
    /\ table' = [table EXCEPT ![a] = st]
    /\ Remember(a, st)
    /\ unshown' = Undone(a, g)
    /\ UNCHANGED railpower

\* A drive message with a speed onLocoDrive128() refuses.
RefusedDrive(d, a) ==
    /\ Received(d, <<>>, BusyNotices(a), WithLoco(a))
    /\ UNCHANGED <<known, knownNext, railpower, table, unshown>>

\* onGiveLocoInfo(), onGiveLocoMM(): RegisterLocoSlot() and the answer.
Select(d, a) ==
    /\ Received(d, <<>>, <<Reply(asked)>>, [slots EXCEPT ![asked] = a])
    /\ UNCHANGED <<known, knownNext, railpower, table, unshown>>

\* Status and version requests: all that makes a device without a loco known.
AskStatus(d) ==
    /\ Received(d, <<>>, <<Reply(asked)>>,
                [slots EXCEPT ![asked] = IF @ = Inactive THEN NoLoco ELSE @])
    /\ UNCHANGED <<known, knownNext, railpower, table, unshown>>

\* Other requests, unknown() ones and messages with a bad XOR: one reply.
OtherRequest(d) ==
    /\ Received(d, <<>>, <<Reply(asked)>>, slots)
    /\ UNCHANGED <<known, knownNext, railpower, table, unshown>>

\* emergencyStopAll() for the locos; no refresh is queued for them.
AllStopped == [a \in Addr |-> [table[a] EXCEPT !.speed = 0]]
SpeedsLost == {<<a, "speed">> : a \in {b \in Addr : table[b].speed # 0}}
StopMessages == Repeat(Plain, Cardinality(Addr))

\* onPowerStateChange(): setPower() first, then the router.
SwitchPower(d, p) ==
    LET stops == p # "csNormal"
        messages == <<PowerBroadcast(p)>> \o SeqIf(stops, StopMessages)
    IN  /\ Received(d, <<>>, messages,
                    [slots EXCEPT ![asked] = IF @ = Inactive /\ p # "csEmergencyStop"
                                             THEN NoLoco ELSE @])
        /\ railpower' = p
        /\ table' = IF stops THEN AllStopped ELSE table
        /\ unshown' = IF stops THEN unshown \cup SpeedsLost ELSE unshown
        /\ UNCHANGED <<known, knownNext>>

Answer ==
    \E d \in Devices :
        \/ AskStatus(d) \/ OtherRequest(d)
        \/ \E p \in Powers : SwitchPower(d, p)
        \/ \E a \in Addr :
            \/ Select(d, a) \/ RefusedDrive(d, a)
            \/ \E v \in Speeds : Drive(d, a, v)
            \/ \E g \in FnGroups, F \in Bits : PressFunction(d, a, g, F)

-----------------------------------------------------------------------------
(* The other protocols, through the router, at any time between two passes *)
(* of update(); nothing is transmitted before the next pass.               *)
FromRouter(msgs) ==
    /\ Operate
    /\ tx' = Queued(tx, msgs)
    /\ overrun' = (overrun \/ Overwrites(tx, msgs))
    /\ UNCHANGED <<place, xnetAdr, asked, slots, resting, bus, heardPower, called>>

\* broadcastToAllInterfaces(): speed, functions if they changed, refresh.
OthersDrive(a, v) ==
    LET st == [table[a] EXCEPT !.speed = v] IN
    /\ FromRouter(<<Plain>>)
    /\ table' = [table EXCEPT ![a] = st]
    /\ QueueLocoRefresh(a, st)
    /\ UNCHANGED railpower

OthersPressFunction(a, g, F) ==
    LET st == [table[a] EXCEPT ![g] = F] IN
    /\ FromRouter(Repeat(Plain, 1 + FnMessages))
    /\ table' = [table EXCEPT ![a] = st]
    /\ QueueLocoRefresh(a, st)
    /\ UNCHANGED railpower

\* isEchoOfRecentCommand(): a change of the station not passed on.
Withheld(a, g, v) ==
    /\ Operate
    /\ v # table[a][g]
    /\ table' = [table EXCEPT ![a][g] = v]
    /\ unshown' = unshown \cup {<<a, g>>}
    /\ UNCHANGED <<place, xnetAdr, asked, slots, tx, known, knownNext, pending, resting,
                   railpower, bus, heardPower, called, overrun>>

\* sendEmergencyStop(), sendResumeOperation()
OthersStop ==
    /\ FromRouter(StopMessages \o <<PowerBroadcast("csEmergencyStop")>>)
    /\ railpower' = "csEmergencyStop"
    /\ table' = AllStopped
    /\ unshown' = unshown \cup SpeedsLost
    /\ UNCHANGED <<known, knownNext, pending>>

OthersResume ==
    /\ FromRouter(<<PowerBroadcast("csNormal")>>)
    /\ railpower' = "csNormal"
    /\ UNCHANGED <<known, knownNext, pending, table, unshown>>

\* PushExternalTurnoutUpdate(): a call byte for External, then its message.
OthersTurnout ==
    /\ FromRouter(<<Reply(External), Plain>>)
    /\ UNCHANGED <<known, knownNext, pending, railpower, table, unshown>>

\* 100 ms have passed since the refresh in this place was sent.
Rested(i) ==
    /\ i \in resting
    /\ resting' = resting \ {i}
    /\ UNCHANGED <<place, xnetAdr, asked, slots, tx, known, knownNext, pending, railpower,
                   table, bus, heardPower, called, overrun, unshown, ops>>

-----------------------------------------------------------------------------
\* begin() broadcasts that the track is on.
Init ==
    /\ place = 0 /\ xnetAdr = 0 /\ asked = NoSlot
    /\ slots = [s \in Slots |-> Inactive]
    /\ tx = [ring |-> [i \in 0 .. RingSize - 1 |->
                        IF i = 0 THEN PowerBroadcast("csNormal") ELSE Empty],
             put |-> 1 % RingSize]
    /\ known = [k \in 1 .. KnownCount |-> [adr |-> NoLoco, st |-> Default]]
    /\ knownNext = 1
    /\ pending = [i \in 1 .. PendingCount |-> Unused]
    /\ resting = {}
    /\ railpower = "csNormal"
    /\ table = [a \in Addr |-> Default] /\ bus = [a \in Addr |-> Default]
    /\ heardPower = "csNormal" /\ called = NoSlot
    /\ overrun = FALSE /\ unshown = {} /\ ops = 0

Others ==
    \/ OthersStop \/ OthersResume \/ OthersTurnout
    \/ \E a \in Addr :
        \/ \E v \in Speeds : OthersDrive(a, v)
        \/ \E g \in FnGroups, F \in Bits : OthersPressFunction(a, g, F)
        \/ \E g \in Groups : \E v \in ValuesOf(g) : Withheld(a, g, v)

Next ==
    \/ Timeout \/ OpenWindow \/ Answer \/ Others
    \/ \E i \in 1 .. PendingCount : FlushPlace(i) \/ Rested(i)

Spec == Init /\ [][Next]_vars

-----------------------------------------------------------------------------
EmptyRing == \A i \in 0 .. RingSize - 1 : tx.ring[i] = Empty

TypeOK ==
    /\ place \in 0 .. PendingCount + 1
    /\ xnetAdr \in 0 .. AdrRange - 1 /\ asked \in Slots \cup {NoSlot}
    /\ slots \in [Slots -> Addr \cup {Inactive, NoLoco}]
    /\ tx \in [ring : [0 .. RingSize - 1 -> Messages \cup {Empty}], put : 0 .. RingSize - 1]
    /\ known \in [1 .. KnownCount -> [adr : Addr \cup {NoLoco}, st : States]]
    /\ knownNext \in 1 .. KnownCount
    /\ pending \in [1 .. PendingCount ->
                    [adr : Addr \cup {NoLoco}, st : States, dirty : SUBSET Groups]]
    /\ resting \subseteq 1 .. PendingCount
    /\ {railpower, heardPower} \subseteq Powers
    /\ table \in [Addr -> States] /\ bus \in [Addr -> States]
    /\ called \in Slots \cup {NoSlot}
    /\ overrun \in BOOLEAN /\ unshown \subseteq Addr \X Groups /\ ops \in 0 .. MaxOps

(* The library books a message to the device it thinks it is asking, so no *)
(* other device may have been given the bus, and none while it is busy     *)
(* transmitting: refreshes, replies and the next inquiry keep their order. *)
AnswersForItself == ~overrun => called \in {NoSlot, asked}

(* Whatever mix of throttles and protocols changes a loco, and however its *)
(* refreshes are merged, delayed and thinned to the groups that changed:   *)
(* with no message left, throttles have heard what the loco table holds,   *)
(* and every one of them the power state.  (Not what the code gives up:    *)
(* see the places where "unshown" grows.)                                  *)
Mirrored ==
    ~overrun /\ EmptyRing =>
        /\ heardPower = railpower
        /\ \A a \in Addr, g \in Groups :
            <<a, g>> \notin unshown /\ (\A i \in 1 .. PendingCount : pending[i].adr # a)
                => bus[a][g] = table[a][g]

(* How many windows away a device is at most, whether it is known or not,  *)
(* and if it is known: the distance of XNetAdr to the next address that is *)
(* its own, in the first round over the slots or in any.                   *)
FirstRound(s) == IF xnetAdr < s THEN s - xnetAdr ELSE AdrRange + s - xnetAdr
AnyRound(s) ==
    LET r == xnetAdr % SlotCount IN IF r < s THEN s - r ELSE SlotCount + s - r

(* Every window is given to a device or brings its turn nearer, whichever  *)
(* devices are skipped as unused and wherever XNetAdr wraps: a device just *)
(* plugged in is asked within AdrRange windows (256), and one that was     *)
(* ever heard from within SlotCount (32), so that none can be starved by   *)
(* the way getNextXNetAdr() passes over the others.                        *)
PollingIsFair ==
    [][place' = 0 =>
         \A s \in Slots \ {0} :
            \/ asked' = s
            \/ /\ FirstRound(s)' < FirstRound(s)
               /\ slots[s] # Inactive => AnyRound(s)' < AnyRound(s)]_place

(* XpressNetMaster.cpp:1076 "at most a few so the transmit queue cannot    *)
(* overflow".                                                              *)
QueueNeverOverflows == ~overrun

(* What the callbacks make of a message and what the bridge puts into one  *)
(* mean the same, and every checksum and parity bit it adds passes its own *)
(* test.  A fact about bytes, looked at once, in the first state.          *)
BytesKeepState == Init => NothingLost
=============================================================================
