-------------------------------- MODULE Layout --------------------------------
(***************************************************************************)
(* What belongs to no loco: the turnouts, and whether the layout runs.     *)
(* CommandRouter passes both between ECoS and the three throttle protocols *)
(* and keeps a small cache of positions for throttles that ask; the        *)
(* turnout half of EcosInterface keeps, across connections, which object   *)
(* of the ECoS has which address, views them one at a time, and asks for   *)
(* their positions.  The loco half of the link, and its failures, are in   *)
(* EcosLink; a connection is up or down here.  EcosInterface::update() is  *)
(* a ReadReply for each reply it finds and an EndPass; nothing else of the *)
(* bridge runs in between, ECoS does.                                      *)
(***************************************************************************)
EXTENDS Naturals, Sequences, FiniteSets, SequencesExt

CONSTANTS
    Addr,           \* turnout addresses
    Ids,            \* accessory objects of the ECoS
    FirstAddr,      \* their addresses at first: [Ids -> Addr]
    FirstPos,       \* their positions at first: [Ids -> Positions]
    MaxKnown,       \* MAX_KNOWN_ACCESSORIES
    MaxMapped,      \* MAX_ECOS_ACCESSORIES
    MaxOps,         \* bound on commands, queries and the operator's doings
    MaxEdits,       \* bound on changes of an address at the ECoS
    MaxFaults,      \* bound on lost connections
    Unknown, NoId

Positions == {0, 1}                             \* straight, diverging
Protocols == {"xnet", "z21", "lnet"}
Powers == {"csNormal", "csEmergencyStop", "csTrackVoltageOff"}

ASSUME LayoutAssumption ==
    /\ FirstAddr \in [Ids -> Addr] /\ FirstPos \in [Ids -> Positions] /\ IsFiniteSet(Ids)
    /\ Unknown \notin Positions /\ NoId \notin Ids
    /\ {MaxKnown, MaxMapped, MaxOps, MaxEdits, MaxFaults} \subseteq Nat

VARIABLES
    connected,  \* current_status = CONNECTED
    reading,    \* update() is in its loop over the replies
    map,        \* accessory_address_map: [addr, id, subscribed]
    known,      \* known_accessories: [addr, pos]
    shown,      \* what each protocol's throttles were last told, or did
    xnetPower,  \* Railpower, as broadcast
    z21Stop,    \* emergency_stop_active, as broadcast
    trk,        \* the track status LocoNet slots carry: [power, running]
    toEcos, fromEcos,
    station,    \* ECoS: [addrOf, pos, viewed, watched, go]
    edited,     \* history: addresses objects shared, left or were given
    current,    \* history: no such edit since the connection was made
    ops, edits, faults

power == <<xnetPower, z21Stop, trk>>
bridge == <<reading, map, known, shown, power>>
vars == <<connected, bridge, toEcos, fromEcos, station, edited, current, ops, edits, faults>>

Entries == [addr : Addr, id : Ids, subscribed : BOOLEAN]
Cmd(op, id) == [op |-> op, id |-> id]
Switch(a, d) == [op |-> "switch", addr |-> a, pos |-> d]
Commands == [op : {"query", "watch", "status", "stop", "go"}, id : {NoId}]
            \cup [op : {"view", "get"}, id : Ids]
            \cup [op : {"switch"}, addr : Addr, pos : Positions]
State(i, d) == [kind |-> "state", id |-> i, pos |-> d]
Object(i, a) == [kind |-> "object", id |-> i, addr |-> a]
Run(go) == [kind |-> IF go THEN "go" ELSE "stop"]
Messages == [kind : {"state"}, id : Ids, pos : Positions]
            \cup [kind : {"object"}, id : Ids, addr : Addr] \cup [kind : {"go", "stop"}]

-----------------------------------------------------------------------------
(* CommandRouter: the cache, and what the protocols are told.              *)
Find(a, s) == SelectInSeq(s, LAMBDA e : e.addr = a)

\* setKnownAccessoryState(): update in place, else add unless full.
HasRoomOffByOne(k) == Len(k) <= MaxKnown                                 \* slip
HasRoom(k) == Len(k) < MaxKnown
SetKnown(k, a, d) ==
    IF Find(a, k) # 0 THEN [k EXCEPT ![Find(a, k)].pos = d]
    ELSE IF HasRoom(k) THEN Append(k, [addr |-> a, pos |-> d]) ELSE k
\* getKnownAccessoryState()
GetKnown(a) == IF Find(a, known) = 0 THEN Unknown ELSE known[Find(a, known)].pos

\* handleEcosAccessoryCommand(); a throttle's command, handleAccessoryCommand(),
\* ends the same way, as its own protocol shows it by itself.
Told(a, d) ==
    /\ known' = SetKnown(known, a, d)
    /\ shown' = [p \in Protocols |-> [shown[p] EXCEPT ![a] = d]]

\* emergencyStopAll() and resumeOperation(): every protocol's
\* sendEmergencyStop() and sendResumeOperation().
Power(xnet, stopped, track) == xnetPower' = xnet /\ z21Stop' = stopped /\ trk' = track
TrackOff == [trk EXCEPT !.power = FALSE]
TrackOn == [power |-> TRUE, running |-> TRUE]
AllStopped == Power("csEmergencyStop", TRUE, TrackOff)
AllResumed == Power("csNormal", FALSE, TrackOn)

-----------------------------------------------------------------------------
(* EcosInterface: the accessory map.                                       *)
\* findAccessoryDccAddress(): the first entry with this object.
EntryOf(m, i) == SelectInSeq(m, LAMBDA e : e.id = i)
\* addAccessoryAddressMapEntry()
HasPlace(m) == Len(m) < MaxMapped
AddEntry(m, a, i) ==
    IF Find(a, m) # 0 THEN [m EXCEPT ![Find(a, m)].id = i]
    ELSE IF HasPlace(m) THEN Append(m, [addr |-> a, id |-> i, subscribed |-> FALSE])
    ELSE m

HandleReply(m) ==
    \/ m.kind = "object" /\ map' = AddEntry(map, m.addr, m.id) /\ UNCHANGED <<known, shown, power>>
    \/ /\ m.kind = "state"
       /\ IF EntryOf(map, m.id) = 0 THEN UNCHANGED <<known, shown>>
          ELSE Told(map[EntryOf(map, m.id)].addr, m.pos)
       /\ UNCHANGED <<map, power>>
    \/ m.kind = "go" /\ AllResumed /\ UNCHANGED <<map, known, shown>>
    \/ m.kind = "stop" /\ AllStopped /\ UNCHANGED <<map, known, shown>>
ReadReply ==
    /\ connected /\ fromEcos # <<>>
    /\ HandleReply(Head(fromEcos))
    /\ fromEcos' = Tail(fromEcos)
    /\ reading' = TRUE
    /\ UNCHANGED <<connected, toEcos, station, edited, current, ops, edits, faults>>

\* sendNextAccessorySubscribeStep()
NextStep(m) == SelectInSeq(m, LAMBDA e : ~e.subscribed)
Subscribed(m) == IF NextStep(m) = 0 THEN m ELSE [m EXCEPT ![NextStep(m)].subscribed = TRUE]
SubscribeStep(m) ==
    IF NextStep(m) = 0 THEN <<>>
    ELSE <<Cmd("view", m[NextStep(m)].id), Cmd("get", m[NextStep(m)].id)>>

EndPass ==
    /\ connected
    /\ reading' = FALSE
    /\ map' = Subscribed(map)
    /\ toEcos' = toEcos \o SubscribeStep(map)
    /\ UNCHANGED <<connected, known, shown, power, fromEcos, station, edited, current,
                   ops, edits, faults>>

\* attemptTcpConnect(), and its slips: old subscriptions taken for valid, the
\* run state not asked for.
UnsubscribedKeeps(m) == m
Unsubscribed(m) == [i \in DOMAIN m |-> [m[i] EXCEPT !.subscribed = FALSE]]
GreetingNoStatus == <<Cmd("query", NoId), Cmd("watch", NoId)>>
Greeting == <<Cmd("query", NoId), Cmd("watch", NoId), Cmd("status", NoId)>>
Connect ==
    /\ ~connected
    /\ connected' = TRUE
    /\ map' = Unsubscribed(map)
    /\ toEcos' = Greeting
    /\ current' = TRUE
    /\ UNCHANGED <<reading, known, shown, power, fromEcos, station, edited,
                   ops, edits, faults>>

LoseConnection ==
    /\ connected /\ ~reading /\ faults < MaxFaults
    /\ connected' = FALSE /\ faults' = faults + 1
    /\ toEcos' = <<>> /\ fromEcos' = <<>>
    /\ station' = [station EXCEPT !.viewed = {}, !.watched = FALSE]
    /\ UNCHANGED <<bridge, edited, current, ops, edits>>

-----------------------------------------------------------------------------
(* Throttles.  What is sent to ECoS without a connection is dropped.       *)
Operate == ops < MaxOps /\ ops' = ops + 1
Send(cmd) == toEcos' = IF connected THEN Append(toEcos, cmd) ELSE toEcos
OnlyThrottle ==
    /\ ~reading
    /\ UNCHANGED <<connected, reading, map, fromEcos, station, edited, current, edits, faults>>

ThrottleThrows(a, d) ==
    /\ Operate
    /\ Told(a, d)
    /\ Send(Switch(a, d))
    /\ UNCHANGED power
    /\ OnlyThrottle

(* onTurnoutInfoRequest() answers "not controlled", GET_TURNOUT_INFO        *)
(* straight, and OPC_SW_STATE nothing for a turnout that is not known.     *)
Answer(p, a) ==
    IF GetKnown(a) # Unknown THEN GetKnown(a)
    ELSE CASE p = "xnet" -> Unknown [] p = "z21" -> 0 [] p = "lnet" -> shown[p][a]
ThrottleAsks(p, a) ==
    /\ Operate
    /\ shown' = [shown EXCEPT ![p][a] = Answer(p, a)]
    /\ UNCHANGED <<known, power, toEcos>>
    /\ OnlyThrottle

\* onPowerStateChange(); Z21's stop, off and on; OPC_GPOFF, OPC_IDLE, OPC_GPON:
\* the protocol's own state as its handler leaves it, and the router's part.
FromXNet(p) ==
    /\ Power(p, p # "csNormal", IF p = "csNormal" THEN TrackOn ELSE TrackOff)
    /\ Send(Cmd(IF p = "csNormal" THEN "go" ELSE "stop", NoId))
FromZ21(stop) ==
    /\ IF stop THEN AllStopped ELSE AllResumed
    /\ Send(Cmd(IF stop THEN "stop" ELSE "go", NoId))
FromLocoNet(opcode) ==
    /\ CASE opcode = "GPON" -> AllResumed
         [] opcode = "GPOFF" -> AllStopped
         [] opcode = "IDLE" ->
              Power("csEmergencyStop", TRUE, [trk EXCEPT !.running = FALSE])
    /\ Send(Cmd(IF opcode = "GPON" THEN "go" ELSE "stop", NoId))
ThrottlePower ==
    /\ Operate
    /\ \/ \E p \in Powers : FromXNet(p)
       \/ \E stop \in BOOLEAN : FromZ21(stop)
       \/ \E opcode \in {"GPON", "GPOFF", "IDLE"} : FromLocoNet(opcode)
    /\ UNCHANGED <<known, shown>>
    /\ OnlyThrottle

-----------------------------------------------------------------------------
(* ECoS, from how the bridge uses it: commands in their order, and events  *)
(* of what changes and is viewed.                                          *)
With(a, d) == {i \in Ids : station.addrOf[i] = a /\ station.pos[i] # d}
Thrown(a, d) == [i \in Ids |-> IF i \in With(a, d) THEN d ELSE station.pos[i]]
Events(a, d) ==
    LET ids == SetToSeq(With(a, d) \cap station.viewed)
    IN  [k \in DOMAIN ids |-> State(ids[k], d)]
Objects ==
    LET ids == SetToSeq(Ids) IN [k \in DOMAIN ids |-> Object(ids[k], station.addrOf[ids[k]])]
Processed(c) ==
    CASE c.op = "view" -> [station EXCEPT !.viewed = @ \cup {c.id}]
      [] c.op = "watch" -> [station EXCEPT !.watched = TRUE]
      [] c.op = "switch" -> [station EXCEPT !.pos = Thrown(c.addr, c.pos)]
      [] c.op \in {"stop", "go"} -> [station EXCEPT !.go = (c.op = "go")]
      [] OTHER -> station
Answers(c) ==
    CASE c.op = "query" -> Objects
      [] c.op = "status" -> <<Run(station.go)>>
      [] c.op = "get" -> <<State(c.id, station.pos[c.id])>>
      [] c.op = "switch" -> Events(c.addr, c.pos)
      [] c.op \in {"stop", "go"} /\ station.watched /\ station.go # (c.op = "go") ->
           <<Run(c.op = "go")>>
      [] OTHER -> <<>>
StationStep ==
    /\ toEcos # <<>>
    /\ toEcos' = Tail(toEcos)
    /\ station' = Processed(Head(toEcos))
    /\ fromEcos' = fromEcos \o Answers(Head(toEcos))
    /\ UNCHANGED <<connected, bridge, edited, current, ops, edits, faults>>

OperatorThrows(a, d) ==
    /\ Operate
    /\ With(a, d) # {}
    /\ station' = [station EXCEPT !.pos = Thrown(a, d)]
    /\ fromEcos' = fromEcos \o Events(a, d)
    /\ UNCHANGED <<connected, bridge, toEcos, edited, current, edits, faults>>

OperatorRuns ==
    /\ Operate
    /\ station' = [station EXCEPT !.go = ~@]
    /\ fromEcos' = IF station.watched THEN Append(fromEcos, Run(~station.go)) ELSE fromEcos
    /\ UNCHANGED <<connected, bridge, toEcos, edited, current, edits, faults>>

\* A turnout gets another address at the ECoS; nobody is told.
Readdress(i, a) ==
    /\ edits < MaxEdits /\ edits' = edits + 1
    /\ a # station.addrOf[i]
    /\ station' = [station EXCEPT !.addrOf[i] = a]
    /\ edited' = edited \cup {a, station.addrOf[i]}
    /\ current' = FALSE
    /\ UNCHANGED <<connected, bridge, toEcos, fromEcos, ops, faults>>

-----------------------------------------------------------------------------
Init ==
    /\ connected = FALSE /\ reading = FALSE
    /\ map = <<>> /\ known = <<>>
    /\ shown = [p \in Protocols |-> [a \in Addr |-> Unknown]]
    /\ xnetPower = "csNormal" /\ z21Stop = FALSE
    /\ trk = [power |-> FALSE, running |-> TRUE]
    /\ toEcos = <<>> /\ fromEcos = <<>>
    /\ station \in [addrOf : {FirstAddr}, pos : {FirstPos}, viewed : {{}},
                    watched : {FALSE}, go : BOOLEAN]
    /\ edited = {a \in Addr : \E i, j \in Ids : i # j /\ FirstAddr[i] = a /\ FirstAddr[j] = a}
    /\ current = TRUE
    /\ ops = 0 /\ edits = 0 /\ faults = 0

Next ==
    \/ ReadReply \/ EndPass \/ Connect \/ LoseConnection \/ StationStep \/ ThrottlePower \/ OperatorRuns
    \/ \E a \in Addr, d \in Positions : ThrottleThrows(a, d) \/ OperatorThrows(a, d)
    \/ \E p \in Protocols, a \in Addr : ThrottleAsks(p, a)
    \/ \E i \in Ids, a \in Addr : Readdress(i, a)

Spec == Init /\ [][Next]_vars

-----------------------------------------------------------------------------
TypeOK ==
    /\ connected \in BOOLEAN /\ reading \in BOOLEAN
    /\ map \in Seq(Entries) /\ Len(map) <= MaxMapped
    /\ known \in Seq([addr : Addr, pos : Positions]) /\ Len(known) <= MaxKnown
    /\ shown \in [Protocols -> [Addr -> Positions \cup {Unknown}]]
    /\ xnetPower \in Powers /\ z21Stop \in BOOLEAN
    /\ trk \in [power : BOOLEAN, running : BOOLEAN]
    /\ toEcos \in Seq(Commands) /\ fromEcos \in Seq(Messages)
    /\ station \in [addrOf : [Ids -> Addr], pos : [Ids -> Positions],
                    viewed : SUBSET Ids, watched : BOOLEAN, go : BOOLEAN]
    /\ edited \subseteq Addr /\ current \in BOOLEAN
    /\ ops \in 0 .. MaxOps /\ edits \in 0 .. MaxEdits /\ faults \in 0 .. MaxFaults

Settled == connected /\ toEcos = <<>> /\ fromEcos = <<>> /\ NextStep(map) = 0
Agrees(i) ==
    LET a == station.addrOf[i]
    IN  IF EntryOf(map, i) = 0 THEN ~HasPlace(map)
        ELSE IF Find(a, known) = 0 THEN ~HasRoom(known)
        ELSE /\ GetKnown(a) = station.pos[i]
             /\ \A p \in Protocols : shown[p][a] = station.pos[i]

(* Several throttles and the operator throw the same turnout, commands and *)
(* events cross, the connection is lost and the position changes meanwhile: *)
(* once nothing is in flight, the cache and every protocol have it where   *)
(* it is, also if nobody threw it or asked.  (If cache and map have room   *)
(* for it; and not one whose address another object has or had.)           *)
TurnoutsAgree == Settled => \A i \in Ids : station.addrOf[i] \notin edited => Agrees(i)

(* The same for turnouts whose address was changed before this connection: *)
(* ecos_interface.h:211 "a bridge reconnect already picks up any change".  *)
ReconnectPicksUpChanges == Settled /\ current => \A i \in Ids : Agrees(i)

(* Three notions of stop, each kept by its own protocol and changed from   *)
(* two sides: they all end up as ECoS has it, whoever was last.            *)
StopAgrees ==
    Settled => /\ (xnetPower = "csNormal") = station.go
               /\ z21Stop = ~station.go
               /\ (trk.power /\ trk.running) = station.go
=============================================================================
