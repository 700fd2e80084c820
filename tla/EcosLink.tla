------------------------------- MODULE EcosLink -------------------------------
(***************************************************************************)
(* The bridge's TCP connection to the ECoS command station (EcosInterface) *)
(* through failures: the connection state machine, the address map that    *)
(* says which locos ECoS has, the buffer of commands that wait for it, the *)
(* re-subscription after every connect, and the emergency stop, with the   *)
(* part of CommandRouter and the loco table these work on.                 *)
(*                                                                         *)
(* A loco is its speed here: direction travels with it, functions are in   *)
(* CommandRouter.  An ECoS object is named by the DCC address it has.  One *)
(* pass of EcosInterface::update() is one step that reads at most one      *)
(* message: a pass that reads more is several with nothing in between.     *)
(* The 34 get() commands of a baseline query are one.  Heartbeat and map   *)
(* refresh only ask again for what the first query of a connection brings; *)
(* all they do here is keep a reachable ECoS from looking dead.            *)
(***************************************************************************)
EXTENDS Naturals, Sequences, FiniteSets, SequencesExt

CONSTANTS
    Addr,           \* DCC addresses throttles use
    EcosAddr,       \* those that are locos of the ECoS
    IdleAddr,       \* locos that may expire
    Speeds,         \* speed steps, 0 among them
    MaxLocos,       \* MAX_LOCOS
    MaxPending,     \* MAX_PENDING_QUERIES
    MaxOps,         \* bound on throttle and operator actions
    MaxFaults,      \* bound on network and station failures
    NoAddr, NoSpeed

Commands ==
    [op : {"query", "watch", "status", "stop", "go"}, addr : {NoAddr}, val : {NoSpeed}]
    \cup [op : {"request", "release", "get"}, addr : EcosAddr, val : {NoSpeed}]
    \cup [op : {"set"}, addr : EcosAddr, val : Speeds]
Messages ==
    [kind : {"map", "stop", "go"}, addr : {NoAddr}, val : {NoSpeed}]
    \cup [kind : {"speed"}, addr : EcosAddr, val : Speeds]

ASSUME LinkAssumption ==
    /\ 0 \in Speeds /\ Speeds \subseteq Nat /\ NoSpeed \notin Speeds
    /\ EcosAddr \subseteq Addr /\ IdleAddr \subseteq Addr /\ NoAddr \notin Addr
    /\ IsFiniteSet(Addr)
    /\ MaxLocos \in Nat /\ MaxPending \in Nat
    /\ MaxOps \in Nat /\ MaxFaults \in Nat

VARIABLES
    status,     \* current_status
    net,        \* "up", "noecos": WL_CONNECTED but no ECoS, "nowifi"
    socket,     \* wifi_client: "open", or "closed" by either side
    addrMap,    \* address_map
    pending,    \* pending_queries: speed waiting per address, NoSpeed if none
    resub,      \* resubscribe_pending, resubscribe_index (from 1)
    baseline,   \* baseline_query_object_id
    locos,      \* the loco table: all entries are marked subscribed_to_ecos
    running,    \* what the throttle protocols were told: go or stop
    toEcos,     \* written to the socket, not yet processed by ECoS
    fromEcos,   \* sent by ECoS, not yet read
    station,    \* speeds, viewed locos, whether object 1 is viewed, go or stop
    wish,       \* history: speed asked for last, NoSpeed if void
    halted,     \* history: locos stopped and not driven since
    clean,      \* history: re-subscription ran undisturbed since the connect
    ops, faults

conn == <<status, net, socket, addrMap, pending, resub, baseline>>
hist == <<wish, halted, clean>>
vars == <<conn, locos, running, toEcos, fromEcos, station, hist, ops, faults>>

Networks == {"up", "noecos", "nowifi"}
Entry == [addr : Addr, speed : Speeds]
Stations == [speed : [EcosAddr -> Speeds], viewed : SUBSET EcosAddr,
             watched : BOOLEAN, go : BOOLEAN]

Cmd(op, a, v) == [op |-> op, addr |-> a, val |-> v]
System(op) == Cmd(op, NoAddr, NoSpeed)
Msg(kind, a, v) == [kind |-> kind, addr |-> a, val |-> v]

Reachable == net = "up"
Tracked == {locos[i].addr : i \in 1 .. Len(locos)}
Waiting == {a \in Addr : pending[a] # NoSpeed}

-----------------------------------------------------------------------------
(* Slips a change to ecos_interface.cpp could make, the first two of which *)
(* its comments say were made once; each stands in for the definition it   *)
(* is named after when the properties are put to the test.                 *)
MapAfterLossStale == IF socket = "closed" THEN {} ELSE addrMap
QueuedFirstWins(a, v) ==
    [pending EXCEPT ![a] = IF @ = NoSpeed /\ Cardinality(Waiting) < MaxPending
                           THEN v ELSE @]
FlushableBefore(M) == {a \in addrMap : pending[a] # NoSpeed}
RestartKeepsIndex == [pending |-> TRUE, index |-> resub.index]
GreetingNoStatus == <<System("query"), System("watch")>>
GreetingNoQuery == <<System("watch"), System("status")>>
QueuedUnbounded(a, v) == [pending EXCEPT ![a] = v]

-----------------------------------------------------------------------------
\* A write to a socket the other side has closed goes nowhere.
Written(cmds) == IF socket = "open" THEN toEcos \o cmds ELSE toEcos

\* queuePendingQuery(): update in place, else add unless full.
CanQueue(a) == a \in Waiting \/ Cardinality(Waiting) < MaxPending
Queued(a, v) == [pending EXCEPT ![a] = IF CanQueue(a) THEN v ELSE @]

\* flushPendingQueries(), with the address map M.
Flushable(M) == {a \in M : pending[a] # NoSpeed}
FlushSets(M) ==
    LET order == SetToSeq(Flushable(M))
    IN  [i \in DOMAIN order |-> Cmd("set", order[i], pending[order[i]])]
Unflushed(M) == [a \in Addr |-> IF a \in Flushable(M) THEN NoSpeed ELSE pending[a]]

\* What attemptTcpConnect() writes and starts.
Greeting == <<System("query"), System("watch"), System("status")>>
Restart == [pending |-> TRUE, index |-> 1]
MapAfterLoss == {}

\* addOrUpdateLoco()
CanStore(a) == a \in Tracked \/ Len(locos) < MaxLocos
Stored(a, v) ==
    IF a \in Tracked
    THEN [i \in 1 .. Len(locos) |-> IF locos[i].addr = a
                                    THEN [addr |-> a, speed |-> v] ELSE locos[i]]
    ELSE Append(locos, [addr |-> a, speed |-> v])
AllStopped == [i \in 1 .. Len(locos) |-> [addr |-> locos[i].addr, speed |-> 0]]
Without(i) ==
    [j \in 1 .. Len(locos) - 1 |-> IF j < i THEN locos[j] ELSE locos[j + 1]]

Init ==
    /\ status = "CONNECTING"                \* begin()
    /\ net \in Networks
    /\ socket = "closed"
    /\ addrMap = {}
    /\ pending = [a \in Addr |-> NoSpeed]
    /\ resub = [pending |-> FALSE, index |-> 1]
    /\ baseline = NoAddr
    /\ locos = <<>>
    /\ running = TRUE
    /\ toEcos = <<>> /\ fromEcos = <<>>
    /\ station \in [speed : {[a \in EcosAddr |-> 0]}, viewed : {{}},
                    watched : {FALSE}, go : BOOLEAN]
    /\ wish = [a \in Addr |-> NoSpeed]
    /\ halted = {}
    /\ clean = TRUE
    /\ ops = 0 /\ faults = 0

Operate == ops < MaxOps /\ ops' = ops + 1

-----------------------------------------------------------------------------
(* Throttle commands, through CommandRouter. *)
\* subscribeToLoco() does nothing unless ECoS is known to have the loco.
CanSubscribe(a) == status = "CONNECTED" /\ a \in addrMap
Subscription(a) ==
    IF a \notin Tracked /\ CanSubscribe(a) THEN <<Cmd("request", a, NoSpeed)>> ELSE <<>>
Subscribe(a) ==
    baseline' = IF a \notin Tracked /\ CanSubscribe(a) THEN a ELSE baseline

\* sendSpeedCommand(): write it, or queue it while the address is not known.
ThrottleDrive(a, v) ==
    /\ Operate
    /\ CanStore(a)
    /\ locos' = Stored(a, v)
    /\ Subscribe(a)
    /\ IF a \in addrMap
       THEN /\ toEcos' = Written(Subscription(a) \o <<Cmd("set", a, v)>>)
            /\ wish' = [wish EXCEPT ![a] = IF socket = "open" THEN v ELSE NoSpeed]
            /\ UNCHANGED pending
       ELSE /\ pending' = Queued(a, v)
            /\ wish' = [wish EXCEPT ![a] = IF CanQueue(a) THEN v ELSE NoSpeed]
            /\ UNCHANGED toEcos
    /\ halted' = halted \ {a}
    /\ UNCHANGED <<status, net, socket, addrMap, resub, running, fromEcos,
                   station, clean, faults>>

\* trackLocoForThrottle()
ThrottleSelect(a) ==
    /\ Operate
    /\ a \notin Tracked /\ CanStore(a)
    /\ locos' = Stored(a, 0)
    /\ Subscribe(a)
    /\ toEcos' = Written(Subscription(a))
    /\ UNCHANGED <<status, net, socket, addrMap, pending, resub, running,
                   fromEcos, station, hist, faults>>

\* emergencyStopAll() and resumeOperation() from a throttle protocol; ECoS is
\* told only while it is connected.
ThrottleStop ==
    /\ Operate
    /\ locos' = AllStopped
    /\ running' = FALSE
    /\ toEcos' = IF status = "CONNECTED" THEN Written(<<System("stop")>>) ELSE toEcos
    /\ halted' = halted \cup Tracked
    /\ wish' = [a \in Addr |-> NoSpeed]
    /\ UNCHANGED <<conn, fromEcos, station, clean, faults>>

ThrottleGo ==
    /\ Operate
    /\ running' = TRUE
    /\ toEcos' = IF status = "CONNECTED" THEN Written(<<System("go")>>) ELSE toEcos
    /\ UNCHANGED <<conn, locos, fromEcos, station, hist, faults>>

\* CommandRouter::update(), five minutes after the loco was last heard of.
Expire(i) ==
    LET a == locos[i].addr IN
    /\ i \in 1 .. Len(locos) /\ a \in IdleAddr
    /\ \A k \in 1 .. Len(toEcos) : toEcos[k].addr # a
    /\ \A k \in 1 .. Len(fromEcos) : fromEcos[k].addr # a
    /\ baseline # a
    /\ locos' = Without(i)
    /\ toEcos' = IF CanSubscribe(a) THEN Written(<<Cmd("release", a, NoSpeed)>>)
                                    ELSE toEcos
    /\ clean' = (clean /\ ~resub.pending)
    /\ UNCHANGED <<conn, running, fromEcos, station, wish, halted, ops, faults>>

-----------------------------------------------------------------------------
(* EcosInterface::update(): updateConnectionStatus(), then reading, then   *)
(* the paced work, which goes on, writing nowhere, without a connection.   *)
MayConnect == net # "nowifi" /\ status \in {"CONNECTING", "DISCONNECTED"}

Connect ==
    /\ MayConnect /\ Reachable
    /\ status' = "CONNECTED"
    /\ socket' = "open"
    /\ toEcos' = Greeting
    /\ resub' = Restart
    /\ clean' = TRUE
    /\ UNCHANGED <<net, addrMap, pending, baseline, locos, running,
                   fromEcos, station, wish, halted, ops, faults>>

ConnectFails ==
    /\ MayConnect /\ ~Reachable
    /\ status' = "DISCONNECTED"
    /\ UNCHANGED <<net, socket, addrMap, pending, resub, baseline, locos,
                   running, toEcos, fromEcos, station, hist, ops, faults>>

\* attemptReconnect() waits for WiFi, which may take longer than its timeout.
AwaitWifi ==
    /\ net = "nowifi" /\ status # "CONNECTED"
    /\ status' = IF status = "DISCONNECTED" THEN "CONNECTING" ELSE "DISCONNECTED"
    /\ UNCHANGED <<net, socket, addrMap, pending, resub, baseline, locos,
                   running, toEcos, fromEcos, station, hist, ops, faults>>

\* What was on its way is lost, and ECoS ends the session's views.
Unanswered == {toEcos[i].addr : i \in {j \in 1 .. Len(toEcos) : toEcos[j].op = "set"}}
SessionEnds ==
    /\ socket' = "closed"
    /\ toEcos' = <<>> /\ fromEcos' = <<>>
    /\ wish' = [a \in Addr |-> IF a \in Unanswered THEN NoSpeed ELSE wish[a]]

\* The socket is found closed, or nothing came for ECOS_MESSAGE_TIMEOUT: with
\* a heartbeat twice as often, only when ECoS cannot be reached.
LoseConnection ==
    /\ status = "CONNECTED"
    /\ socket = "closed" \/ ~Reachable
    /\ status' = "DISCONNECTED"
    /\ addrMap' = MapAfterLoss
    /\ SessionEnds
    /\ station' = [station EXCEPT !.viewed = {}, !.watched = FALSE]
    /\ baseline' \in {baseline, NoAddr}     \* ends unless it reconnects at once
    /\ UNCHANGED <<net, pending, resub, locos, running, halted, clean,
                   ops, faults>>

\* handleReply() of message m, then the rest of the pass with the map it left.
\* A speed of a loco that is not in the map is dropped.
ReadReply(m) ==
    /\ addrMap' = IF m.kind = "map" THEN addrMap \cup EcosAddr ELSE addrMap
    /\ locos' = IF m.kind = "stop" THEN AllStopped
                ELSE IF m.kind = "speed" /\ m.addr \in addrMap /\ CanStore(m.addr)
                THEN Stored(m.addr, m.val) ELSE locos
    /\ running' = IF m.kind \in {"stop", "go"} THEN m.kind = "go" ELSE running
    /\ halted' = IF m.kind = "stop" THEN halted \cup Tracked ELSE halted
    /\ wish' = IF m.kind = "stop" THEN [a \in Addr |-> NoSpeed] ELSE wish
    /\ fromEcos' = Tail(fromEcos)

ReadNothing == UNCHANGED <<addrMap, locos, running, halted, wish, fromEcos>>

\* sendNextResubscribeStep(): whether it is some loco's turn, and its outcome.
ResubTurn == resub.pending /\ addrMap' # {} /\ resub.index <= Len(locos')
ResubKnown == ResubTurn /\ locos'[resub.index].addr \in addrMap'
ResubDone == resub.pending /\ addrMap' # {} /\ resub.index > Len(locos')

PacedWork ==
    LET ask == IF baseline = NoAddr THEN <<>> ELSE <<Cmd("get", baseline, NoSpeed)>>
        again == IF ResubKnown
                 THEN <<Cmd("request", locos'[resub.index].addr, NoSpeed)>> ELSE <<>>
    IN  /\ pending' = Unflushed(addrMap')
        /\ toEcos' = Written(FlushSets(addrMap') \o ask \o again)
        /\ baseline' = IF ResubKnown THEN locos'[resub.index].addr ELSE NoAddr
        /\ resub' = [pending |-> resub.pending /\ ~ResubDone,
                     index |-> IF ResubKnown THEN resub.index + 1 ELSE resub.index]

Pass ==
    /\ status = "CONNECTED" /\ socket = "open"
    /\ \/ fromEcos # <<>> /\ ReadReply(Head(fromEcos))
       \/ ReadNothing
    /\ PacedWork
    /\ UNCHANGED <<status, net, socket, station, clean, ops, faults>>

\* resubscribe_deadline_ms: 20 s are enough for every loco the map has, not
\* for one that it will never have.
Deadline ==
    /\ status = "CONNECTED" /\ resub.pending
    /\ addrMap # {} /\ resub.index <= Len(locos)
    /\ locos[resub.index].addr \notin addrMap
    /\ resub' = [resub EXCEPT !.pending = FALSE]
    /\ clean' = FALSE
    /\ UNCHANGED <<status, net, socket, addrMap, pending, baseline, locos,
                   running, toEcos, fromEcos, station, wish, halted, ops, faults>>

-----------------------------------------------------------------------------
(* The network and the command station, from how the bridge uses them.     *)
(* ECoS processes commands in order and reports what is viewed; whether a  *)
(* stop changes the speeds it holds does not matter here.                  *)
Fault == faults < MaxFaults /\ faults' = faults + 1

NetworkChanges ==
    /\ net' \in Networks \ {net}
    /\ IF net' = "up" THEN UNCHANGED faults ELSE Fault
    /\ UNCHANGED <<status, socket, addrMap, pending, resub, baseline, locos,
                   running, toEcos, fromEcos, station, hist, ops>>

\* ECoS closes the connection, perhaps because it restarts: in STOP.
StationCloses ==
    /\ Fault
    /\ socket = "open"
    /\ SessionEnds
    /\ \E go \in {station.go, FALSE} :
          station' = [station EXCEPT !.viewed = {}, !.watched = FALSE, !.go = go]
    /\ UNCHANGED <<status, net, addrMap, pending, resub, baseline, locos,
                   running, halted, clean, ops>>

RunMsg(go) == Msg(IF go THEN "go" ELSE "stop", NoAddr, NoSpeed)

Answers(c) ==
    CASE c.op = "query" -> <<Msg("map", NoAddr, NoSpeed)>>
      [] c.op = "status" -> <<RunMsg(station.go)>>
      [] c.op = "get" -> <<Msg("speed", c.addr, station.speed[c.addr])>>
      [] c.op = "set" /\ c.addr \in station.viewed -> <<Msg("speed", c.addr, c.val)>>
      [] c.op \in {"stop", "go"} /\ station.watched /\ station.go # (c.op = "go") ->
            <<RunMsg(c.op = "go")>>
      [] OTHER -> <<>>

Processed(c) ==
    [speed |-> [a \in EcosAddr |-> IF c.op = "set" /\ a = c.addr THEN c.val
                                   ELSE station.speed[a]],
     viewed |-> IF c.op = "request" THEN station.viewed \cup {c.addr}
                ELSE IF c.op = "release" THEN station.viewed \ {c.addr}
                ELSE station.viewed,
     watched |-> station.watched \/ c.op = "watch",
     go |-> IF c.op \in {"stop", "go"} THEN c.op = "go" ELSE station.go]

StationStep ==
    /\ Reachable /\ toEcos # <<>>
    /\ toEcos' = Tail(toEcos)
    /\ fromEcos' = fromEcos \o Answers(Head(toEcos))
    /\ station' = Processed(Head(toEcos))
    /\ UNCHANGED <<conn, locos, running, hist, ops, faults>>

\* The operator presses STOP or GO on the ECoS.
OperatorRuns(go) ==
    /\ Operate
    /\ station.go # go
    /\ station' = [station EXCEPT !.go = go]
    /\ fromEcos' = IF station.watched THEN Append(fromEcos, RunMsg(go)) ELSE fromEcos
    /\ UNCHANGED <<conn, locos, running, toEcos, hist, faults>>

Next ==
    \/ \E a \in Addr, v \in Speeds : ThrottleDrive(a, v)
    \/ \E a \in Addr : ThrottleSelect(a)
    \/ ThrottleStop
    \/ ThrottleGo
    \/ \E i \in 1 .. Len(locos) : Expire(i)
    \/ Connect
    \/ ConnectFails
    \/ AwaitWifi
    \/ LoseConnection
    \/ Pass
    \/ Deadline
    \/ NetworkChanges
    \/ StationCloses
    \/ StationStep
    \/ \E go \in BOOLEAN : OperatorRuns(go)

Spec == Init /\ [][Next]_vars

\* loop() calls update() for ever, its timers expire, and a reachable ECoS
\* works through what it was sent.  Nothing says the network stays up.
Fairness ==
    /\ WF_vars(Connect) /\ WF_vars(ConnectFails) /\ WF_vars(AwaitWifi)
    /\ WF_vars(LoseConnection) /\ WF_vars(Pass) /\ WF_vars(Deadline)
    /\ WF_vars(StationStep)
FairSpec == Spec /\ Fairness

-----------------------------------------------------------------------------
(* Type invariant: neither the table nor the buffer outgrows its array,    *)
(* and no command is ever for a loco the ECoS does not have.               *)
TypeOK ==
    /\ status \in {"CONNECTING", "CONNECTED", "DISCONNECTED"}
    /\ net \in Networks
    /\ socket \in {"open", "closed"}
    /\ addrMap \subseteq EcosAddr
    /\ pending \in [Addr -> Speeds \cup {NoSpeed}]
    /\ Cardinality(Waiting) <= MaxPending
    /\ resub \in [pending : BOOLEAN, index : Nat \ {0}]
    /\ baseline \in EcosAddr \cup {NoAddr}
    /\ locos \in Seq(Entry) /\ Len(locos) <= MaxLocos
    /\ running \in BOOLEAN
    /\ toEcos \in Seq(Commands) /\ fromEcos \in Seq(Messages)
    /\ station \in Stations
    /\ wish \in [Addr -> Speeds \cup {NoSpeed}]
    /\ halted \subseteq Addr
    /\ clean \in BOOLEAN
    /\ ops \in 0 .. MaxOps /\ faults \in 0 .. MaxFaults

(* Outside a connection the address map is empty, whichever way it ended:  *)
(* that alone makes sendSpeedCommand() queue what it is given instead of   *)
(* writing it into a dead socket.                                          *)
NoStaleMap == status # "CONNECTED" => addrMap = {}

(* A command still in the buffer is for a loco the map does not have yet,  *)
(* so no later command for that loco is written ahead of it.               *)
NothingOvertakesQueue == \A a \in addrMap : pending[a] = NoSpeed

Settled == status = "CONNECTED" /\ socket = "open" /\ addrMap # {}
           /\ toEcos = <<>> /\ fromEcos = <<>>
Subscribed == Settled /\ ~resub.pending /\ baseline = NoAddr

(* The speed a throttle asked for last is the one ECoS ends up with, also  *)
(* when it was queued while ECoS was away and the connection failed again  *)
(* in between; only what was on its way when it failed may be lost.        *)
QueuedSpeedArrives ==
    Settled => \A a \in addrMap : wish[a] # NoSpeed => station.speed[a] = wish[a]

(* Throttles show stop or go as ECoS has it, once news has arrived: after  *)
(* a stop or resume nobody could pass on, and after ECoS restarted.        *)
RunStateAgrees == Settled => running = station.go

(* After a connect every tracked loco of the ECoS is viewed again, unless  *)
(* the re-subscription met a loco ECoS does not have, or one expired.      *)
ViewedAfterConnect ==
    (Subscribed /\ clean) => Tracked \cap EcosAddr \subseteq station.viewed

(* The same, whatever else is in the table.                                *)
AllViewedAfterConnect == Subscribed => Tracked \cap EcosAddr \subseteq station.viewed

(* Once stopped, a loco is sent a running speed only after a throttle      *)
(* drives it again.                                                        *)
StopIsNotUndone ==
    [][\A i \in 1 .. Len(toEcos') :
          (i > Len(toEcos) /\ toEcos'[i].op = "set" /\ toEcos'[i].val # 0)
             => toEcos'[i].addr \notin halted']_vars

(* However WiFi and ECoS fail, once both stay up the bridge connects and   *)
(* stays connected, delivers what was queued for the locos of the ECoS and *)
(* finishes the re-subscription.                                           *)
Restored == status = "CONNECTED" /\ ~resub.pending /\ Waiting \cap EcosAddr = {}
Recovers == <>[]Reachable => <>[]Restored
=============================================================================
