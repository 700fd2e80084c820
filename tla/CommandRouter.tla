---------------------------- MODULE CommandRouter ----------------------------
(***************************************************************************)
(* The router in the middle of the bridge, for drive and function traffic, *)
(* together with what it talks to: the throttle protocols on one side, and *)
(* on the other the ECoS command station behind a TCP connection that      *)
(* delivers in order but late.  A throttle command updates the loco table, *)
(* is written to ECoS and is fanned out to the other throttle protocols at *)
(* once; ECoS confirms it with an event some time later, and that event    *)
(* runs through the router again as if it were news.  What keeps the       *)
(* parties in agreement is order, the "did anything change" test and the   *)
(* attribution of an event to the throttle that caused it.                 *)
(*                                                                         *)
(* The TCP connection is up and every address is resolved to an ECoS       *)
(* object; Connection loss, the pending queue and the address map belong   *)
(* to another module, and so do the emergency stop and turnouts.  The loco *)
(* table is the map that StateEngine implements.  Time is abstracted: the  *)
(* attribution window may close at any moment after it was opened.         *)
(***************************************************************************)
EXTENDS Naturals, Sequences, FiniteSets, SequencesExt

CONSTANTS
    Addr,               \* DCC addresses in use
    Speeds,             \* speed steps, 0 among them
    Dirs,               \* {0, 1}: reverse, forward
    Fns,                \* function numbers in use
    FnGroups,           \* functions a XpressNet or LocoNet frame carries together
    Throttles,          \* throttle protocols: XPRESSNET, Z21_LAN, LOCONET
    XPRESSNET, Z21_LAN, \* the two whose messages carry the whole loco state
    MaxLocos,           \* MAX_LOCOS
    OperatorAddr,       \* locos the operator also drives on ECoS itself
    IdleAddr,           \* locos nobody may touch for LOCO_INACTIVITY_TIMEOUT
    MaxOps,             \* bound on what throttles and operator do
    Inverted,           \* ECOS_INVERTED_FUNCTIONS
    NoAddr, NoLoco, NoSource, NoBaseline

Drives == [speed : Speeds, dir : Dirs]
Locos == [speed : Speeds, dir : Dirs, fns : SUBSET Fns]
Keys == {"speed", "dir"} \cup Fns
ValuesOf(k) == IF k = "speed" THEN Speeds ELSE IF k = "dir" THEN Dirs ELSE {0, 1}
KeyValues == Speeds \cup {0, 1}
Commands == {c \in [op : {"set", "get", "request", "release"}, addr : Addr,
                    key : Keys, val : KeyValues] :
                c.op = "set" => c.val \in ValuesOf(c.key)}
Events == {e \in [addr : Addr, key : Keys, val : KeyValues] :
                e.val \in ValuesOf(e.key)}
StationLocos == [speed : Speeds, dir : Dirs, fns : SUBSET Fns, viewed : BOOLEAN]
Baselines == {b \in [addr : Addr \cup {NoAddr}, left : SUBSET Keys] :
                 b.left # {} => b.addr \in Addr}
FnSweeps == {w \in [addr : Addr \cup {NoAddr}, fns : SUBSET Fns, left : SUBSET Fns] :
                 w.left # {} => w.addr \in Addr}
Wishes == [users : SUBSET Throttles, driver : Throttles \cup {NoSource},
           drive : Drives \cup {NoLoco}, resent : BOOLEAN,
          on : SUBSET Fns, off : SUBSET Fns]
StaleDisplays == [drive : SUBSET Throttles, fns : SUBSET Throttles]

ASSUME RouterAssumption ==
    /\ 0 \in Speeds /\ Speeds \subseteq Nat
    /\ 1 \in Dirs /\ Dirs \subseteq {0, 1}
    /\ IsFiniteSet(Addr) /\ IsFiniteSet(Fns)
    /\ "speed" \notin Fns /\ "dir" \notin Fns
    /\ FnGroups \subseteq SUBSET Fns /\ Inverted \subseteq Fns
    /\ NoAddr \notin Addr /\ NoSource \notin Throttles
    /\ NoLoco \notin Locos /\ NoLoco \notin Drives
    /\ OperatorAddr \subseteq Addr /\ IdleAddr \subseteq Addr
    /\ MaxLocos \in Nat /\ MaxOps \in Nat

VARIABLES
    locos,      \* StateEngine: LocoState per address, NoLoco when not tracked
    echo,       \* echo_state; open: within ECOS_ECHO_ATTRIBUTION_WINDOW_MS
    bits,       \* echo_bits_address, echo_sent_on, echo_sent_off
    lastSent,   \* EcosInterface: last_sent_functions, NoBaseline at first
    baseline,   \* EcosInterface: object being queried, properties still to ask
    fnSweep,    \* EcosInterface: first send of a bitmap, functions still to send
    toEcos,     \* commands written to the socket, not yet processed by ECoS
    fromEcos,   \* events and replies not yet read by the bridge
    station,    \* the locos as ECoS has them, and whether the bridge views them
    shown,      \* what each throttle protocol shows: its own or the last told
    wish,       \* history, per loco: the throttles that commanded it, which of
                \* them drove it last, what was asked for last, and whether a
                \* function command has sent another speed or direction since
    lost,       \* history, per loco: properties whose first query or first send
                \* was overwritten by that of another loco
    stale,      \* history, per loco: the throttles whose display is older than
                \* its entry in the table
    revived,    \* history: locos whose entry in the table an event made
    ops         \* operations so far (bound)

vars == <<locos, echo, bits, lastSent, baseline, fnSweep,
          toEcos, fromEcos, station, shown, wish, lost, stale, revived, ops>>

-----------------------------------------------------------------------------
Tracked(a) == locos[a] # NoLoco
Placeholder == [speed |-> 0, dir |-> 1, fns |-> {}]
\* resolveLocoStateForReply(), functionsKnownFor()
StateOf(a) == IF Tracked(a) THEN locos[a] ELSE Placeholder
SameDrive(p, q) == p.speed = q.speed /\ p.dir = q.dir

(* Slips a change to the sources could make; each stands in for the        *)
(* definition it is named after when the properties are put to the test.   *)
HasRoomOffByOne == Cardinality({a \in Addr : Tracked(a)}) <= MaxLocos
MeaningNotInverted(f, val) == val = 1
DriveSetsNoDirection(a, d) ==
    <<[op |-> "set", addr |-> a, key |-> "speed", val |-> d.speed]>>
DriveMergedResets(old, ev) ==
    [old EXCEPT !.speed = IF ev.key = "speed" THEN ev.val ELSE 0,
                !.dir = IF ev.key = "dir" THEN ev.val ELSE @]
RecentSourceAnyone(a, t) == echo.open /\ echo.addr = a
ExpireKeepsView(a) ==
    /\ Tracked(a)
    /\ ~(echo.open /\ echo.addr = a)
    /\ toEcos = <<>> /\ fromEcos = <<>> /\ baseline.left = {} /\ fnSweep.left = {}
    /\ locos' = [locos EXCEPT ![a] = NoLoco]
    /\ stale' = [stale EXCEPT ![a] = [drive |-> Throttles, fns |-> Throttles]]
    /\ revived' = revived \ {a}
    /\ UNCHANGED <<echo, bits, lastSent, baseline, fnSweep, toEcos, fromEcos,
                   station, shown, wish, lost, ops>>

-----------------------------------------------------------------------------
\* Room for one more: the table is full at MAX_LOCOS.
HasRoom == Cardinality({a \in Addr : Tracked(a)}) < MaxLocos

Cmd(op, a, key, val) == [op |-> op, addr |-> a, key |-> key, val |-> val]
Event(a, key, val) == [addr |-> a, key |-> key, val |-> val]

\* func[n,v]: some decoder functions read inverted on ECoS.  XOR both ways.
Raw(f, F) == IF (f \in F) # (f \in Inverted) THEN 1 ELSE 0
Meaning(f, val) == (val = 1) # (f \in Inverted)

\* EcosInterface::sendSpeedCommand(): direction first, then speed.
DriveSets(a, d) == <<Cmd("set", a, "dir", d.dir), Cmd("set", a, "speed", d.speed)>>

\* EcosInterface::sendFunctionCommand() with a baseline: only what differs.
FunctionSets(a, F) ==
    LET order == SetToSeq((F \ lastSent[a]) \cup (lastSent[a] \ F))
    IN  [i \in DOMAIN order |-> Cmd("set", a, order[i], Raw(order[i], F))]

\* ... and without one: send them all, one per tick of the loop.
SendFunctions(a, F, before) ==
    IF lastSent[a] = NoBaseline
    THEN /\ fnSweep' = [addr |-> a, fns |-> F, left |-> Fns]
         /\ toEcos' = before
    ELSE /\ toEcos' = before \o FunctionSets(a, F)
         /\ UNCHANGED fnSweep

\* requestEcosSubscription() -> subscribeToLoco(): request the view, then ask
\* for speed, direction and every function, one per tick of the loop.
Request(a) == <<Cmd("request", a, "speed", 0)>>
StartBaseline(a) == baseline' = [addr |-> a, left |-> Keys]

\* There is one of each: another loco's query or first bitmap that is not
\* finished is overwritten.  A new query of a itself asks for everything.
Overwrite(a, asks, sends) ==
    lost' = [b \in Addr |->
                IF b = a THEN IF asks THEN {} ELSE lost[b]
                ELSE lost[b] \cup (IF asks /\ baseline.addr = b THEN baseline.left ELSE {})
                             \cup (IF sends /\ fnSweep.addr = b THEN fnSweep.left ELSE {})]

-----------------------------------------------------------------------------
(* What the throttle side shows.  XPRESSNET and Z21_LAN are told the whole *)
(* loco state with every update, LocoNet drive and functions separately.   *)
WholeState(t) == t \in {XPRESSNET, Z21_LAN}
DrivePart(old, st) == [old EXCEPT !.speed = st.speed, !.dir = st.dir]

Tell(T, a, st, withFns) ==
    [t \in Throttles |->
        IF t \notin T THEN shown[t]
        ELSE [shown[t] EXCEPT ![a] =
                IF withFns \/ WholeState(t) THEN st ELSE DrivePart(@, st)]]

\* A display is up to date again in what the throttle has been told.
Told(T, a, withFns) ==
    [stale EXCEPT ![a].drive = @ \ T,
                  ![a].fns = @ \ {t \in T : withFns \/ WholeState(t)}]

\* The throttle shows what its user set; Z21LanInterface::
\* broadcastConfirmedState() then confirms the whole state to Z21 clients.
OwnDrive(t, a, d, st) ==
    IF t = Z21_LAN THEN st ELSE DrivePart(shown[t][a], d)

\* Z21 as above; onLocoFunctionGroup() answers with SetLocoInfoMM(); a
\* LocoNet slot keeps the group its throttle sent.
OwnFunctions(t, a, g, F, st) ==
    IF WholeState(t) THEN st
    ELSE [shown[t][a] EXCEPT !.fns = (@ \ g) \cup (F \cap g)]

-----------------------------------------------------------------------------
(* Attribution: wasRecentSource() and isEchoOfRecentCommand(). *)
RecentSource(a, t) == echo.open /\ echo.addr = a /\ echo.src = t

IsEcho(a, t, changed, F) ==
    /\ RecentSource(a, t)
    /\ IF changed # {}
       THEN (changed \cap F \cap bits.on) \cup ((changed \ F) \cap bits.off) # {}
       ELSE echo.type = "SPEED"

NotEchoTo(a, changed, F) == {t \in Throttles : ~IsEcho(a, t, changed, F)}

Attribute(a, t, type) ==
    echo' = [addr |-> a, src |-> t, type |-> type, open |-> TRUE]

\* noteThrottleFunctionChange()
NoteFunctionChange(a, prior, F) ==
    LET same == bits.addr = a /\ bits.open
    IN  bits' = [addr |-> a, open |-> TRUE,
                 on  |-> (IF same THEN bits.on ELSE {}) \cup (F \ prior),
                 off |-> (IF same THEN bits.off ELSE {}) \cup (prior \ F)]

-----------------------------------------------------------------------------
Init ==
    /\ locos = [a \in Addr |-> NoLoco]
    /\ echo = [addr |-> NoAddr, src |-> NoSource, type |-> "SPEED", open |-> FALSE]
    /\ bits = [addr |-> NoAddr, on |-> {}, off |-> {}, open |-> FALSE]
    /\ lastSent = [a \in Addr |-> NoBaseline]
    /\ baseline = [addr |-> NoAddr, left |-> {}]
    /\ fnSweep = [addr |-> NoAddr, fns |-> {}, left |-> {}]
    /\ toEcos = <<>> /\ fromEcos = <<>>
    \* ECoS may have any loco moving, with any functions on, from before.
    /\ station \in [Addr -> [speed : Speeds, dir : Dirs, fns : SUBSET Fns, viewed : {FALSE}]]
    /\ shown = [t \in Throttles |-> [a \in Addr |-> Placeholder]]
    /\ wish = [a \in Addr |-> [users |-> {}, driver |-> NoSource,
                              drive |-> NoLoco, resent |-> FALSE,
                              on |-> {}, off |-> {}]]
    /\ lost = [a \in Addr |-> {}]
    /\ stale = [a \in Addr |-> [drive |-> {}, fns |-> {}]] /\ revived = {}
    /\ ops = 0

Operate == ops < MaxOps /\ ops' = ops + 1

-----------------------------------------------------------------------------
(* Throttle commands.  handleXpressNetCommand(), handleZ21Command() and    *)
(* handleLocoNetCommand() are the same code, and so are the three function *)
(* handlers; an unknown loco gets an entry and a subscription.             *)
Subscription(a) == IF Tracked(a) THEN <<>> ELSE Request(a)
Subscribe(a) == IF Tracked(a) THEN UNCHANGED baseline ELSE StartBaseline(a)

ThrottleDrive(t, a, d) ==
    LET st == [speed |-> d.speed, dir |-> d.dir, fns |-> StateOf(a).fns] IN
    /\ Operate
    /\ Tracked(a) \/ HasRoom
    /\ locos' = [locos EXCEPT ![a] = st]
    /\ toEcos' = toEcos \o Subscription(a) \o DriveSets(a, st)
    /\ Subscribe(a)
    /\ shown' = [Tell(Throttles \ {t}, a, st, FALSE) EXCEPT
                    ![t][a] = OwnDrive(t, a, d, st)]
    /\ Attribute(a, t, "SPEED")
    /\ wish' = [wish EXCEPT ![a].users = @ \cup {t}, ![a].driver = t,
                            ![a].drive = d, ![a].resent = FALSE]
    /\ Overwrite(a, ~Tracked(a), FALSE)
    /\ stale' = Told(IF t = Z21_LAN THEN Throttles ELSE Throttles \ {t}, a, FALSE)
    /\ UNCHANGED <<bits, lastSent, fnSweep, fromEcos, station, revived>>

\* The bitmaps a press of f can ask for: Z21LanInterface::handleDataset()
\* starts from the table, onLocoFunctionGroup() and routeEvent() replace a
\* whole group of it by what the throttle shows, with f toggled.
Toggled(F, f) == IF f \in F THEN F \ {f} ELSE F \cup {f}
Bitmaps(t, a, g, f) ==
    IF t = Z21_LAN
    THEN {StateOf(a).fns \cup {f}, StateOf(a).fns \ {f}}
    ELSE {(StateOf(a).fns \ g) \cup (Toggled(shown[t][a].fns, f) \cap g)}

Wanted(a, t, f, F) ==
    LET w == wish[a]
    IN  [w EXCEPT !.users = @ \cup {t},
                  !.resent = @ \/ (w.drive # NoLoco /\ ~SameDrive(StateOf(a), w.drive)),
                  !.on = IF f \in F THEN @ \cup {f} ELSE @ \ {f},
                  !.off = IF f \in F THEN @ \ {f} ELSE @ \cup {f}]

ThrottleFunctions(t, a, g, f, F) ==
    LET st == [StateOf(a) EXCEPT !.fns = F] IN
    /\ Operate
    /\ Tracked(a) \/ HasRoom
    /\ locos' = [locos EXCEPT ![a] = st]
    /\ SendFunctions(a, F, toEcos \o Subscription(a) \o DriveSets(a, st))
    /\ lastSent' = [lastSent EXCEPT ![a] = F]
    /\ Subscribe(a)
    /\ shown' = [Tell(Throttles \ {t}, a, st, TRUE) EXCEPT
                    ![t][a] = OwnFunctions(t, a, g, F, st)]
    /\ Attribute(a, t, "FUNCTION")
    /\ NoteFunctionChange(a, StateOf(a).fns, F)
    /\ wish' = [wish EXCEPT ![a] = Wanted(a, t, f, F)]
    /\ Overwrite(a, ~Tracked(a), lastSent[a] = NoBaseline)
    /\ stale' = Told(IF WholeState(t) THEN Throttles ELSE Throttles \ {t}, a, TRUE)
    /\ UNCHANGED <<fromEcos, station, revived>>

\* trackLocoForThrottle(), then the reply to the selection.  Only XpressNet
\* and LocoNet selections are tracked: LAN_X_GET_LOCO_INFO just replies.
ThrottleSelect(t, a) ==
    /\ Operate
    /\ IF t # Z21_LAN /\ ~Tracked(a) /\ HasRoom
       THEN /\ locos' = [locos EXCEPT ![a] = Placeholder]
            /\ toEcos' = toEcos \o Request(a)
            /\ StartBaseline(a)
            /\ Overwrite(a, TRUE, FALSE)
       ELSE UNCHANGED <<locos, toEcos, baseline, lost>>
    /\ shown' = [shown EXCEPT ![t][a] = StateOf(a)]
    /\ stale' = Told({t}, a, TRUE)
    /\ UNCHANGED <<echo, bits, lastSent, fnSweep, fromEcos, station, wish, revived>>

\* addOrUpdateLoco() fails: the command goes nowhere, the throttle shows it.
TableFull(t, a, d) ==
    /\ Operate
    /\ ~Tracked(a) /\ ~HasRoom
    /\ shown' = [shown EXCEPT ![t][a] = DrivePart(@, d)]
    /\ stale' = [stale EXCEPT ![a].drive = @ \cup {t}]
    /\ UNCHANGED <<locos, echo, bits, lastSent, baseline, fnSweep, toEcos,
                   fromEcos, station, wish, lost, revived>>

-----------------------------------------------------------------------------
(* Events and get() replies: handleReply() -> handleEcosCommand() and      *)
(* handleEcosFunctionCommand().                                            *)
DriveMerged(old, ev) ==
    [old EXCEPT !.speed = IF ev.key = "speed" THEN ev.val ELSE @,
                !.dir = IF ev.key = "dir" THEN ev.val ELSE @]

\* addOrUpdateLoco() makes an entry for a loco the table does not have; an
\* event subscribes to nothing.
Revive(a) == revived' = IF Tracked(a) THEN revived ELSE revived \cup {a}

EcosDrive ==
    /\ fromEcos # <<>>
    /\ Head(fromEcos).key \in {"speed", "dir"}
    /\ fromEcos' = Tail(fromEcos)
    /\ LET ev == Head(fromEcos)
           a == ev.addr
           st == DriveMerged(StateOf(a), ev)
       IN  IF Tracked(a) \/ HasRoom
           THEN /\ locos' = [locos EXCEPT ![a] = st] /\ Revive(a)
                /\ IF ~Tracked(a) \/ st # locos[a]
                   THEN /\ shown' = Tell(NotEchoTo(a, {}, {}), a, st, FALSE)
                        /\ stale' = Told(NotEchoTo(a, {}, {}), a, FALSE)
                   ELSE UNCHANGED <<shown, stale>>
           ELSE UNCHANGED <<locos, shown, stale, revived>>
    /\ UNCHANGED <<echo, bits, lastSent, baseline, fnSweep, toEcos, station,
                   wish, lost, ops>>

EcosFunction ==
    /\ fromEcos # <<>>
    /\ Head(fromEcos).key \in Fns
    /\ fromEcos' = Tail(fromEcos)
    /\ LET ev == Head(fromEcos)
           a == ev.addr
           f == ev.key
           \* the bits of functions_mask only
           Merge(F) == IF Meaning(f, ev.val) THEN F \cup {f} ELSE F \ {f}
           old == StateOf(a)
           st == [old EXCEPT !.fns = Merge(@)]
           changed == (st.fns \ old.fns) \cup (old.fns \ st.fns)
       IN  /\ lastSent' = IF lastSent[a] = NoBaseline THEN lastSent
                          ELSE [lastSent EXCEPT ![a] = Merge(@)]
           /\ IF Tracked(a) \/ HasRoom
              THEN /\ locos' = [locos EXCEPT ![a] = st] /\ Revive(a)
                   /\ IF ~Tracked(a) \/ changed # {}
                      THEN /\ shown' = Tell(NotEchoTo(a, changed, st.fns), a, st, TRUE)
                           /\ stale' = Told(NotEchoTo(a, changed, st.fns), a, TRUE)
                      ELSE UNCHANGED <<shown, stale>>
              ELSE UNCHANGED <<locos, shown, stale, revived>>
    /\ UNCHANGED <<echo, bits, baseline, fnSweep, toEcos, station, wish, lost, ops>>

-----------------------------------------------------------------------------
(* Paced sending: each pass of EcosInterface::update() sends the next get()  *)
(* of the baseline and the next set() of the first function bitmap.        *)
NextKey(left) ==
    IF left = {} THEN "none"
    ELSE IF "speed" \in left THEN "speed"
    ELSE IF "dir" \in left THEN "dir" ELSE CHOOSE f \in left : TRUE

PacedStep ==
    /\ baseline.left # {} \/ fnSweep.left # {}
    /\ LET k == NextKey(baseline.left)
           f == NextKey(fnSweep.left)
           get == Cmd("get", baseline.addr, k, 0)
           set == Cmd("set", fnSweep.addr, f, Raw(f, fnSweep.fns))
       IN  /\ toEcos' = toEcos \o (IF baseline.left # {} THEN <<get>> ELSE <<>>)
                               \o (IF fnSweep.left # {} THEN <<set>> ELSE <<>>)
           /\ baseline' = [baseline EXCEPT !.left = @ \ {k}]
           /\ fnSweep' = [fnSweep EXCEPT !.left = @ \ {f}]
    /\ UNCHANGED <<locos, echo, bits, lastSent, fromEcos, station, shown,
                   wish, lost, stale, ops, revived>>

-----------------------------------------------------------------------------
(* Time. *)
\* More than 4 s since the last throttle command; echo_bits_time is not later.
WindowCloses ==
    /\ echo.open
    /\ echo' = [echo EXCEPT !.open = FALSE]
    /\ bits' = [bits EXCEPT !.open = FALSE]
    /\ UNCHANGED <<locos, lastSent, baseline, fnSweep, toEcos, fromEcos,
                   station, shown, wish, lost, stale, ops, revived>>

\* More than 4 s since the last function command, less since a drive command.
BitsWindowCloses ==
    /\ bits.open /\ echo.open /\ echo.type = "SPEED"
    /\ bits' = [bits EXCEPT !.open = FALSE]
    /\ UNCHANGED <<locos, echo, lastSent, baseline, fnSweep, toEcos, fromEcos,
                   station, shown, wish, lost, stale, ops, revived>>

\* update(): five minutes without a command or an event for the loco, so all
\* that was sent about it, either way, has been processed.  ECoS may still
\* report a change until it has seen the release.
Expire(a) ==
    /\ Tracked(a)
    /\ ~(echo.open /\ echo.addr = a)
    /\ \A i \in DOMAIN toEcos : toEcos[i].addr # a
    /\ \A i \in DOMAIN fromEcos : fromEcos[i].addr # a
    /\ baseline.left = {} \/ baseline.addr # a
    /\ fnSweep.left = {} \/ fnSweep.addr # a
    /\ locos' = [locos EXCEPT ![a] = NoLoco]
    /\ toEcos' = Append(toEcos, Cmd("release", a, "speed", 0))
    /\ stale' = [stale EXCEPT ![a] = [drive |-> Throttles, fns |-> Throttles]]
    /\ revived' = revived \ {a}
    /\ UNCHANGED <<echo, bits, lastSent, baseline, fnSweep, fromEcos, station,
                   shown, wish, lost, ops>>

-----------------------------------------------------------------------------
(* The command station, from how the bridge uses it: commands take effect  *)
(* in order; get() is answered; a change is reported to whoever requested  *)
(* the view, the sender included; a set() that changes nothing may be      *)
(* reported too.                                                           *)
Get(a, k) ==
    IF k = "speed" THEN station[a].speed
    ELSE IF k = "dir" THEN station[a].dir
    ELSE IF k \in station[a].fns THEN 1 ELSE 0

WithFunction(F, k, v) ==
    IF k \notin Fns THEN F ELSE IF v = 1 THEN F \cup {k} ELSE F \ {k}

With(a, k, v) ==
    [station EXCEPT ![a] =
        [speed |-> IF k = "speed" THEN v ELSE @.speed,
         dir |-> IF k = "dir" THEN v ELSE @.dir,
         fns |-> WithFunction(@.fns, k, v),
         viewed |-> @.viewed]]

Report(a, k, v) == fromEcos' = Append(fromEcos, Event(a, k, v))

StationStep ==
    /\ toEcos # <<>>
    /\ toEcos' = Tail(toEcos)
    /\ LET c == Head(toEcos) IN
       \/ /\ c.op \in {"request", "release"}
          /\ station' = [station EXCEPT ![c.addr].viewed = (c.op = "request")]
          /\ UNCHANGED fromEcos
       \/ /\ c.op = "get"
          /\ Report(c.addr, c.key, Get(c.addr, c.key))
          /\ UNCHANGED station
       \/ /\ c.op = "set"
          /\ station' = With(c.addr, c.key, c.val)
          /\ \/ station[c.addr].viewed /\ Report(c.addr, c.key, c.val)
             \/ /\ ~station[c.addr].viewed \/ station' = station
                /\ UNCHANGED fromEcos
    /\ UNCHANGED <<locos, echo, bits, lastSent, baseline, fnSweep, shown, wish,
                   lost, stale, ops, revived>>

Operator(a, k, v) ==
    /\ Operate
    /\ Get(a, k) # v
    /\ station' = With(a, k, v)
    /\ IF station[a].viewed THEN Report(a, k, v) ELSE UNCHANGED fromEcos
    /\ wish' = [wish EXCEPT ![a].drive = IF k \in Fns THEN @ ELSE NoLoco,
                            ![a].on = @ \ {k}, ![a].off = @ \ {k}]
    /\ UNCHANGED <<locos, echo, bits, lastSent, baseline, fnSweep, toEcos, shown,
                   lost, stale, revived>>

Next ==
    \/ \E t \in Throttles, a \in Addr, d \in Drives : ThrottleDrive(t, a, d)
    \/ \E t \in Throttles, a \in Addr, g \in FnGroups : \E f \in g :
          \E F \in Bitmaps(t, a, g, f) : ThrottleFunctions(t, a, g, f, F)
    \/ \E t \in Throttles, a \in Addr : ThrottleSelect(t, a)
    \/ \E t \in Throttles, a \in Addr, d \in Drives : TableFull(t, a, d)
    \/ EcosDrive
    \/ EcosFunction
    \/ PacedStep
    \/ WindowCloses
    \/ BitsWindowCloses
    \/ \E a \in IdleAddr : Expire(a)
    \/ StationStep
    \/ \E a \in OperatorAddr, k \in Keys : \E v \in ValuesOf(k) : Operator(a, k, v)

Spec == Init /\ [][Next]_vars

-----------------------------------------------------------------------------
Quiescent == toEcos = <<>> /\ fromEcos = <<>> /\ baseline.left = {} /\ fnSweep.left = {}
Watched(a) == Tracked(a) /\ station[a].viewed
StationFns(a) == {f \in Fns : Meaning(f, Get(a, f))}
\* The value the table has for a property, as ECoS would put it.
Value(a, k) ==
    IF k = "speed" THEN locos[a].speed
    ELSE IF k = "dir" THEN locos[a].dir ELSE Raw(k, locos[a].fns)

(* Type invariant; the table never holds more than MAX_LOCOS locos. *)
TypeOK ==
    /\ locos \in [Addr -> Locos \cup {NoLoco}]
    /\ Cardinality({a \in Addr : Tracked(a)}) <= MaxLocos
    /\ echo \in [addr : Addr \cup {NoAddr}, src : Throttles \cup {NoSource},
                 type : {"SPEED", "FUNCTION"}, open : BOOLEAN]
    /\ bits \in [addr : Addr \cup {NoAddr}, on : SUBSET Fns, off : SUBSET Fns, open : BOOLEAN]
    /\ lastSent \in [Addr -> (SUBSET Fns) \cup {NoBaseline}]
    /\ baseline \in Baselines
    /\ fnSweep \in FnSweeps
    /\ toEcos \in Seq(Commands)
    /\ fromEcos \in Seq(Events)
    /\ station \in [Addr -> StationLocos]
    /\ shown \in [Throttles -> [Addr -> Locos]]
    /\ wish \in [Addr -> Wishes]
    /\ lost \in [Addr -> SUBSET Keys] /\ revived \subseteq Addr
    /\ stale \in [Addr -> StaleDisplays]
    /\ ops \in 0 .. MaxOps

(* Once nothing is in flight the table holds the speed and direction ECoS  *)
(* has, although every throttle command was stored before ECoS saw it and  *)
(* late events and replies overwrote newer values on the way.  The         *)
(* exception is a property that the query of another loco left unasked.    *)
DriveAgrees ==
    Quiescent => \A a \in Addr : Watched(a) =>
        \A k \in {"speed", "dir"} \ lost[a] : Value(a, k) = Get(a, k)

(* The same for functions, inverted ones included, whether a bit came from *)
(* the first sweep, a difference, a baseline reply or the operator.        *)
FunctionsAgree ==
    Quiescent => \A a \in Addr : Watched(a) =>
        \A f \in Fns \ lost[a] : f \in locos[a].fns <=> f \in StationFns(a)

(* What one would like to say: nothing is left out.  It does not hold.     *)
TableAlwaysAgrees ==
    Quiescent => \A a \in Addr : Watched(a) =>
        \A k \in Keys : Value(a, k) = Get(a, k)

(* A throttle other than the loco's last driver shows the speed and the    *)
(* direction in the table at any time: suppressing an echo towards one     *)
(* protocol never silences the news towards another (broadcastCommand(),   *)
(* wasRecentSource()).  Displays that are older than the table's entry are *)
(* the exception: nobody tells them that an expired loco starts afresh, or *)
(* that a command was refused for want of room.                            *)
OthersShowDrive ==
    \A a \in Addr : Tracked(a) =>
        \A t \in Throttles \ stale[a].drive :
            wish[a].driver # t => SameDrive(shown[t][a], locos[a])

(* A throttle that never commanded a loco follows it in everything.        *)
BystandersShowAll ==
    \A a \in Addr : Tracked(a) =>
        \A t \in Throttles \ (wish[a].users \cup stale[a].drive \cup stale[a].fns) :
            shown[t][a] = locos[a]

(* The loco ends up at the speed and in the direction a throttle asked for *)
(* last, unless the operator changed them on ECoS afterwards: no late echo *)
(* or baseline reply is turned back into a command, other than by a        *)
(* function command, which sends the table's speed and direction again.    *)
LastDriveWins ==
    Quiescent => \A a \in Addr : (wish[a].drive # NoLoco /\ ~wish[a].resent) =>
        SameDrive(station[a], wish[a].drive)

(* The same of all commands.  It does not hold.                            *)
LastDriveAlwaysWins ==
    Quiescent => \A a \in Addr : wish[a].drive # NoLoco =>
        SameDrive(station[a], wish[a].drive)

(* Each function ends up as the throttle that pressed it last wanted it,   *)
(* unless the operator changed it on ECoS afterwards.                      *)
LastFunctionWins ==
    Quiescent => \A a \in Addr :
        wish[a].on \subseteq StationFns(a) /\ wish[a].off \cap StationFns(a) = {}

(* A loco that a throttle put into the table is one whose updates ECoS     *)
(* sends, although releases, requests and the operator's changes cross on  *)
(* the wire.  An event that crosses the release of its loco makes an entry *)
(* too, and requests no view for it (handleEcosCommand()); the throttles   *)
(* that drive the loco afterwards find it in the table and request none.   *)
SubscribedMeansViewed ==
    Quiescent => \A a \in Addr \ revived : Tracked(a) => station[a].viewed

(* subscribed_to_ecos says so of every entry.  It does not hold.           *)
EntryMeansViewed ==
    Quiescent => \A a \in Addr : Tracked(a) => station[a].viewed

(* The reverse: ECoS does not go on reporting a loco the table has dropped *)
(* to make room (update() releases what expungeInactiveLocos() removed).   *)
ForgottenIsReleased ==
    Quiescent => \A a \in Addr : station[a].viewed => Tracked(a)

(* Views cost ECoS and its buffers, and a missing one leaves a throttle in *)
(* the dark: views and table agree both ways, but for entries events made. *)
ViewsMatchTable == SubscribedMeansViewed /\ ForgottenIsReleased

(* The recorded bits are about one loco: news about the functions of       *)
(* another loco reaches every throttle.                                    *)
OnlyOwnBitsAreEchoes ==
    [][\A a \in Addr : (EcosFunction /\ locos'[a] # locos[a] /\ bits.addr # a)
          => \A t \in Throttles : shown'[t][a].fns = locos'[a].fns]_vars
=============================================================================
