-------------------------------- MODULE Z21Lan --------------------------------
(***************************************************************************)
(* The Z21 side of the bridge: a UDP server that must itself remember who  *)
(* is there and who wants to hear about which loco.  A session begins with *)
(* any packet of an unknown sender, ends with a log-off or a minute of     *)
(* silence, and its place in the table goes to the next sender.  A packet  *)
(* carries any number of data sets; they are handled one after the other,  *)
(* with nothing in between, so no other step happens while "current" is    *)
(* set.                                                                    *)
(*                                                                         *)
(* The rest of the bridge is the router's loco table and turnout memory,   *)
(* changed by the other protocols at any time between two packets.  What a *)
(* client has been sent is recorded in "told"; whether UDP delivered it is *)
(* not the server's to know.  Codec: Z21Codec.                             *)
(***************************************************************************)
EXTENDS Naturals, Sequences, FiniteSets, SequencesExt, Z21Codec

CONSTANTS
    Clients,            \* senders: IP address and port
    Places,             \* 1..MAX_Z21_CLIENTS
    Addr, Locos,        \* DCC addresses; [speed, dir, fns]
    Fns,
    Turnouts,           \* turnout addresses as the router counts them, from 1
    MaxSubscribed,      \* MAX_Z21_SUBSCRIBED_PER_CLIENT
    MaxOps,             \* bound on data sets and changes by others
    Nobody, Unknown, Untold

ASSUME Z21Assumption ==
    /\ IsFiniteSet(Places) /\ Places = 1 .. Cardinality(Places)
    /\ MaxSubscribed \in Nat \ {0} /\ MaxOps \in Nat
    /\ Locos \subseteq [speed : Nat, dir : {0, 1}, fns : SUBSET Fns]
    /\ [speed |-> 0, dir |-> 1, fns |-> {}] \in Locos
    /\ \A st \in Locos, F \in SUBSET Fns :
            {[st EXCEPT !.speed = 0], [st EXCEPT !.fns = F]} \subseteq Locos
    /\ Turnouts \subseteq Nat \ {0}
    /\ Nobody \notin Clients \cup Addr /\ Unknown \notin Locos \cup BOOLEAN
    /\ Untold \notin Locos \cup BOOLEAN

VARIABLES
    clients,    \* clients[]: who holds the place, active, broadcast flag
                \* 0x00000001, subscribed_addresses, oldest first
    current,    \* the place handlePacket() works for, 0 when the table is
                \* full, and the sender; Idle between packets
    stopActive, \* emergency_stop_active
    table,      \* the router's loco table
    turnouts,   \* the router's known_accessories: TRUE for diverging
    told,       \* per client: what this session was last sent about each
                \* loco, each turnout address, and the emergency stop
    asked,      \* history: the locos asked for in this session, and the last
    muted,      \* history: clients that turned broadcasts off in this session
    withheld,   \* history: locos whose last change Z21 was not told
    ops

vars == <<clients, current, stopActive, table, turnouts, told, asked, muted,
          withheld, ops>>

Idle == [place |-> 0, who |-> Nobody]
Vacant == [who |-> Nobody, active |-> FALSE, flag |-> FALSE, subscribed |-> <<>>]
Placeholder == [speed |-> 0, dir |-> 1, fns |-> {}]
NothingTold == [loco |-> [a \in Addr |-> Untold], turnout |-> [t \in Turnouts |-> Untold],
                stop |-> Untold]
NothingAsked == [locos |-> {}, last |-> Nobody]

-----------------------------------------------------------------------------
Active(p) == clients[p].active
Listening(p) == Active(p) /\ clients[p].flag
\* isClientSubscribed()
IsSubscribed(p, a) == a \in ToSet(clients[p].subscribed)
Tracked(a) == table[a] # Unknown

(* Slips a change to the sources could make; each stands in for the        *)
(* definition it is named after when the properties are put to the test.   *)
SubscribedNoEviction(list, a) ==
    IF a \in ToSet(list) THEN list ELSE Append(list, a)
ConfirmedOnlyToSender(a, st) ==
    [c \in Clients |-> IF c = current.who THEN [told[c] EXCEPT !.loco[a] = st] ELSE told[c]]
StopToldOthers(s) ==
    [c \in Clients |-> IF c # current.who /\ \E p \in Places : Listening(p) /\ clients[p].who = c
                       THEN [told[c] EXCEPT !.stop = s] ELSE told[c]]
-----------------------------------------------------------------------------
(* What a datagram to some of the clients does to what they were told.     *)
Sent(P, what) ==
    LET them == {clients[p].who : p \in {q \in P : Active(q)}}
    IN  [c \in Clients |-> IF c \in them THEN what[c] ELSE told[c]]

\* broadcastLocoInfo(): those who subscribed to the loco.
LocoInfo(a, st) == [c \in Clients |-> [told[c] EXCEPT !.loco[a] = st]]
BroadcastLocoInfo(a, st) == Sent({p \in Places : Listening(p) /\ IsSubscribed(p, a)}, LocoInfo(a, st))
\* sendEmergencyStop(), sendResumeOperation(): everyone with the flag.
StopInfo(s) == [c \in Clients |-> [told[c] EXCEPT !.stop = s]]
BroadcastStop(s) == Sent({p \in Places : Listening(p)}, StopInfo(s))
\* z21BuildTurnoutInfo(): the address goes out as the router counts it.
TurnoutInfo(t, d) ==
    [c \in Clients |-> IF t \in Turnouts THEN [told[c] EXCEPT !.turnout[t] = d] ELSE told[c]]
BroadcastTurnout(t, d) == Sent({p \in Places : Listening(p)}, TurnoutInfo(t, d))

Operate == ops < MaxOps /\ ops' = ops + 1

-----------------------------------------------------------------------------
(* handlePacket() and findOrAddClient().  With a session ends the record   *)
(* of what it was told and asked for.                                      *)
NewSession(c) == [who |-> c, active |-> TRUE, flag |-> TRUE, subscribed |-> <<>>]
PlacesOf(c) == {p \in Places : Active(p) /\ clients[p].who = c}
FirstFree(p) == ~Active(p) /\ \A q \in 1 .. (p - 1) : Active(q)

Packet(c) ==
    /\ current = Idle
    /\ \/ /\ PlacesOf(c) # {}
          /\ current' = [place |-> CHOOSE p \in PlacesOf(c) : TRUE, who |-> c]
          /\ UNCHANGED clients
       \/ /\ PlacesOf(c) = {}
          /\ \E p \in Places :
                /\ FirstFree(p)
                /\ clients' = [clients EXCEPT ![p] = NewSession(c)]
                /\ current' = [place |-> p, who |-> c]
       \/ /\ PlacesOf(c) = {} /\ \A p \in Places : Active(p)
          /\ current' = [place |-> 0, who |-> c]
          /\ UNCHANGED clients
    /\ UNCHANGED <<stopActive, table, turnouts, told, asked, muted, withheld, ops>>

SessionEnds(p) ==
    /\ clients' = [clients EXCEPT ![p].active = FALSE]
    /\ told' = [told EXCEPT ![clients[p].who] = NothingTold]
    /\ asked' = [asked EXCEPT ![clients[p].who] = NothingAsked]
    /\ muted' = muted \ {clients[p].who}

EndOfPacket ==
    /\ current # Idle /\ current' = Idle
    /\ UNCHANGED <<clients, stopActive, table, turnouts, told, asked, muted,
                   withheld, ops>>

-----------------------------------------------------------------------------
(* handleDataset(), per kind of data set, for client_index "here".  After  *)
(* a log-off the rest of the packet still finds the place it gave up.      *)
here == current.place
DataSet == current # Idle /\ Operate
\* sendToClient()
Reply(what) == IF here = 0 THEN told ELSE Sent({here}, what)

Logoff ==
    /\ DataSet
    /\ IF here = 0 \/ ~Active(here) THEN UNCHANGED <<clients, told, asked, muted>>
                                    ELSE SessionEnds(here)
    /\ UNCHANGED <<current, stopActive, table, turnouts, withheld>>

SetBroadcastFlags(on) ==
    /\ DataSet
    /\ clients' = IF here = 0 THEN clients ELSE [clients EXCEPT ![here].flag = on]
    /\ muted' = IF on \/ here = 0 \/ ~Active(here) THEN muted ELSE muted \cup {current.who}
    /\ UNCHANGED <<current, stopActive, table, turnouts, told, asked, withheld>>

\* subscribeClientToLoco(): first in, first out; asking again changes nothing.
Subscribed(list, a) ==
    IF a \in ToSet(list) THEN list
    ELSE Append(IF Len(list) = MaxSubscribed THEN Tail(list) ELSE list, a)

GetLocoInfo(a) ==
    /\ DataSet
    /\ clients' = IF here = 0 THEN clients
                  ELSE [clients EXCEPT ![here].subscribed = Subscribed(@, a)]
    /\ told' = Reply(LocoInfo(a, IF Tracked(a) THEN table[a] ELSE Placeholder))
    /\ asked' = IF here = 0 \/ ~Active(here) THEN asked
                ELSE [asked EXCEPT ![current.who] = [locos |-> @.locos \cup {a}, last |-> a]]
    /\ UNCHANGED <<current, stopActive, table, turnouts, muted, withheld>>

\* The router takes the command, or refuses a loco its table has no room for
\* (then there is nothing to confirm).  broadcastConfirmedState() follows.
Confirmed(a, st) == BroadcastLocoInfo(a, st)
Commanded(a, st) ==
    /\ DataSet
    /\ \/ /\ table' = [table EXCEPT ![a] = st]
          /\ told' = Confirmed(a, st)
          /\ withheld' = withheld \ {a}
       \/ ~Tracked(a) /\ UNCHANGED <<table, told, withheld>>
    /\ UNCHANGED <<clients, current, stopActive, turnouts, asked, muted>>

State(a) == IF Tracked(a) THEN table[a] ELSE Placeholder
SetLocoDrive(a, st) == st.fns = State(a).fns /\ Commanded(a, st)
\* LAN_X_SET_LOCO_FUNCTION: on, off or toggle, from what the table has.
SetLocoFunction(a, f) ==
    \/ Commanded(a, [State(a) EXCEPT !.fns = @ \cup {f}])
    \/ Commanded(a, [State(a) EXCEPT !.fns = @ \ {f}])

\* z21DecodeTurnoutCommand(): the wire counts from 0, the router from 1.
\* The router does not tell Z21 of what Z21 commanded; ECoS will.
SetTurnout(wire, d) ==
    /\ DataSet
    /\ turnouts' = [turnouts EXCEPT ![wire + 1] = d]
    /\ UNCHANGED <<clients, current, stopActive, table, told, asked, muted, withheld>>

\* ... and here the wire address is looked up and sent back as it came, unless
\* this place was answered less than a second ago.
Known(t) == t \in Turnouts /\ turnouts[t] # Unknown /\ turnouts[t]
GetTurnoutInfo(wire) ==
    /\ DataSet
    /\ told' \in {told, Reply(TurnoutInfo(wire, Known(wire)))}
    /\ UNCHANGED <<clients, current, stopActive, table, turnouts, asked, muted, withheld>>

\* LAN_X_SET_STOP and LAN_X_SET_TRACK_POWER_OFF: the router stops every loco
\* of its table and tells the subscribers; the sender is told as well.
StopTold(s) == BroadcastStop(s)
StoppedTable == [a \in Addr |-> IF Tracked(a) THEN [table[a] EXCEPT !.speed = 0] ELSE Unknown]
StopEverything ==
    /\ table' = StoppedTable
    /\ stopActive' = TRUE
    /\ withheld' = {a \in withheld : ~Tracked(a)}
    /\ told' = [c \in Clients |->
                  [StopTold(TRUE)[c] EXCEPT !.loco = [a \in Addr |->
                      IF Tracked(a) THEN BroadcastLocoInfo(a, StoppedTable[a])[c].loco[a] ELSE @[a]]]]
SetStop ==
    /\ DataSet /\ StopEverything
    /\ UNCHANGED <<clients, current, turnouts, asked, muted>>

TrackPowerOn ==
    /\ DataSet
    /\ stopActive' = FALSE
    /\ told' = StopTold(FALSE)
    /\ UNCHANGED <<clients, current, table, turnouts, asked, muted, withheld>>

GetStatus ==
    /\ DataSet
    /\ told' = Reply(StopInfo(stopActive))
    /\ UNCHANGED <<clients, current, stopActive, table, turnouts, asked, muted, withheld>>

-----------------------------------------------------------------------------
(* Between packets: the other protocols, through the router. *)
Others == current = Idle /\ Operate

\* sendSpeedCommand(), sendFunctionCommand(): the whole state from the table.
OthersDrive(a, st) ==
    /\ Others
    /\ table' = [table EXCEPT ![a] = st]
    /\ told' = BroadcastLocoInfo(a, st)
    /\ withheld' = withheld \ {a}
    /\ UNCHANGED <<clients, current, stopActive, turnouts, asked, muted>>

\* The router takes an event of ECoS for the echo of a Z21 command, or only
\* makes an entry for a loco a throttle selected: Z21 is not told.
ChangedUnheard(a, st) ==
    /\ Others
    /\ table' = [table EXCEPT ![a] = st]
    /\ withheld' = withheld \cup {a}
    /\ UNCHANGED <<clients, current, stopActive, turnouts, told, asked, muted>>

Forget(a) ==
    /\ Others /\ Tracked(a)
    /\ table' = [table EXCEPT ![a] = Unknown]
    /\ UNCHANGED <<clients, current, stopActive, turnouts, told, asked, muted, withheld>>

OthersStop ==
    /\ Others /\ StopEverything
    /\ UNCHANGED <<clients, current, turnouts, asked, muted>>

OthersResume ==
    /\ Others
    /\ stopActive' = FALSE
    /\ told' = StopTold(FALSE)
    /\ UNCHANGED <<clients, current, table, turnouts, asked, muted, withheld>>

\* handleAccessoryCommand() of another throttle, handleEcosAccessoryCommand()
OthersTurnout(t, d) ==
    /\ Others
    /\ turnouts' = [turnouts EXCEPT ![t] = d]
    /\ told' = BroadcastTurnout(t, d)
    /\ UNCHANGED <<clients, current, stopActive, table, asked, muted, withheld>>

-----------------------------------------------------------------------------
\* expireStaleClients(): silent for more than Z21_CLIENT_TIMEOUT_MS.
Expire(p) ==
    /\ current = Idle /\ Active(p)
    /\ SessionEnds(p)
    /\ UNCHANGED <<current, stopActive, table, turnouts, withheld, ops>>

Init ==
    /\ clients = [p \in Places |-> Vacant]
    /\ current = Idle /\ stopActive = FALSE
    /\ table = [a \in Addr |-> Unknown]
    /\ turnouts = [t \in Turnouts |-> Unknown]
    /\ told = [c \in Clients |-> NothingTold]
    /\ asked = [c \in Clients |-> NothingAsked]
    /\ muted = {} /\ withheld = {}
    /\ ops = 0

Next ==
    \/ \E c \in Clients : Packet(c)
    \/ EndOfPacket \/ Logoff \/ SetStop \/ TrackPowerOn \/ GetStatus
    \/ \E on \in BOOLEAN : SetBroadcastFlags(on)
    \/ \E a \in Addr : GetLocoInfo(a) \/ Forget(a)
    \/ \E a \in Addr, st \in Locos :
            SetLocoDrive(a, st) \/ OthersDrive(a, st) \/ ChangedUnheard(a, st)
    \/ \E a \in Addr, f \in Fns : SetLocoFunction(a, f)
    \/ \E t \in Turnouts : GetTurnoutInfo(t - 1)
    \/ \E t \in Turnouts, d \in BOOLEAN : SetTurnout(t - 1, d) \/ OthersTurnout(t, d)
    \/ OthersStop \/ OthersResume
    \/ \E p \in Places : Expire(p)

Spec == Init /\ [][Next]_vars

-----------------------------------------------------------------------------
(* Types of the variables, and the sizes the code reserves.                *)
TypeOK ==
    /\ clients \in [Places -> [who : Clients \cup {Nobody}, active : BOOLEAN,
                               flag : BOOLEAN, subscribed : Seq(Addr)]]
    /\ \A p \in Places : Len(clients[p].subscribed) <= MaxSubscribed
    /\ current \in [place : Places \cup {0}, who : Clients \cup {Nobody}]
    /\ stopActive \in BOOLEAN
    /\ table \in [Addr -> Locos \cup {Unknown}]
    /\ turnouts \in [Turnouts -> BOOLEAN \cup {Unknown}]
    /\ told \in [Clients -> [loco : [Addr -> Locos \cup {Untold}],
                             turnout : [Turnouts -> BOOLEAN \cup {Untold}],
                             stop : BOOLEAN \cup {Untold}]]
    /\ asked \in [Clients -> [locos : SUBSET Addr, last : Addr \cup {Nobody}]]
    /\ muted \subseteq Clients /\ withheld \subseteq Addr
    /\ ops \in 0 .. MaxOps

Hears(p) == Listening(p) /\ clients[p].who \notin muted

(* Whoever changes a loco, by drive, function key or stop, and whichever   *)
(* sessions came, went and changed places meanwhile: what a subscriber was *)
(* last sent is what the loco table holds.  The exceptions are made by the *)
(* client, which turned broadcasts off, and by the router (withheld).      *)
SubscriberTold ==
    \A p \in Places, a \in Addr :
        Hears(p) /\ IsSubscribed(p, a) /\ Tracked(a) /\ a \notin withheld
            => told[clients[p].who].loco[a] = table[a]

(* A client that was told about the emergency stop was told the truth: no  *)
(* stop or resumption, whoever caused it, passes a session by.             *)
StopTruthful ==
    \A p \in Places :
        LET heard == told[clients[p].who].stop
        IN  Hears(p) /\ heard # Untold => heard = stopActive

(* A session has the subscriptions its own client asked for, none left by  *)
(* the place's former occupant; the loco asked for last is among them; and *)
(* no client has two sessions.                                             *)
OwnSubscriptions ==
    \A p \in Places : Active(p) =>
        LET list == clients[p].subscribed
            requests == asked[clients[p].who]
        IN  /\ ToSet(list) \subseteq requests.locos
            /\ requests.last \in Addr => requests.last \in ToSet(list)
            /\ \A i, j \in DOMAIN list : list[i] = list[j] => i = j
            /\ \A q \in Places : Active(q) /\ clients[q].who = clients[p].who => q = p

(* Together: a client is told about what it asked for, and about that as   *)
(* it is.                                                                  *)
SubscriptionsHonoured == SubscriberTold /\ OwnSubscriptions

(* z21_protocol.cpp:144 "Z21 wire addresses are 0-indexed": wire n is the  *)
(* turnout n + 1, so what a client is told about wire n should be about    *)
(* that turnout.                                                           *)
WireAddressesAgree ==
    \A c \in Clients, wire \in Turnouts :
        (/\ told[c].turnout[wire] # Untold
         /\ wire + 1 \in Turnouts
         /\ turnouts[wire + 1] # Unknown)
            => told[c].turnout[wire] = turnouts[wire + 1]

(* What the bridge writes into a datagram and what it reads out of one     *)
(* mean the same for addresses of locos, speeds, directions and functions, *)
(* whose encoders and decoders z21_protocol.cpp has; a turnout's position  *)
(* means the same, and its number one less when it is written than when it *)
(* is read.  A fact about bytes, looked at once, in the first state.       *)
CodecKeepsState == Init => NothingLost
=============================================================================
