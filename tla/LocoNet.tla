------------------------------- MODULE LocoNet -------------------------------
(***************************************************************************)
(* The LocoNet side of the bridge: the slot table a Digitrax throttle      *)
(* borrows its loco from, the queue of frames waiting for a quiet bus, and *)
(* the deliberate bus disconnect that makes a throttle read its slot       *)
(* again after another protocol changed the loco.  The bus is shared: a    *)
(* frame of one throttle or of the bridge is seen by all of them.          *)
(*                                                                         *)
(* The throttles are part of the model, as the code and its comments       *)
(* describe them: ask for a loco, take its slot, write the slot back, turn *)
(* the knob, press keys of another address, release, dispatch, unplug      *)
(* without a word, and read the slot again after a disconnect.  The loco   *)
(* table behind the router is the map that StateEngine implements: it has  *)
(* room for MaxLocos, forgets a loco nobody moved for five minutes, and    *)
(* takes in events of ECoS that the router then keeps from this bus.  Slot *)
(* and table are two copies of the loco's state; `parted' records where    *)
(* the code itself lets them differ.  Time is abstracted: an idle slot     *)
(* expires, a resynchronisation falls due and a retry is made at any       *)
(* moment.                                                                 *)
(***************************************************************************)
EXTENDS Naturals, Sequences, FiniteSets

CONSTANTS
    Slots,              \* 1..LN_SLOT_COUNT
    Addr,               \* DCC addresses in use
    Speeds,             \* bridge speeds in use, 0 among them
    Dirs,               \* {0, 1}: reverse, forward
    FnDirf, FnSnd,      \* functions carried by DIRF (F0-F4) and SND (F5-F8)
    Throttles,
    MaxLocos,           \* MAX_LOCOS
    MaxReplies,         \* MAX_REPLIES
    MaxAttempts,        \* LOCONET_TX_RETRIES_MAX
    MaxOps, MaxFaults,  \* bounds on what people do, on damaged frames
    NoAddr

Fns == FnDirf \cup FnSnd
Stopped == 0
EStop == 1
\* lnSpeedFromBridge(), lnSpeedToBridge(): 1 on the bus is the emergency stop.
FromBridge(n) == IF n = 0 THEN Stopped ELSE IF n >= 126 THEN 127 ELSE n + 1
ToBridge(n) == IF n < 2 THEN 0 ELSE n - 1
BusSpeeds == {FromBridge(n) : n \in Speeds} \cup {EStop}
Contents == [speed : BusSpeeds, dir : Dirs, fns : SUBSET Fns]
Locos == [speed : Speeds, dir : Dirs, fns : SUBSET Fns]
SlotStates == [addr : Addr \cup {NoAddr}, stat : {"FREE", "COMMON", "IN_USE"},
               val : Contents]
Frames == [op : {"SL_RD", "LONG_ACK", "NO_SLOT", "NO_MOVE", "REPORT"},
           slot : Slots \cup {0}, state : SlotStates]
Phases == {"idle", "find", "found", "take", "get", "write", "driving", "reread"}
Holding == {"write", "driving", "reread"}
\* What of a loco one message carries.
Parts == {"drive", "fns"}

ASSUME LocoNetAssumption ==
    /\ Slots = 1 .. Cardinality(Slots) /\ IsFiniteSet(Slots)
    /\ 0 \in Speeds /\ Speeds \subseteq 0 .. 126
    /\ 1 \in Dirs /\ Dirs \subseteq {0, 1}
    /\ IsFiniteSet(Fns) /\ FnDirf \cap FnSnd = {}
    /\ NoAddr \notin Addr
    /\ MaxLocos \in Nat /\ MaxReplies \in Nat \ {0} /\ MaxAttempts \in Nat \ {0}
    /\ MaxOps \in Nat /\ MaxFaults \in Nat

VARIABLES
    slot,       \* LnSlotServer: slots[]
    older,      \* last_use_ms: per slot, those used longer ago
    dispatch,   \* dispatch_slot, 0 for none
    expired,    \* expired_mask
    resync,     \* resync_needed
    replies,    \* replies[], oldest first
    attempts,   \* tx_attempts of the reply at the head
    held,       \* bus_held
    table,      \* the router's loco table; a loco it does not have reads as
                \* stopped, forward
    known,      \* the locos it has
    parted,     \* history: what of which loco slot and table may differ in
    throttle,   \* per throttle: its phase, the slot and loco it believes to
                \* have, and what it shows of it
    written,    \* history: locos a slot was filled for by a throttle's write
    missed,     \* history: throttles whose slot changed where no resync is owed
    ops, faults \* bounds

vars == <<slot, older, dispatch, expired, resync, replies, attempts, held,
          table, known, parted, throttle, written, missed, ops, faults>>

-----------------------------------------------------------------------------
Free(s) == slot[s].stat = "FREE"
InUse(s) == slot[s].stat = "IN_USE"
ExpectedBy(t, ph) == throttle[t].phase \in ph
On(s) == {t \in Throttles : ExpectedBy(t, Holding) /\ throttle[t].slot = s}

Reset == [speed |-> Stopped, dir |-> 1, fns |-> {}]
NoSlot == [addr |-> NoAddr, stat |-> "FREE", val |-> Reset]
Default == [speed |-> 0, dir |-> 1, fns |-> {}]
\* addOrUpdateLoco() takes a loco it has, and a new one while there is room.
Room == Cardinality(known) < MaxLocos
Takes(a) == a \in known \/ Room
\* trackLocoForThrottle()
Track(a) == known' = IF Room THEN known \cup {a} ELSE known
\* lookupLocoState()
FromTable(a) == [table[a] EXCEPT !.speed = FromBridge(@)]
\* refreshFromLookup(): a loco the table does not have stays as its slot has it.
Refreshed(sl) == IF sl.addr \in known THEN [sl EXCEPT !.val = FromTable(sl.addr)] ELSE sl
Rejoin(a) == parted' = IF a \in known THEN parted \ ({a} \X Parts) ELSE parted
\* What two contents have in common: a stored emergency stop means stopped.
SameDrive(v, w) == ToBridge(v.speed) = ToBridge(w.speed) /\ v.dir = w.dir
SameFns(v, w) == v.fns = w.fns
SameOnDisplay(v, w) == SameDrive(v, w) /\ SameFns(v, w)
(* A refresh marks no slot as changed: the throttles on it are owed no     *)
(* disconnect for what it changes.                                         *)
Silently(s, sl) ==
    missed' = IF resync \/ SameOnDisplay(slot[s].val, sl.val) THEN missed
              ELSE missed \cup On(s)

(* Slips a change to the sources could make; each stands in for the        *)
(* definition it is named after when the properties are put to the test.   *)
ClaimableIgnoresHolders(s) == s # dispatch
RouteOnlyDrive(s, old, new) ==
    /\ table' = [table EXCEPT ![slot[s].addr].speed = ToBridge(new.speed),
                              ![slot[s].addr].dir = new.dir]
    /\ known' = known \cup {slot[s].addr}
    /\ UNCHANGED parted
QueuedWithoutRoom(q, f) == Append(q, f)

-----------------------------------------------------------------------------
(* queueReply(): a full queue drops its oldest frame; the attempts already *)
(* spent on that one are charged to the next.                              *)
Queued(q, f) == Append(IF Len(q) = MaxReplies THEN Tail(q) ELSE q, f)
Reply(f) == replies' = Queued(replies, f)
\* buildSlotRead(): the frame carries the slot as it is when it is queued.
SlotRead(s, sl) == [op |-> "SL_RD", slot |-> s, state |-> sl]
\* queueLongAck() and the frames that only report: no slot in them.
Plain(op) == [op |-> op, slot |-> 0, state |-> NoSlot]

\* last_use_ms = now for every slot of S; of equal times the lowest slot is taken.
Use(S) == older' = [s \in Slots |-> IF s \in S THEN (Slots \ S) \cup {u \in S : u < s}
                                             ELSE older[s] \ S]
\* noteThrottleActivity(slot, now, false)
Heard(s) == expired' = expired \ {s}
\* ... and with reactivate: an expired slot is its throttle's again.
Reactivated(s, sl) == IF s \in expired THEN [sl EXCEPT !.stat = "IN_USE"] ELSE sl

\* findSlotByAddress(): the lowest slot that holds the loco.
SlotsOf(a) == {s \in Slots : ~Free(s) /\ slot[s].addr = a}
Lowest(S) == {s \in S : \A u \in S : s <= u}
\* allocateSlot(): reclaim what nobody holds, the least recently used first.
Claimable(s) == ~InUse(s) /\ s # dispatch
Oldest(S) == {s \in S : older[s] \cap S = {}}
\* The one slot a request for the loco is given, or none.
SlotFor(a) ==
    LET free == {s \in Slots : Free(s)}
    IN  CASE SlotsOf(a) # {} -> Lowest(SlotsOf(a))
          [] SlotsOf(a) = {} /\ free # {} -> Lowest(free)
          [] SlotsOf(a) = {} /\ free = {} -> Oldest({s \in Slots : Claimable(s)})

\* markSlotChanged(): only a slot a throttle holds shows a stale display.
OwesResync(s, before, after) == before.stat = "IN_USE" /\ before.val # after.val

(* routeEvent(): LN_EV_DRIVE and LN_EV_FUNCTIONS carry what differs to the *)
(* router, which updates its table and tells every protocol but this one.  *)
(* With the table full of others it refuses them; the slot keeps them.     *)
Differing(old, new) == {part \in Parts :
    IF part = "fns" THEN new.fns # old.fns ELSE new.speed # old.speed \/ new.dir # old.dir}
Merged(st, parts, v) ==
    [speed |-> IF "drive" \in parts THEN ToBridge(v.speed) ELSE st.speed,
     dir |-> IF "drive" \in parts THEN v.dir ELSE st.dir,
     fns |-> IF "fns" \in parts THEN v.fns ELSE st.fns]
Route(s, old, new) ==
    LET a == slot[s].addr
        parts == Differing(old, new)
    IN  IF Takes(a)
        THEN /\ table' = [table EXCEPT ![a] = Merged(@, parts, new)]
             /\ known' = IF parts = {} THEN known ELSE known \cup {a}
             /\ parted' = parted \ ({a} \X parts)
        ELSE /\ parted' = parted \cup ({a} \X parts)
             /\ UNCHANGED <<table, known>>

(* A slot read that is sent is seen by every throttle on the bus.          *)
Seen(f, t) ==
    LET me == throttle[t]  sl == f.state
    IN  CASE me.phase = "find" /\ sl.stat # "FREE" /\ sl.addr = me.addr
               -> [me EXCEPT !.phase = "found", !.slot = f.slot]
          [] me.phase = "get" /\ sl.stat = "IN_USE"
               -> [phase |-> "write", slot |-> f.slot, addr |-> sl.addr, shows |-> sl.val]
          [] me.phase \in Holding \cup {"take"} /\ me.slot = f.slot
             /\ (sl.stat = "FREE" \/ sl.addr # me.addr)
               -> [me EXCEPT !.phase = "idle"]
          [] me.phase = "take" /\ me.slot = f.slot /\ sl.stat = "IN_USE" /\ sl.addr = me.addr
               -> [me EXCEPT !.phase = "write", !.shows = sl.val]
          [] me.phase \in Holding /\ me.slot = f.slot /\ sl.stat # "FREE" /\ sl.addr = me.addr
               -> [me EXCEPT !.shows = sl.val,
                             !.phase = IF @ = "reread" THEN "driving" ELSE @]
          [] OTHER -> me
Delivered(f) ==
    [t \in Throttles |->
        CASE f.op = "SL_RD" -> Seen(f, t)
          [] f.op = "NO_SLOT" /\ ExpectedBy(t, {"find"})
               -> [throttle[t] EXCEPT !.phase = "idle"]
          [] f.op = "NO_MOVE" /\ ExpectedBy(t, {"take", "get"})
               -> [throttle[t] EXCEPT !.phase = "idle"]
          [] OTHER -> throttle[t]]
\* The throttles that take what they show from the frame.
Readers(f) == {t \in Throttles : /\ f.op = "SL_RD"
                                 /\ Delivered(f)[t].phase \in Holding
                                 /\ Delivered(f)[t].slot = f.slot}
\* ... and of these the ones that had no slot yet.
Newcomers(f) == {t \in Readers(f) : ~ExpectedBy(t, Holding)}
\* The throttles that a read of s already queued is about to mislead.
Expecting(s) == IF \A i \in DOMAIN replies : replies[i].slot # s THEN {} ELSE On(s)
\* A read queued before the last change of its slot is out of date; so is
\* every read of the slot ahead of it, as far as the display is concerned.
OutOfDate(f) ==
    \E i \in DOMAIN replies : /\ replies[i].op = "SL_RD" /\ replies[i].slot = f.slot
                              /\ replies[i].state.val # slot[f.slot].val

-----------------------------------------------------------------------------
Init ==
    /\ slot = [s \in Slots |-> NoSlot]
    /\ older = [s \in Slots |-> {u \in Slots : u < s}]
    /\ dispatch = 0 /\ expired = {} /\ resync = FALSE
    /\ replies = <<>> /\ attempts = 0 /\ held = FALSE
    /\ table = [a \in Addr |-> Default] /\ known = {} /\ parted = {}
    /\ throttle = [t \in Throttles |->
                      [phase |-> "idle", slot |-> 0, addr |-> NoAddr, shows |-> Reset]]
    /\ written = {} /\ missed = {} /\ ops = 0 /\ faults = 0

\* A slip, as above: the bus is pulled low with replies still to send.
DisconnectAtOnce ==
    /\ ~held /\ resync
    /\ held' = TRUE /\ resync' = FALSE
    /\ UNCHANGED <<slot, older, dispatch, expired, replies, attempts, table, known, parted,
                   throttle, written, missed, ops, faults>>

Operate == ops < MaxOps /\ ops' = ops + 1
Becomes(t, fields) == throttle' = [throttle EXCEPT ![t] = fields]

(* OPC_LOCO_ADR, handleLocoAdr(): a slot still in use is offered as free   *)
(* to take.  Keys pressed on a throttle probe one address after another.   *)
Loaded(s, a) ==
    Refreshed([addr |-> a, stat |-> "COMMON",
               val |-> IF s \in SlotsOf(a) THEN slot[s].val ELSE Reset])
LocoAdr(a) ==
    \/ /\ SlotFor(a) = {}
       /\ Reply(Plain("NO_SLOT"))
       /\ UNCHANGED <<slot, older, expired, parted, missed>>
    \/ \E s \in SlotFor(a) :
          /\ slot' = [slot EXCEPT ![s] = Loaded(s, a)]
          /\ Use({s}) /\ Heard(s)
          /\ Reply(SlotRead(s, Loaded(s, a)))
          /\ IF s \in SlotsOf(a)
             THEN Rejoin(a) /\ Silently(s, Loaded(s, a))
             ELSE parted' = parted \ ({a} \X Parts) /\ missed' = missed \cup On(s)

Find(t, a) ==
    /\ Operate /\ ~held /\ ExpectedBy(t, {"idle", "found"})
    /\ LocoAdr(a)
    /\ Becomes(t, [throttle[t] EXCEPT !.phase = "find", !.addr = a])
    /\ UNCHANGED <<dispatch, resync, attempts, held, table, known, written, faults>>

\* A key press on a throttle that keeps its loco meanwhile.
Probe(t, a) ==
    /\ Operate /\ ~held /\ ExpectedBy(t, {"driving"})
    /\ LocoAdr(a)
    /\ UNCHANGED <<dispatch, resync, attempts, held, table, known, throttle, written, faults>>

(* A throttle takes a slot: it gets what the table has, and the router is  *)
(* told afterwards (LN_EV_SELECT), which makes a row for a loco it has not.*)
Selected(s) ==
    LET taken == Refreshed([slot[s] EXCEPT !.stat = "IN_USE"])
    IN  /\ slot' = [slot EXCEPT ![s] = taken]
        /\ Use({s}) /\ Heard(s)
        /\ Reply(SlotRead(s, taken))
        /\ Rejoin(slot[s].addr) /\ Silently(s, taken) /\ Track(slot[s].addr)

(* OPC_MOVE_SLOTS with source and destination alike: the null move selects *)
(* the slot, whoever held it; an empty slot is answered with its own read. *)
NullMove(s) ==
    IF Free(s)
    THEN /\ Reply(SlotRead(s, slot[s]))
         /\ UNCHANGED <<slot, older, dispatch, expired, known, parted, missed>>
    ELSE /\ Selected(s)
         /\ dispatch' = IF dispatch = s THEN 0 ELSE dispatch

Take(t) ==
    /\ ~held /\ ExpectedBy(t, {"found"})
    /\ NullMove(throttle[t].slot)
    /\ Becomes(t, [throttle[t] EXCEPT !.phase = "take"])
    /\ UNCHANGED <<resync, attempts, held, table, written, ops, faults>>

(* OPC_MOVE_SLOTS to slot 0: the throttle leaves its loco for another.     *)
DispatchPut(t) ==
    LET s == throttle[t].slot
        left == [slot[s] EXCEPT !.stat = "COMMON"]
    IN  /\ Operate /\ ~held /\ ExpectedBy(t, {"driving"})
        /\ IF Free(s)
           THEN /\ Reply(Plain("NO_MOVE"))
                /\ UNCHANGED <<slot, older, dispatch, expired>>
           ELSE /\ slot' = [slot EXCEPT ![s] = left]
                /\ dispatch' = s /\ Use({s}) /\ Heard(s)
                /\ Reply(SlotRead(s, left))
        /\ Becomes(t, [throttle[t] EXCEPT !.phase = "idle"])
        /\ UNCHANGED <<resync, attempts, held, table, known, parted, written, missed, faults>>

\* OPC_MOVE_SLOTS from slot 0.
DispatchGet(t) ==
    /\ Operate /\ ~held /\ ExpectedBy(t, {"idle"})
    /\ IF dispatch = 0
       THEN /\ Reply(Plain("NO_MOVE"))
            /\ UNCHANGED <<slot, older, expired, known, parted, missed>>
       ELSE Selected(dispatch)
    /\ dispatch' = 0
    /\ Becomes(t, [throttle[t] EXCEPT !.phase = "get"])
    /\ UNCHANGED <<resync, attempts, held, table, written, faults>>

(* OPC_WR_SL_DATA: right after selecting, a throttle repeats what it was   *)
(* given.  What that changes is a command only if the slot was already in  *)
(* use for that loco.                                                      *)
WriteSlot(t) ==
    LET me == throttle[t]  s == me.slot
        now == [addr |-> me.addr, stat |-> "IN_USE", val |-> me.shows]
        own == InUse(s) /\ slot[s].addr = me.addr
    IN  /\ ~held /\ ExpectedBy(t, {"write"})
        /\ slot' = [slot EXCEPT ![s] = now]
        /\ Use({s}) /\ Heard(s)
        /\ Reply(Plain("LONG_ACK"))
        /\ IF own
           THEN Route(s, slot[s].val, me.shows)
           ELSE /\ IF InUse(s) THEN UNCHANGED known ELSE Track(me.addr)
                /\ UNCHANGED <<table, parted>>
        /\ written' = IF own THEN written ELSE written \cup ({me.addr, slot[s].addr} \ {NoAddr})
        /\ missed' = IF now.val = slot[s].val THEN missed
                     ELSE missed \cup (On(s) \ {t}) \cup Expecting(s)
        /\ Becomes(t, [me EXCEPT !.phase = "driving"])
        /\ UNCHANGED <<dispatch, resync, attempts, held, ops, faults>>

(* OPC_LOCO_SPD, OPC_LOCO_DIRF, OPC_LOCO_SND: the throttle sends one part  *)
(* of what it shows; nothing is stored for an empty slot.                  *)
Sent(part, old, v) ==
    CASE part = "SPD" -> [old EXCEPT !.speed = v.speed]
      [] part = "DIRF" -> [old EXCEPT !.dir = v.dir,
                                      !.fns = (@ \ FnDirf) \cup (v.fns \cap FnDirf)]
      [] part = "SND" -> [old EXCEPT !.fns = (@ \ FnSnd) \cup (v.fns \cap FnSnd)]
Command(t, part, v) ==
    LET me == throttle[t]  s == me.slot
        new == Sent(part, slot[s].val, v)
    IN  /\ Operate /\ ~held /\ ExpectedBy(t, {"driving"})
        /\ Sent(part, me.shows, v) = v /\ v # me.shows
        /\ IF Free(s)
           THEN UNCHANGED <<slot, older, expired, table, known, parted, missed>>
           ELSE /\ slot' = [slot EXCEPT ![s] = Reactivated(s, [@ EXCEPT !.val = new])]
                /\ Use({s}) /\ Heard(s)
                /\ Route(s, slot[s].val, new)
                /\ missed' = IF new = slot[s].val THEN missed
                             ELSE missed \cup (On(s) \ {t}) \cup Expecting(s)
        /\ Becomes(t, [me EXCEPT !.shows = v])
        /\ UNCHANGED <<dispatch, resync, replies, attempts, held, written, faults>>

\* OPC_SLOT_STAT1: a throttle releases its slot; ignored for an empty one.
Release(t) ==
    LET s == throttle[t].slot
    IN  /\ Operate /\ ~held /\ ExpectedBy(t, {"driving"})
        /\ IF Free(s)
           THEN UNCHANGED <<slot, older, expired>>
           ELSE /\ slot' = [slot EXCEPT ![s].stat = "COMMON"]
                /\ Use({s}) /\ Heard(s)
        /\ Becomes(t, [throttle[t] EXCEPT !.phase = "idle"])
        /\ UNCHANGED <<dispatch, resync, replies, attempts, held, table, known, parted, written,
                       missed, faults>>

\* OPC_RQ_SL_DATA, after a disconnect.
ReadSlot(t) ==
    LET s == throttle[t].slot  fresh == Refreshed(slot[s])
    IN  /\ ~held /\ ExpectedBy(t, {"reread"})
        /\ \A i \in DOMAIN replies : replies[i].slot # s
        /\ slot' = [slot EXCEPT ![s] = fresh]
        /\ Reply(SlotRead(s, fresh))
        /\ Rejoin(slot[s].addr) /\ Silently(s, fresh)
        /\ UNCHANGED <<older, dispatch, expired, resync, attempts, held, table, known,
                       throttle, written, ops, faults>>

\* A throttle that got no answer asks again.
AskAgain(t) ==
    /\ ~held /\ replies = <<>>
    /\ \/ /\ ExpectedBy(t, {"find"})
          /\ LocoAdr(throttle[t].addr)
          /\ UNCHANGED <<dispatch, known, throttle>>
       \/ /\ ExpectedBy(t, {"take"})
          /\ NullMove(throttle[t].slot)
          /\ UNCHANGED throttle
       \/ /\ ExpectedBy(t, {"get"})
          /\ Becomes(t, [throttle[t] EXCEPT !.phase = "idle"])
          /\ UNCHANGED <<slot, older, dispatch, expired, replies, known, parted, missed>>
    /\ UNCHANGED <<resync, attempts, held, table, written, ops, faults>>

\* A throttle is unplugged: nobody is told.
Unplug(t) ==
    /\ Operate /\ ExpectedBy(t, Holding \cup {"found"})
    /\ Becomes(t, [throttle[t] EXCEPT !.phase = "idle"])
    /\ UNCHANGED <<slot, older, dispatch, expired, resync, replies, attempts, held,
                   table, known, parted, written, missed, faults>>

\* expireIdleSlots(): slots in use not heard of for ten minutes.
Expire(S) ==
    /\ Operate /\ ~held
    /\ S # {} /\ \A s \in S : InUse(s)
    /\ slot' = [s \in Slots |-> IF s \in S THEN [slot[s] EXCEPT !.stat = "COMMON"]
                                           ELSE slot[s]]
    /\ expired' = expired \cup S
    /\ UNCHANGED <<older, dispatch, resync, replies, attempts, held, table, known, parted,
                   throttle, written, missed, faults>>

(* A throttle, or any other device on the bus, sends a DCC packet for F5   *)
(* to F8 (OPC_IMM_PACKET): the router is told, the slot is not.            *)
Immediate(a, F) ==
    LET fns == (table[a].fns \ FnSnd) \cup F
    IN  /\ Operate /\ ~held
        /\ Reply(Plain("LONG_ACK"))
        /\ IF Takes(a)
           THEN /\ table' = [table EXCEPT ![a].fns = fns]
                /\ known' = known \cup {a}
                /\ parted' = IF fns = table[a].fns THEN parted ELSE parted \cup {<<a, "fns">>}
           ELSE UNCHANGED <<table, known, parted>>
        /\ UNCHANGED <<slot, older, dispatch, expired, resync, attempts, held, throttle,
                       written, missed, faults>>

(* applyExternalDrive(), applyExternalFunctions(): what the router passes  *)
(* on from another protocol or from ECoS reaches every slot of the loco.   *)
External(a, parts, now, after) ==
    LET S == SlotsOf(a)
    IN  /\ Operate /\ Takes(a)
        /\ table' = [table EXCEPT ![a] = now] /\ known' = known \cup {a}
        /\ parted' = parted \ ({a} \X parts)
        /\ slot' = [s \in Slots |-> IF s \in S THEN [slot[s] EXCEPT !.val = after[s]] ELSE slot[s]]
        /\ Use(S)
        /\ resync' = (resync \/ \E s \in S : OwesResync(s, slot[s], slot'[s]))
        /\ missed' = missed \cup UNION {On(s) : s \in {u \in S : ~InUse(u) /\ after[u] # slot[u].val}}
        /\ UNCHANGED <<dispatch, expired, replies, attempts, held, throttle, written, faults>>

\* An emergency stop stays one when the router reports the loco stopped.
WithDrive(v, st) == [v EXCEPT !.dir = st.dir,
                              !.speed = IF st.speed = 0 /\ @ = EStop THEN @
                                        ELSE FromBridge(st.speed)]
WithFunctions(v, st) == [v EXCEPT !.fns = st.fns]
ExternalDrive(a, n, d) ==
    LET now == [table[a] EXCEPT !.speed = n, !.dir = d]
    IN  External(a, {"drive"}, now, [s \in Slots |-> WithDrive(slot[s].val, now)])
\* broadcastCommand() sends the loco's speed along with its functions.
ExternalFunctions(a, F) ==
    LET now == [table[a] EXCEPT !.fns = F]
    IN  External(a, Parts, now,
                 [s \in Slots |-> WithFunctions(WithDrive(slot[s].val, now), now)])

(* isEchoOfRecentCommand(): an event of ECoS that the router takes for the *)
(* answer to a command from this bus is stored and not passed on here.     *)
(* Which events these are is CommandRouter's matter.                       *)
Withheld(a, part, now) ==
    /\ Operate /\ a \in known /\ now # table[a]
    /\ table' = [table EXCEPT ![a] = now]
    /\ parted' = parted \cup {<<a, part>>}
    /\ UNCHANGED <<slot, older, dispatch, expired, resync, replies, attempts, held,
                   known, throttle, written, missed, faults>>
WithheldDrive(a, n, d) == Withheld(a, "drive", [table[a] EXCEPT !.speed = n, !.dir = d])
WithheldFunctions(a, F) == Withheld(a, "fns", [table[a] EXCEPT !.fns = F])

\* A throttle of another protocol selects a loco the table does not have.
OthersSelect(a) ==
    /\ Operate /\ a \notin known /\ Room
    /\ Track(a)
    /\ UNCHANGED <<slot, older, dispatch, expired, resync, replies, attempts, held,
                   table, parted, throttle, written, missed, faults>>

\* update(): nobody moved the loco for five minutes; its slot is not told.
Forget(a) ==
    /\ Operate /\ a \in known
    /\ known' = known \ {a} /\ table' = [table EXCEPT ![a] = Default]
    /\ parted' = parted \cup ({a} \X Parts)
    /\ UNCHANGED <<slot, older, dispatch, expired, resync, replies, attempts, held,
                   throttle, written, missed, faults>>

\* A stop, a resume or a turnout of another protocol: one frame to send.
ExternalReport ==
    /\ Operate /\ Reply(Plain("REPORT"))
    /\ UNCHANGED <<slot, older, dispatch, expired, resync, attempts, held, table, known, parted,
                   throttle, written, missed, faults>>

-----------------------------------------------------------------------------
\* serviceTransmit(): the oldest reply goes out once the bus is quiet.
Transmit ==
    /\ ~held /\ replies # <<>>
    /\ throttle' = Delivered(Head(replies))
    /\ missed' = IF ~OutOfDate(Head(replies)) THEN missed \ Readers(Head(replies))
                 ELSE IF resync THEN missed ELSE missed \cup Newcomers(Head(replies))
    /\ replies' = Tail(replies) /\ attempts' = 0
    /\ UNCHANGED <<slot, older, dispatch, expired, resync, held, table, known, parted, written,
                   ops, faults>>

\* Another device transmitted too: try again, and give up in the end.
Collision ==
    /\ ~held /\ replies # <<>> /\ faults < MaxFaults
    /\ faults' = faults + 1
    /\ IF attempts + 1 >= MaxAttempts
       THEN replies' = Tail(replies) /\ attempts' = 0
       ELSE attempts' = attempts + 1 /\ UNCHANGED replies
    /\ UNCHANGED <<slot, older, dispatch, expired, resync, held, table, known, parted, throttle,
                   written, missed, ops>>

\* lnResyncDue(), forceBusDisconnect(): nothing left to send, the bus quiet.
Disconnect ==
    /\ ~held /\ replies = <<>> /\ resync
    /\ held' = TRUE /\ resync' = FALSE
    /\ UNCHANGED <<slot, older, dispatch, expired, replies, attempts, table, known, parted,
                   throttle, written, missed, ops, faults>>

\* The bus is released: a throttle reads its slot again.
Reconnect ==
    /\ held
    /\ held' = FALSE
    /\ throttle' = [t \in Throttles |->
                      [throttle[t] EXCEPT !.phase = IF @ = "driving" THEN "reread" ELSE @]]
    /\ UNCHANGED <<slot, older, dispatch, expired, resync, replies, attempts, table, known, parted,
                   written, missed, ops, faults>>

\* The bridge restarts; the throttles keep the slots they believe to have.
Reboot ==
    /\ Operate
    /\ slot' = [s \in Slots |-> NoSlot]
    /\ older' = [s \in Slots |-> {u \in Slots : u < s}]
    /\ dispatch' = 0 /\ expired' = {} /\ resync' = FALSE
    /\ replies' = <<>> /\ attempts' = 0 /\ held' = FALSE
    /\ table' = [a \in Addr |-> Default] /\ known' = {} /\ parted' = {}
    /\ UNCHANGED <<throttle, written, missed, faults>>

Next ==
    \/ \E t \in Throttles :
          \/ \E a \in Addr : Find(t, a) \/ Probe(t, a)
          \/ Take(t) \/ DispatchPut(t) \/ DispatchGet(t) \/ WriteSlot(t)
          \/ \E part \in {"SPD", "DIRF", "SND"}, v \in Contents : Command(t, part, v)
          \/ Release(t) \/ ReadSlot(t) \/ AskAgain(t) \/ Unplug(t)
    \/ \E S \in SUBSET Slots : Expire(S)
    \/ \E a \in Addr :
          \/ \E n \in Speeds, d \in Dirs : ExternalDrive(a, n, d) \/ WithheldDrive(a, n, d)
          \/ \E F \in SUBSET Fns : ExternalFunctions(a, F) \/ WithheldFunctions(a, F)
          \/ \E F \in SUBSET FnSnd : Immediate(a, F)
          \/ OthersSelect(a) \/ Forget(a)
    \/ ExternalReport
    \/ Transmit \/ Collision \/ Disconnect \/ Reconnect \/ Reboot

Spec == Init /\ [][Next]_vars

-----------------------------------------------------------------------------
TypeOK ==
    /\ slot \in [Slots -> SlotStates]
    /\ older \in [Slots -> SUBSET Slots]
    /\ dispatch \in Slots \cup {0} /\ expired \subseteq Slots
    /\ resync \in BOOLEAN /\ held \in BOOLEAN
    /\ replies \in Seq(Frames) /\ Len(replies) <= MaxReplies
    /\ attempts \in 0 .. MaxAttempts - 1
    /\ table \in [Addr -> Locos] /\ known \subseteq Addr /\ parted \subseteq Addr \X Parts
    /\ throttle \in [Throttles -> [phase : Phases, slot : Slots \cup {0},
                                   addr : Addr \cup {NoAddr}, shows : Contents]]
    /\ written \subseteq Addr /\ missed \subseteq Throttles
    /\ ops \in 0 .. MaxOps /\ faults \in 0 .. MaxFaults

(* A selection must never turn into a command: the slot a throttle writes  *)
(* back after it was given one changes nothing for the loco.               *)
SelectionIsNoCommand ==
    [][\A t \in Throttles :
          throttle[t].phase = "write" /\ throttle'[t].phase = "driving"
          => table' = table]_vars

Joined(v, a) ==
    /\ <<a, "drive">> \notin parted => SameDrive(v, FromTable(a))
    /\ <<a, "fns">> \notin parted => SameFns(v, FromTable(a))

(* A slot holds what the router's table holds of its loco: a throttle's    *)
(* commands, the loading and refreshing of slots and what the router       *)
(* passes on from others keep the two copies together, the drive state and *)
(* the functions each.  The code lets them part, until one of these brings *)
(* them together again, where the router keeps an event of ECoS from this  *)
(* bus as an echo, refuses a command for want of room, forgets the loco or *)
(* gets its functions in a DCC packet.  (Not for a loco a throttle wrote   *)
(* into a slot itself, as it may after a restart of the bridge.)           *)
SlotsAgree ==
    \A s \in Slots : ~Free(s) /\ slot[s].addr \notin written
        => Joined(slot[s].val, slot[s].addr)

(* Once nothing is in flight and no disconnect is due, a throttle whose    *)
(* slot is in use shows what the slot holds, although others changed it:   *)
(* every change marked in a slot in use is followed by a disconnect that   *)
(* it did not itself fall into, and the read after it is not an older one. *)
(* The throttles in `missed' are owed none: their slot was changed while   *)
(* not in use, by another throttle, or by the refresh another's request    *)
(* made, and the read that tells the bus may be lost.                      *)
Settled == replies = <<>> /\ ~held /\ ~resync
DisplayFollows ==
    Settled => \A t \in Throttles \ missed :
        LET s == throttle[t].slot
        IN  ExpectedBy(t, {"driving"}) /\ InUse(s) /\ slot[s].addr = throttle[t].addr
            /\ slot[s].addr \notin written
            => SameOnDisplay(throttle[t].shows, slot[s].val)

(* A slot that is in use or dispatched keeps its loco: looking for a slot  *)
(* never takes one from the throttle that has it, or the dispatched loco   *)
(* from the throttle it waits for.                                         *)
HeldKeepsLoco ==
    [][\A s \in Slots : InUse(s) \/ dispatch = s
          => \/ slot'[s].addr = slot[s].addr
             \/ slot'[s].stat = "FREE"
             \/ slot[s].addr \in written']_vars
=============================================================================
