---------------------------- MODULE LocoNetProofs ----------------------------
(***************************************************************************)
(* That a slot holds what the loco table holds of its loco, but for what   *)
(* the code lets part (`parted'), keeps that loco while a throttle uses it *)
(* or it waits to be taken over, and is what its throttle shows, for any   *)
(* number of slots, locos and throttles.                                   *)
(***************************************************************************)
EXTENDS LocoNet, LnFrames, SequenceTheorems, FiniteSetTheorems, TLAPS

Views == [phase : Phases, slot : Slots \cup {0}, addr : Addr \cup {NoAddr}, shows : Contents]

\* A slot is empty exactly when it has no loco.
EmptyIff(sl) == sl.stat = "FREE" <=> sl.addr = NoAddr

RouterSound ==
    /\ table \in [Addr -> Locos] /\ known \subseteq Addr /\ parted \subseteq Addr \X Parts
    /\ \A a \in Addr \ known : table[a] = Default

(* The slots and the loco table agree.  Two slots hold the same loco only  *)
(* where a throttle wrote it into one itself.                              *)
SlotsSound ==
    /\ slot \in [Slots -> SlotStates] /\ RouterSound
    /\ written \subseteq Addr /\ dispatch \in Slots \cup {0}
    /\ dispatch # 0 => ~Free(dispatch)
    /\ \A s \in Slots : EmptyIff(slot[s])
    /\ \A s, u \in Slots : ~Free(s) /\ slot[s].addr = slot[u].addr /\ s # u
                               => slot[s].addr \in written
    /\ SlotsAgree

\* A slot read names a slot and is as consistent as the slot it was read from.
FrameSound(f) == f \in Frames /\ (f.op = "SL_RD" => f.slot \in Slots /\ EmptyIff(f.state))
QueueSound ==
    /\ replies \in Seq(Frames) /\ Len(replies) <= MaxReplies
    /\ \A i \in 1 .. Len(replies) : FrameSound(replies[i])

\* A throttle that was answered knows a slot, and one that asks a loco.
Knows(me) ==
    /\ me \in Views
    /\ me.phase \in {"found", "take"} \cup Holding => me.slot \in Slots /\ me.addr \in Addr
    /\ me.phase = "find" => me.addr \in Addr
ThrottlesSound ==
    /\ throttle \in [Throttles -> Views]
    /\ \A t \in Throttles : Knows(throttle[t])

RestSound ==
    /\ older \in [Slots -> SUBSET Slots] /\ expired \subseteq Slots
    /\ resync \in BOOLEAN /\ held \in BOOLEAN /\ attempts \in 0 .. MaxAttempts - 1
    /\ missed \subseteq Throttles /\ ops \in 0 .. MaxOps /\ faults \in 0 .. MaxFaults

IInv == SlotsSound /\ QueueSound /\ ThrottlesSound /\ RestSound

LEMMA IInvSuffices == IInv => TypeOK /\ SlotsAgree
BY DEF IInv, SlotsSound, RouterSound, QueueSound, ThrottlesSound, RestSound, TypeOK, Views

-----------------------------------------------------------------------------
\* The two speed scales: what leaves the bridge comes back as it was.
LEMMA SpeedScales ==
    /\ \A n \in Speeds : FromBridge(n) \in BusSpeeds /\ ToBridge(FromBridge(n)) = n
    /\ \A x \in BusSpeeds : ToBridge(x) \in Speeds /\ ToBridge(FromBridge(ToBridge(x))) = ToBridge(x)
    /\ ToBridge(EStop) = 0
<1>1. \A n \in Speeds : n \in 0 .. 126 /\ ToBridge(FromBridge(n)) = n
  BY LocoNetAssumption DEF FromBridge, ToBridge, Stopped
<1>2. ToBridge(EStop) = 0 /\ 0 \in Speeds
  BY LocoNetAssumption DEF ToBridge, EStop
<1>3. \A x \in BusSpeeds : ToBridge(x) \in Speeds
  BY <1>1, <1>2 DEF BusSpeeds
<1>. QED BY <1>1, <1>2, <1>3 DEF BusSpeeds

\* What a slot takes from the table is what the table says, if it has the loco.
LEMMA TableRead ==
    ASSUME SlotsSound, NEW a \in Addr
    PROVE  /\ FromTable(a) \in Contents
           /\ \A sl \in SlotStates : sl.addr = a =>
                 /\ Refreshed(sl) \in SlotStates
                 /\ Refreshed(sl).addr = a /\ Refreshed(sl).stat = sl.stat
                 /\ Refreshed(sl).val = IF a \in known THEN FromTable(a) ELSE sl.val
<1>1. FromTable(a) \in Contents
  BY SpeedScales DEF SlotsSound, RouterSound, FromTable, Contents, Locos
<1>. QED BY <1>1 DEF Refreshed, SlotStates

LEMMA EmptySlot == NoSlot \in SlotStates /\ EmptyIff(NoSlot) /\ Reset \in Contents
BY LocoNetAssumption DEF NoSlot, SlotStates, EmptyIff, Reset, Contents, BusSpeeds, EStop, Stopped, FromBridge

LEMMA NoSlotZero == 0 \notin Slots
<1>1. \A n \in Nat : 0 \notin 1 .. n
  OBVIOUS
<1>2. Cardinality(Slots) \in Nat /\ Slots = 1 .. Cardinality(Slots)
  BY LocoNetAssumption, FS_CardinalityType
<1>. QED BY <1>1, <1>2, Zenon

\* queueReply() keeps the queue within its bound and sound.
LEMMA QueueKept ==
    ASSUME QueueSound, NEW f, FrameSound(f), Reply(f)
    PROVE  QueueSound'
<1> DEFINE k == IF Len(replies) = MaxReplies THEN 1 ELSE 0
           short == IF Len(replies) = MaxReplies THEN Tail(replies) ELSE replies
<1>1. MaxReplies \in Nat /\ MaxReplies >= 1
  BY LocoNetAssumption
<1>2. /\ short \in Seq(Frames) /\ Len(short) = Len(replies) - k /\ Len(short) + 1 <= MaxReplies
      /\ \A i \in 1 .. Len(short) : i + k \in 1 .. Len(replies) /\ short[i] = replies[i + k]
  BY <1>1 DEF QueueSound
<1>3. replies' = Append(short, f)
  BY DEF Reply, Queued
<1> HIDE DEF short
<1>4. f \in Frames
  BY DEF FrameSound
<1>5. /\ replies' \in Seq(Frames) /\ Len(replies') = Len(short) + 1
      /\ \A i \in 1 .. Len(short) : replies'[i] = short[i]
      /\ replies'[Len(short) + 1] = f
  BY <1>2, <1>3, <1>4, AppendProperties
<1>6. ASSUME NEW i \in 1 .. Len(replies') PROVE FrameSound(replies'[i])
  <2>1. CASE i \in 1 .. Len(short)
    <3>1. replies'[i] = replies[i + k] /\ i + k \in 1 .. Len(replies)
      BY <1>2, <1>5, <2>1
    <3>. QED BY <3>1 DEF QueueSound
  <2>2. CASE i = Len(short) + 1
    BY <1>5, <2>2
  <2>3. Len(short) \in Nat
    BY <1>2
  <2>. QED BY <1>5, <2>1, <2>2, <2>3
<1>7. Len(replies') <= MaxReplies
  BY <1>2, <1>5
<1>. QED BY <1>5, <1>6, <1>7 DEF QueueSound

\* The two kinds of frame that are queued.
LEMMA FramesBuilt ==
    /\ \A s \in Slots, sl \in SlotStates : EmptyIff(sl) => FrameSound(SlotRead(s, sl))
    /\ \A op \in {"LONG_ACK", "NO_SLOT", "NO_MOVE", "REPORT"} : FrameSound(Plain(op))
BY EmptySlot DEF FrameSound, SlotRead, Plain, Frames

\* The order of use stays one over the slots.
LEMMA UseKept ==
    ASSUME older \in [Slots -> SUBSET Slots], NEW S \in SUBSET Slots, Use(S)
    PROVE  older' \in [Slots -> SUBSET Slots]
BY DEF Use

-----------------------------------------------------------------------------
\* A step that concerns one loco leaves what the router has of others alone.
OthersKept(a) ==
    /\ RouterSound'
    /\ \A b \in Addr \ {a} :
          /\ table'[b] = table[b]
          /\ \A part \in Parts : <<b, part>> \in parted => <<b, part>> \in parted'

(* A slot is filled, refreshed or put in another state, and what the router*)
(* has of its loco may change: the slot has to be the only one of the loco,*)
(* and to hold what the table then says, unless the two have parted.       *)
LEMMA SlotFilled ==
    ASSUME SlotsSound, NEW s \in Slots, NEW sl \in SlotStates,
           sl.stat # "FREE", sl.addr \in Addr,
           slot' = [slot EXCEPT ![s] = sl], OthersKept(sl.addr),
           written \subseteq written', written' \subseteq Addr, dispatch' \in {0, s, dispatch},
           sl.addr \notin written' => Joined(sl.val, sl.addr)',
           sl.addr = slot[s].addr \/ SlotsOf(sl.addr) = {} \/ sl.addr \in written'
    PROVE  SlotsSound'
<1>1. slot' \in [Slots -> SlotStates] /\ slot'[s] = sl /\ \A u \in Slots \ {s} : slot'[u] = slot[u]
  BY DEF SlotsSound
<1>2. dispatch' \in Slots \cup {0} /\ (dispatch' # 0 => ~Free(dispatch)')
  BY <1>1 DEF SlotsSound, Free
<1>3. sl.addr # NoAddr
  BY LocoNetAssumption
<1>4. \A u \in Slots : EmptyIff(slot[u])'
  BY <1>1, <1>3 DEF SlotsSound, EmptyIff
<1>5. ASSUME NEW u \in Slots, NEW v \in Slots, ~Free(u)', slot'[u].addr = slot'[v].addr, u # v
      PROVE  slot'[u].addr \in written'
  <2>1. CASE u # s /\ v # s
    BY <1>1, <1>5, <2>1 DEF SlotsSound, Free
  <2>2. ASSUME NEW w \in Slots, w # s, slot[w].addr = sl.addr PROVE sl.addr \in written'
    <3>1. ~Free(w) /\ SlotsOf(sl.addr) # {}
      BY <1>3, <2>2 DEF SlotsSound, EmptyIff, Free, SlotsOf
    <3>2. CASE sl.addr = slot[s].addr
      BY <2>2, <3>1, <3>2 DEF SlotsSound
    <3>. QED BY <3>1, <3>2
  <2>. QED BY <1>1, <1>5, <2>1, <2>2
<1>6. ASSUME NEW u \in Slots, ~Free(u)', slot'[u].addr \notin written'
      PROVE  Joined(slot[u].val, slot[u].addr)'
  <2>1. CASE u = s
    BY <1>1, <1>6, <2>1 DEF Joined, FromTable
  <2>2. CASE u # s /\ slot[u].addr = sl.addr
    BY <1>1, <1>5, <1>6, <2>2
  <2>3. CASE u # s /\ slot[u].addr # sl.addr
    <3>1. slot'[u] = slot[u] /\ slot[u].addr \in Addr \ {sl.addr} /\ ~Free(u)
      BY <1>1, <1>6, <2>3 DEF SlotsSound, Free, EmptyIff, SlotStates
    <3>2. Joined(slot[u].val, slot[u].addr)
      BY <1>6, <3>1 DEF SlotsSound, SlotsAgree
    <3>. QED BY <3>1, <3>2 DEF Joined, FromTable, OthersKept, Parts
  <2>. QED BY <2>1, <2>2, <2>3
<1>. QED BY <1>1, <1>2, <1>4, <1>5, <1>6 DEF SlotsSound, SlotsAgree, OthersKept

\* A throttle's slot and the table change alike, or the table refuses.
LEMMA SlotRouted ==
    ASSUME SlotsSound, NEW s \in Slots, ~Free(s), NEW sl \in SlotStates,
           sl.stat # "FREE", sl.addr = slot[s].addr, slot' = [slot EXCEPT ![s] = sl],
           Route(s, slot[s].val, sl.val), written' = written, dispatch' = dispatch
    PROVE  SlotsSound'
<1> DEFINE a == sl.addr
           old == slot[s].val
           new == sl.val
           parts == Differing(old, new)
<1>1. a \in Addr /\ old \in Contents /\ new \in Contents
  BY DEF SlotsSound, EmptyIff, Free, SlotStates
<1>2. /\ parts \subseteq Parts
      /\ "drive" \in parts <=> (new.speed # old.speed \/ new.dir # old.dir)
      /\ "fns" \in parts <=> new.fns # old.fns
  BY DEF Differing, Parts
<1> HIDE DEF parts
<1>3. a \notin written => Joined(old, a)
  BY DEF SlotsSound, SlotsAgree
<1>4. OthersKept(a) /\ (a \notin written => Joined(new, a)')
  <2>1. CASE Takes(a)
    <3>1. /\ table' = [table EXCEPT ![a] = Merged(@, parts, new)]
          /\ known' = IF parts = {} THEN known ELSE known \cup {a}
          /\ parted' = parted \ ({a} \X parts)
      BY <2>1 DEF Route, parts
    <3>2. ToBridge(new.speed) \in Speeds /\ new.dir \in Dirs /\ new.fns \in SUBSET Fns
      BY <1>1, SpeedScales DEF Contents
    <3>3. /\ table' \in [Addr -> Locos] /\ \A b \in Addr \ {a} : table'[b] = table[b]
          /\ table'[a].speed = IF "drive" \in parts THEN ToBridge(new.speed) ELSE table[a].speed
          /\ table'[a].dir = IF "drive" \in parts THEN new.dir ELSE table[a].dir
          /\ table'[a].fns = IF "fns" \in parts THEN new.fns ELSE table[a].fns
      <4>1. table \in [Addr -> Locos]
        BY DEF SlotsSound, RouterSound
      <4>2. table[a] \in Locos
        BY <1>1, <4>1
      <4>3. /\ Merged(table[a], parts, new) \in Locos
            /\ Merged(table[a], parts, new).speed
                  = IF "drive" \in parts THEN ToBridge(new.speed) ELSE table[a].speed
            /\ Merged(table[a], parts, new).dir
                  = IF "drive" \in parts THEN new.dir ELSE table[a].dir
            /\ Merged(table[a], parts, new).fns
                  = IF "fns" \in parts THEN new.fns ELSE table[a].fns
        <5> HIDE DEF a, new
        <5>. QED BY <3>2, <4>2 DEF Merged, Locos
      <4> HIDE DEF a, old, new
      <4>. QED BY <1>1, <3>1, <4>1, <4>3
    <3>4. OthersKept(a)
      <4>1. known' \subseteq Addr /\ known \subseteq known' /\ parted' \subseteq Addr \X Parts
            /\ \A b \in Addr \ {a}, part \in Parts : <<b, part>> \in parted => <<b, part>> \in parted'
        BY <1>1, <3>1 DEF SlotsSound, RouterSound
      <4>2. CASE a \in known'
        BY <3>3, <4>1, <4>2 DEF OthersKept, RouterSound, SlotsSound
      <4>3. CASE a \notin known'
        <5>1. parts = {}
          BY <3>1, <4>3
        <5>2. table'[a].speed = table[a].speed /\ table'[a].dir = table[a].dir
              /\ table'[a].fns = table[a].fns
          BY <3>3, <5>1
        <5>3. table[a] \in Locos /\ table'[a] \in Locos
          BY <1>1, <3>3 DEF SlotsSound, RouterSound
        <5>4. table'[a] = table[a]
          BY <5>2, <5>3 DEF Locos
        <5>. QED BY <3>3, <4>1, <5>4 DEF OthersKept, RouterSound, SlotsSound
      <4>. QED BY <4>2, <4>3
    <3>5. /\ FromTable(a).speed = FromBridge(table[a].speed)
          /\ FromTable(a).dir = table[a].dir /\ FromTable(a).fns = table[a].fns
          /\ FromTable(a)'.speed = FromBridge(table'[a].speed)
          /\ FromTable(a)'.dir = table'[a].dir /\ FromTable(a)'.fns = table'[a].fns
      <4>1. table[a] \in Locos /\ table'[a] \in Locos
        BY <1>1, <3>3 DEF SlotsSound, RouterSound
      <4>. QED BY <4>1 DEF FromTable, Locos
    <3>6. CASE "drive" \in parts
      <4>1. SameDrive(new, FromTable(a)')
        <5>1. ToBridge(FromBridge(ToBridge(new.speed))) = ToBridge(new.speed)
          BY <1>1, SpeedScales DEF Contents
        <5>. QED BY <3>3, <3>5, <3>6, <5>1 DEF SameDrive
      <4>2. a \notin written => (<<a, "fns">> \notin parted' => SameFns(new, FromTable(a)'))
        <5>1. CASE "fns" \in parts
          BY <3>3, <3>5, <5>1 DEF SameFns
        <5>2. CASE "fns" \notin parts
          BY <1>2, <1>3, <3>1, <3>3, <3>5, <5>2 DEF SameFns, Joined
        <5>. QED BY <5>1, <5>2
      <4>. QED BY <3>4, <4>1, <4>2 DEF Joined
    <3>7. CASE "drive" \notin parts
      <4>1. new.speed = old.speed /\ new.dir = old.dir
        BY <1>2, <3>7
      <4>2. a \notin written => (<<a, "drive">> \notin parted' => SameDrive(new, FromTable(a)'))
        <5>1. <<a, "drive">> \notin parted' => <<a, "drive">> \notin parted
          BY <3>1, <3>7
        <5>2. FromTable(a)'.speed = FromTable(a).speed /\ FromTable(a)'.dir = FromTable(a).dir
          BY <3>3, <3>5, <3>7
        <5>3. a \notin written => (<<a, "drive">> \notin parted => SameDrive(old, FromTable(a)))
          BY <1>3 DEF Joined
        <5>. QED BY <4>1, <5>1, <5>2, <5>3 DEF SameDrive
      <4>3. a \notin written => (<<a, "fns">> \notin parted' => SameFns(new, FromTable(a)'))
        <5>1. CASE "fns" \in parts
          BY <3>3, <3>5, <5>1 DEF SameFns
        <5>2. CASE "fns" \notin parts
          BY <1>2, <1>3, <3>1, <3>3, <3>5, <5>2 DEF SameFns, Joined
        <5>. QED BY <5>1, <5>2
      <4>. QED BY <3>4, <4>2, <4>3 DEF Joined
    <3>. QED BY <3>6, <3>7
  <2>2. CASE ~Takes(a)
    <3>1. /\ table' = table /\ known' = known /\ parted' = parted \cup ({a} \X parts)
      BY <2>2 DEF Route, parts
    <3>2. OthersKept(a)
      <4>1. parted' \subseteq Addr \X Parts
        BY <1>1, <1>2, <3>1 DEF SlotsSound, RouterSound
      <4>. QED BY <3>1, <4>1 DEF OthersKept, RouterSound, SlotsSound
    <3>3. FromTable(a)' = FromTable(a)
      BY <3>1 DEF FromTable
    <3>4. ASSUME a \notin written, <<a, "drive">> \notin parted' PROVE SameDrive(new, FromTable(a)')
      <4>1. "drive" \notin parts /\ <<a, "drive">> \notin parted
        BY <3>1, <3>4
      <4>. QED BY <1>2, <1>3, <3>3, <3>4, <4>1 DEF Joined, SameDrive
    <3>5. ASSUME a \notin written, <<a, "fns">> \notin parted' PROVE SameFns(new, FromTable(a)')
      <4>1. "fns" \notin parts /\ <<a, "fns">> \notin parted
        BY <3>1, <3>5
      <4>. QED BY <1>2, <1>3, <3>3, <3>5, <4>1 DEF Joined, SameFns
    <3>. QED BY <3>2, <3>4, <3>5 DEF Joined
  <2>. QED BY <2>1, <2>2
<1>5. sl.addr = a /\ written \subseteq written' /\ written' \subseteq Addr
  BY DEF SlotsSound
<1> HIDE DEF a, new
<1>. QED BY <1>1, <1>4, <1>5, SlotFilled DEF a, new

\* Slots that change their state only.
LEMMA SlotsKept ==
    ASSUME SlotsSound, slot' \in [Slots -> SlotStates],
           \A s \in Slots : /\ slot'[s].addr = slot[s].addr /\ slot'[s].val = slot[s].val
                            /\ slot'[s].stat = "FREE" <=> slot[s].stat = "FREE",
           table' = table, known \subseteq known', known' \subseteq Addr, parted' = parted,
           written' = written,
           dispatch' = dispatch
    PROVE  SlotsSound'
<1>1. SlotsAgree'
  <2>1. \A s \in Slots : Joined(slot[s].val, slot[s].addr) => Joined(slot[s].val, slot[s].addr)'
    BY DEF Joined, FromTable
  <2>. QED BY <2>1 DEF SlotsSound, SlotsAgree, Free
<1>2. RouterSound'
  BY DEF SlotsSound, RouterSound
<1>. QED BY <1>1, <1>2 DEF SlotsSound, Free, EmptyIff

\* What the router has of a loco changes and no slot with it: it may only part.
LEMMA RowChanged ==
    ASSUME SlotsSound, NEW a \in Addr, OthersKept(a), UNCHANGED <<slot, written, dispatch>>,
           \A v : Joined(v, a) => Joined(v, a)'
    PROVE  SlotsSound'
<1>1. ASSUME NEW u \in Slots, ~Free(u), slot[u].addr \notin written
      PROVE  Joined(slot[u].val, slot[u].addr)'
  <2>1. slot[u].addr \in Addr /\ Joined(slot[u].val, slot[u].addr)
    BY <1>1 DEF SlotsSound, SlotsAgree, Free, EmptyIff, SlotStates
  <2>2. CASE slot[u].addr = a
    BY <2>1, <2>2 DEF Joined, FromTable, SameDrive, SameFns
  <2>3. CASE slot[u].addr # a
    BY <2>1, <2>3 DEF Joined, FromTable, OthersKept, Parts
  <2>. QED BY <2>2, <2>3
<1>. QED BY <1>1 DEF SlotsSound, SlotsAgree, Free, EmptyIff, OthersKept

\* A change of another protocol reaches the table and every slot of the loco.
LEMMA SlotsTold ==
    ASSUME SlotsSound, NEW a \in Addr, NEW parts \in SUBSET Parts, NEW now \in Locos,
           NEW after \in [Slots -> Contents], External(a, parts, now, after),
           \A s \in SlotsOf(a) : a \notin written => Joined(after[s], a)'
    PROVE  SlotsSound'
<1>1. OthersKept(a) /\ written' = written /\ dispatch' = dispatch
  <2>1. /\ table' = [table EXCEPT ![a] = now] /\ known' = known \cup {a}
        /\ parted' = parted \ ({a} \X parts) /\ written' = written /\ dispatch' = dispatch
    BY DEF External
  <2>. QED BY <2>1 DEF SlotsSound, RouterSound, OthersKept
<1>2. slot' = [s \in Slots |-> IF s \in SlotsOf(a) THEN [slot[s] EXCEPT !.val = after[s]] ELSE slot[s]]
  BY DEF External
<1>3. \A s \in Slots : /\ slot'[s] \in SlotStates
                       /\ slot'[s].addr = slot[s].addr /\ slot'[s].stat = slot[s].stat
                       /\ slot'[s].val = IF s \in SlotsOf(a) THEN after[s] ELSE slot[s].val
  BY <1>2 DEF SlotsSound, SlotStates
<1>4. slot' \in [Slots -> SlotStates]
  BY <1>2, <1>3
<1>5. ASSUME NEW u \in Slots, ~Free(u)', slot'[u].addr \notin written'
      PROVE  Joined(slot[u].val, slot[u].addr)'
  <2>1. CASE u \in SlotsOf(a)
    <3>1. slot'[u].addr = a /\ slot'[u].val = after[u] /\ a \notin written
      BY <1>1, <1>3, <1>5, <2>1 DEF SlotsOf
    <3>2. Joined(after[u], a)'
      BY <2>1, <3>1
    <3>. QED BY <3>1, <3>2 DEF Joined, FromTable
  <2>2. CASE u \notin SlotsOf(a)
    <3>1. slot[u].addr \in Addr \ {a} /\ slot[u].addr \notin written /\ ~Free(u)
      BY <1>1, <1>3, <1>5, <2>2 DEF SlotsSound, SlotsOf, Free, EmptyIff, SlotStates
    <3>2. Joined(slot[u].val, slot[u].addr)
      BY <3>1 DEF SlotsSound, SlotsAgree
    <3>3. slot'[u].addr = slot[u].addr /\ slot'[u].val = slot[u].val
      BY <1>3, <2>2
    <3>. QED BY <1>1, <3>1, <3>2, <3>3 DEF Joined, FromTable, OthersKept, Parts
  <2>. QED BY <2>1, <2>2
<1>6. /\ dispatch' # 0 => ~Free(dispatch)'
      /\ \A u \in Slots : EmptyIff(slot[u])'
      /\ \A u, v \in Slots : ~Free(u)' /\ slot'[u].addr = slot'[v].addr /\ u # v
             => slot'[u].addr \in written'
  BY <1>1, <1>3 DEF SlotsSound, Free, EmptyIff
<1>. QED BY <1>1, <1>4, <1>5, <1>6 DEF SlotsSound, SlotsAgree, OthersKept

LEMMA Tracked ==
    ASSUME SlotsSound, NEW a \in Addr, Track(a)
    PROVE  known \subseteq known' /\ known' \subseteq Addr
BY DEF SlotsSound, RouterSound, Track

-----------------------------------------------------------------------------
\* A throttle moves on by itself.
LEMMA ThrottleMoves ==
    ASSUME ThrottlesSound, NEW t \in Throttles, NEW me, Knows(me), Becomes(t, me)
    PROVE  ThrottlesSound'
BY DEF ThrottlesSound, Becomes, Knows

\* A slot read leaves a throttle with a slot and a loco to go with it.
LEMMA SeenKnows ==
    ASSUME ThrottlesSound, NEW t \in Throttles, NEW f, FrameSound(f), f.op = "SL_RD"
    PROVE  Knows(Seen(f, t))
<1> DEFINE me == throttle[t]  sl == f.state
<1>1. me \in Views /\ Knows(me)
  BY DEF ThrottlesSound
<1>2. /\ sl \in SlotStates /\ f.slot \in Slots /\ sl.val \in Contents
      /\ sl.stat # "FREE" => sl.addr \in Addr
  BY DEF FrameSound, EmptyIff, Frames, SlotStates
<1>3. Knows([me EXCEPT !.phase = "found", !.slot = f.slot]) \/ me.phase # "find"
  BY <1>1, <1>2 DEF Knows, Views, Phases, Holding
<1>4. sl.stat = "IN_USE" => Knows([phase |-> "write", slot |-> f.slot, addr |-> sl.addr, shows |-> sl.val])
  BY <1>1, <1>2 DEF Knows, Views, Phases, Holding
<1>5. Knows([me EXCEPT !.phase = "idle"])
  BY <1>1 DEF Knows, Views, Phases, Holding
<1>6. Knows([me EXCEPT !.phase = "write", !.shows = sl.val]) \/ me.phase # "take"
  BY <1>1, <1>2 DEF Knows, Views, Phases, Holding
<1>7. \/ Knows([me EXCEPT !.shows = sl.val, !.phase = IF @ = "reread" THEN "driving" ELSE @])
      \/ me.phase \notin Holding
  BY <1>1, <1>2 DEF Knows, Views, Phases, Holding
<1>. QED BY <1>1, <1>3, <1>4, <1>5, <1>6, <1>7 DEF Seen

LEMMA DeliveredKept ==
    ASSUME ThrottlesSound, NEW f, FrameSound(f), throttle' = Delivered(f)
    PROVE  ThrottlesSound'
<1>1. ASSUME NEW t \in Throttles PROVE Knows(Delivered(f)[t])
  <2>1. Knows([throttle[t] EXCEPT !.phase = "idle"]) /\ Knows(throttle[t])
    BY DEF ThrottlesSound, Knows, Views, Phases, Holding
  <2>. QED BY <2>1, SeenKnows DEF Delivered
<1>2. throttle' \in [Throttles -> Views]
  <2>1. \A t \in Throttles : Delivered(f)[t] \in Views
    BY <1>1 DEF Knows
  <2>2. Delivered(f) = [t \in Throttles |-> Delivered(f)[t]]
    BY DEF Delivered
  <2>. QED BY <2>1, <2>2
<1>. QED BY <1>1, <1>2 DEF ThrottlesSound

-----------------------------------------------------------------------------
(* What a throttle's request may do to slots that are held: they keep      *)
(* their loco, or a throttle wrote another over it, or they are emptied.   *)
Keeps == \A s \in Slots : InUse(s) \/ dispatch = s
             => \/ slot'[s].addr = slot[s].addr
                \/ slot'[s].stat = "FREE"
                \/ slot[s].addr \in written'

\* The slot a request for a loco is given has it already, or nobody holds it.
LEMMA SlotChosen ==
    ASSUME SlotsSound, NEW a \in Addr, NEW s \in SlotFor(a)
    PROVE  /\ s \in Slots
           /\ \/ slot[s].addr = a
              \/ SlotsOf(a) = {} /\ ~InUse(s) /\ dispatch # s
<1>1. CASE SlotsOf(a) # {}
  BY <1>1 DEF SlotFor, Lowest, SlotsOf
<1>2. CASE SlotsOf(a) = {} /\ {u \in Slots : Free(u)} # {}
  <2>1. s \in Slots /\ Free(s)
    BY <1>2 DEF SlotFor, Lowest
  <2>2. ~InUse(s) /\ (dispatch # s \/ dispatch = 0)
    BY <2>1 DEF SlotsSound, Free, InUse
  <2>. QED BY <1>2, <2>1, <2>2, NoSlotZero
<1>3. CASE SlotsOf(a) = {} /\ {u \in Slots : Free(u)} = {}
  BY <1>3 DEF SlotFor, Oldest, Claimable
<1>. QED BY <1>1, <1>2, <1>3

LEMMA LoadedSlot ==
    ASSUME SlotsSound, NEW a \in Addr, NEW s \in Slots
    PROVE  /\ Loaded(s, a) \in SlotStates
           /\ Loaded(s, a).addr = a /\ Loaded(s, a).stat = "COMMON"
           /\ Loaded(s, a).val = IF a \in known THEN FromTable(a)
                                 ELSE IF s \in SlotsOf(a) THEN slot[s].val ELSE Reset
<1> DEFINE val == IF s \in SlotsOf(a) THEN slot[s].val ELSE Reset
           base == [addr |-> a, stat |-> "COMMON", val |-> val]
<1>1. val \in Contents
  BY EmptySlot DEF SlotsSound, SlotStates
<1> HIDE DEF val
<1>2. base \in SlotStates /\ base.addr = a /\ base.stat = "COMMON" /\ base.val = val
  BY <1>1 DEF SlotStates
<1>3. Loaded(s, a) = Refreshed(base)
  BY DEF Loaded, val
<1> HIDE DEF base
<1>. QED BY <1>2, <1>3, TableRead DEF val

LEMMA LocoAdrKept ==
    ASSUME IInv, NEW a \in Addr, LocoAdr(a), UNCHANGED <<dispatch, table, known, written>>
    PROVE  /\ SlotsSound' /\ QueueSound' /\ Keeps
           /\ older' \in [Slots -> SUBSET Slots] /\ expired' \subseteq Slots
           /\ missed' \subseteq Throttles
<1>. USE DEF IInv
<1>1. CASE Reply(Plain("NO_SLOT")) /\ UNCHANGED <<slot, older, expired, parted, missed>>
  <2>1. SlotsSound'
    BY <1>1, SlotsKept DEF SlotsSound, RouterSound
  <2>2. QueueSound'
    BY <1>1, QueueKept, FramesBuilt
  <2>. QED BY <1>1, <2>1, <2>2 DEF RestSound, Keeps
<1>2. ASSUME NEW s \in SlotFor(a), slot' = [slot EXCEPT ![s] = Loaded(s, a)],
             Use({s}), Heard(s), Reply(SlotRead(s, Loaded(s, a))),
             IF s \in SlotsOf(a)
             THEN Rejoin(a) /\ Silently(s, Loaded(s, a))
             ELSE parted' = parted \ ({a} \X Parts) /\ missed' = missed \cup On(s)
      PROVE  /\ SlotsSound' /\ QueueSound' /\ Keeps
             /\ older' \in [Slots -> SUBSET Slots] /\ expired' \subseteq Slots
             /\ missed' \subseteq Throttles
  <2>1. /\ s \in Slots
        /\ \/ slot[s].addr = a
           \/ SlotsOf(a) = {} /\ ~InUse(s) /\ dispatch # s
    BY SlotChosen
  <2> SUFFICES ASSUME NEW loaded, loaded = Loaded(s, a)
               PROVE  /\ SlotsSound' /\ QueueSound' /\ Keeps
                      /\ older' \in [Slots -> SUBSET Slots] /\ expired' \subseteq Slots
                      /\ missed' \subseteq Throttles
    OBVIOUS
  <2>2. /\ loaded \in SlotStates /\ loaded.addr = a /\ loaded.stat = "COMMON"
        /\ loaded.val = IF a \in known THEN FromTable(a)
                        ELSE IF s \in SlotsOf(a) THEN slot[s].val ELSE Reset
    BY <2>1, LoadedSlot
  <2>3. SlotsSound'
    <3>1. /\ parted' = parted \ ({a} \X Parts)
          \/ (parted' = parted /\ s \in SlotsOf(a) /\ a \notin known)
      BY <1>2 DEF Rejoin
    <3>2. OthersKept(a)
      BY <3>1 DEF OthersKept, RouterSound, SlotsSound
    <3>3. a \notin written => Joined(loaded.val, a)'
      <4>1. FromTable(a)' = FromTable(a)
        BY DEF FromTable
      <4>2. CASE a \in known
        BY <2>2, <4>1, <4>2 DEF Joined, SameDrive, SameFns
      <4>3. CASE a \notin known /\ s \in SlotsOf(a)
        <5>1. parted' = parted
          BY <1>2, <4>3 DEF Rejoin
        <5>2. a \notin written => Joined(slot[s].val, a)
          BY <4>3 DEF SlotsSound, SlotsAgree, SlotsOf
        <5>. QED BY <2>2, <4>1, <4>3, <5>1, <5>2 DEF Joined
      <4>4. CASE a \notin known /\ s \notin SlotsOf(a)
        <5>1. SameOnDisplay(Reset, FromTable(a))
          <6>1. table[a] = Default
            BY <4>4 DEF SlotsSound, RouterSound
          <6>. QED BY <6>1 DEF FromTable, Default, Reset, SameOnDisplay, SameDrive, SameFns,
                               FromBridge, ToBridge, Stopped
        <5>. QED BY <2>2, <4>1, <4>4, <5>1 DEF Joined, SameOnDisplay
      <4>. QED BY <4>2, <4>3, <4>4
    <3>4. written' \subseteq Addr
      BY DEF SlotsSound
    <3>. QED BY <1>2, <2>1, <2>2, <3>2, <3>3, <3>4, SlotFilled
  <2>4. QueueSound'
    <3>1. EmptyIff(loaded)
      BY <2>2, LocoNetAssumption DEF EmptyIff
    <3>. QED BY <1>2, <2>1, <2>2, <3>1, QueueKept, FramesBuilt
  <2>5. Keeps
    BY <1>2, <2>1, <2>2 DEF Keeps, SlotsSound
  <2>6. older' \in [Slots -> SUBSET Slots] /\ expired' \subseteq Slots
    BY <1>2, <2>1, UseKept DEF RestSound, Heard
  <2>7. missed' \subseteq Throttles
    BY <1>2 DEF RestSound, On, Silently
  <2>. QED BY <2>3, <2>4, <2>5, <2>6, <2>7
<1>. QED BY <1>1, <1>2 DEF LocoAdr

(* Any other frame that fills, refreshes or frees the slot of its loco.    *)
LEMMA SlotAnswered ==
    ASSUME IInv, NEW s \in Slots, ~Free(s), NEW st \in {"COMMON", "IN_USE"},
           NEW sl \in SlotStates,
           \/ sl = [slot[s] EXCEPT !.stat = st] /\ parted' = parted
           \/ sl = Refreshed([slot[s] EXCEPT !.stat = st]) /\ Rejoin(slot[s].addr),
           slot' = [slot EXCEPT ![s] = sl], dispatch' \in {0, s, dispatch},
           known \subseteq known', known' \subseteq Addr, UNCHANGED <<table, written>>
    PROVE  /\ SlotsSound' /\ Keeps /\ EmptyIff(sl)
<1>. USE DEF IInv
<1>1. slot[s].addr \in Addr /\ slot[s] \in SlotStates
  BY DEF SlotsSound, Free, EmptyIff, SlotStates
<1>2. [slot[s] EXCEPT !.stat = st] \in SlotStates
  BY <1>1 DEF SlotStates
<1>3. /\ sl.addr = slot[s].addr /\ sl.stat = st
      /\ \/ sl.val = slot[s].val /\ parted' = parted
         \/ sl.val = FromTable(slot[s].addr) /\ parted' = parted \ ({slot[s].addr} \X Parts)
  BY <1>1, <1>2, TableRead DEF SlotStates, Rejoin
<1>4. sl.addr \notin written' => Joined(sl.val, sl.addr)'
  <2>1. sl.addr \notin written => Joined(slot[s].val, sl.addr)
    BY <1>3 DEF SlotsSound, SlotsAgree
  <2>2. FromTable(sl.addr)' = FromTable(sl.addr)
    BY DEF FromTable
  <2>3. CASE sl.val = slot[s].val /\ parted' = parted
    BY <2>1, <2>2, <2>3 DEF Joined
  <2>4. CASE sl.val = FromTable(sl.addr)
    BY <2>2, <2>4 DEF Joined, SameDrive, SameFns
  <2>. QED BY <1>3, <2>3, <2>4
<1>5. written' \subseteq Addr /\ written \subseteq written'
  BY DEF SlotsSound
<1>6. SlotsSound'
  <2>1. OthersKept(sl.addr)
    BY <1>3 DEF OthersKept, RouterSound, SlotsSound
  <2>. QED BY <1>1, <1>3, <1>4, <1>5, <2>1, SlotFilled
<1>7. Keeps
  BY <1>3 DEF Keeps, SlotsSound
<1>. QED BY <1>1, <1>3, <1>6, <1>7, LocoNetAssumption DEF EmptyIff

\* A slot that is taken.
LEMMA SelectedSlot ==
    ASSUME SlotsSound, NEW s \in Slots, ~Free(s)
    PROVE  LET taken == Refreshed([slot[s] EXCEPT !.stat = "IN_USE"])
           IN  /\ slot[s].addr \in Addr /\ taken \in SlotStates
               /\ taken.addr = slot[s].addr /\ taken.stat = "IN_USE" /\ EmptyIff(taken)
<1> DEFINE base == [slot[s] EXCEPT !.stat = "IN_USE"]
<1>1. /\ base \in SlotStates /\ base.addr = slot[s].addr /\ base.stat = "IN_USE"
      /\ slot[s].addr \in Addr
  BY DEF SlotsSound, SlotStates, Free, EmptyIff
<1> HIDE DEF base
<1>2. /\ Refreshed(base) \in SlotStates /\ Refreshed(base).addr = slot[s].addr
      /\ Refreshed(base).stat = "IN_USE"
  BY <1>1, TableRead
<1>. QED BY <1>1, <1>2, LocoNetAssumption DEF base, EmptyIff

LEMMA SelectedKept ==
    ASSUME IInv, NEW s \in Slots, ~Free(s), Selected(s), dispatch' \in {0, s, dispatch},
           UNCHANGED <<table, written>>
    PROVE  /\ SlotsSound' /\ QueueSound' /\ Keeps
           /\ older' \in [Slots -> SUBSET Slots] /\ expired' \subseteq Slots
           /\ missed' \subseteq Throttles
<1> DEFINE taken == Refreshed([slot[s] EXCEPT !.stat = "IN_USE"])
<1>. USE DEF IInv
<1>1. /\ slot' = [slot EXCEPT ![s] = taken] /\ Use({s}) /\ Heard(s)
      /\ Reply(SlotRead(s, taken))
      /\ Rejoin(slot[s].addr) /\ Silently(s, taken) /\ Track(slot[s].addr)
  BY DEF Selected
<1>2. slot[s].addr \in Addr /\ taken \in SlotStates
  BY SelectedSlot
<1>3. known \subseteq known' /\ known' \subseteq Addr
  BY <1>1, <1>2, Tracked
<1>4. SlotsSound' /\ Keeps /\ EmptyIff(taken)
  BY <1>1, <1>2, <1>3, SlotAnswered
<1> HIDE DEF taken
<1>5. QueueSound'
  BY <1>1, <1>2, <1>4, QueueKept, FramesBuilt
<1>6. older' \in [Slots -> SUBSET Slots] /\ expired' \subseteq Slots
  BY <1>1, UseKept DEF RestSound, Heard
<1>7. missed' \subseteq Throttles
  BY <1>1 DEF Silently, On, RestSound
<1>. QED BY <1>4, <1>5, <1>6, <1>7

LEMMA NullMoveKept ==
    ASSUME IInv, NEW s \in Slots, NullMove(s), UNCHANGED <<table, written>>
    PROVE  /\ SlotsSound' /\ QueueSound' /\ Keeps
           /\ older' \in [Slots -> SUBSET Slots] /\ expired' \subseteq Slots
           /\ missed' \subseteq Throttles
<1>. USE DEF IInv
<1>0. slot[s] \in SlotStates /\ EmptyIff(slot[s])
  BY DEF SlotsSound
<1>1. CASE Free(s)
  <2>1. /\ Reply(SlotRead(s, slot[s]))
        /\ UNCHANGED <<slot, older, dispatch, expired, known, parted, missed>>
    BY <1>1 DEF NullMove
  <2>2. SlotsSound'
    BY <2>1, SlotsKept DEF SlotsSound, RouterSound
  <2>3. QueueSound'
    BY <1>0, <2>1, QueueKept, FramesBuilt
  <2>. QED BY <2>1, <2>2, <2>3 DEF RestSound, Keeps
<1>2. CASE ~Free(s)
  BY <1>2, SelectedKept DEF NullMove
<1>. QED BY <1>1, <1>2

-----------------------------------------------------------------------------
LEMMA Untouched ==
    ASSUME SlotsSound, UNCHANGED <<slot, dispatch, table, known, parted, written>>
    PROVE  SlotsSound' /\ Keeps
BY SlotsKept DEF SlotsSound, RouterSound, Keeps

LEMMA Released ==
    ASSUME QueueSound, replies # <<>>
    PROVE  /\ FrameSound(Head(replies))
           /\ replies' = Tail(replies) => QueueSound'
<1>1. /\ 1 \in 1 .. Len(replies) /\ Head(replies) = replies[1]
      /\ Tail(replies) \in Seq(Frames) /\ Len(Tail(replies)) = Len(replies) - 1
      /\ \A i \in 1 .. Len(Tail(replies)) : /\ Tail(replies)[i] = replies[i + 1]
                                            /\ i + 1 \in 1 .. Len(replies)
  BY DEF QueueSound
<1>2. MaxReplies \in Nat
  BY LocoNetAssumption
<1>. QED BY <1>1, <1>2 DEF QueueSound

LEMMA Counted == ASSUME RestSound, Operate PROVE ops' \in 0 .. MaxOps
BY LocoNetAssumption DEF RestSound, Operate

LEMMA Idles ==
    ASSUME ThrottlesSound, NEW t \in Throttles
    PROVE  /\ Knows([throttle[t] EXCEPT !.phase = "idle"])
           /\ Knows([throttle[t] EXCEPT !.phase = "get"])
           /\ Knows(throttle[t]) /\ throttle[t] \in Views
           /\ throttle[t].shows \in Contents
           /\ ExpectedBy(t, {"find"}) => throttle[t].addr \in Addr
           /\ ExpectedBy(t, {"found", "take"} \cup Holding)
                 => throttle[t].slot \in Slots /\ throttle[t].addr \in Addr
BY DEF ThrottlesSound, Knows, Views, Phases, Holding, ExpectedBy

-----------------------------------------------------------------------------
LEMMA Initially == Init => IInv
<1> SUFFICES ASSUME Init PROVE IInv
  OBVIOUS
<1>1. SlotsSound
  <2>1. RouterSound
    BY LocoNetAssumption DEF Init, Locos, RouterSound, Default
  <2>2. slot \in [Slots -> SlotStates] /\ \A s \in Slots : slot[s] = NoSlot /\ Free(s)
    BY EmptySlot DEF Init, NoSlot, Free
  <2>. QED BY <2>1, <2>2, EmptySlot DEF Init, SlotsSound, SlotsAgree
<1>2. QueueSound
  BY LocoNetAssumption DEF Init, QueueSound
<1>3. ThrottlesSound
  BY EmptySlot DEF Init, ThrottlesSound, Knows, Views, Phases, Holding
<1>4. RestSound
  <2>1. older \in [Slots -> SUBSET Slots]
    BY DEF Init
  <2>2. MaxAttempts \in Nat \ {0} /\ MaxOps \in Nat /\ MaxFaults \in Nat
    BY LocoNetAssumption
  <2>3. 0 \in 0 .. MaxAttempts - 1 /\ 0 \in 0 .. MaxOps /\ 0 \in 0 .. MaxFaults
    BY <2>2
  <2>4. resync \in BOOLEAN /\ held \in BOOLEAN
    BY DEF Init
  <2>. QED BY <2>1, <2>3, <2>4 DEF Init, RestSound
<1>. QED BY <1>1, <1>2, <1>3, <1>4 DEF IInv

LEMMA FindStep ==
    ASSUME IInv, NEW t \in Throttles, NEW a \in Addr, Find(t, a) \/ Probe(t, a)
    PROVE  IInv' /\ Keeps
<1>. USE DEF IInv
<1>1. /\ Operate /\ LocoAdr(a)
      /\ UNCHANGED <<dispatch, resync, attempts, held, table, known, written, faults>>
  BY DEF Find, Probe
<1>2. /\ SlotsSound' /\ QueueSound' /\ Keeps
      /\ older' \in [Slots -> SUBSET Slots] /\ expired' \subseteq Slots
      /\ missed' \subseteq Throttles
  BY <1>1, LocoAdrKept
<1>3. ThrottlesSound'
  <2>1. Knows([throttle[t] EXCEPT !.phase = "find", !.addr = a])
    BY Idles DEF Knows, Views, Phases, Holding
  <2>2. CASE Find(t, a)
    BY <2>1, <2>2, ThrottleMoves DEF Find
  <2>3. CASE Probe(t, a)
    BY <2>3 DEF Probe, ThrottlesSound
  <2>. QED BY <2>2, <2>3
<1>4. RestSound'
  BY <1>1, <1>2, Counted DEF RestSound
<1>. QED BY <1>2, <1>3, <1>4

LEMMA TakeStep == ASSUME IInv, NEW t \in Throttles, Take(t) PROVE IInv' /\ Keeps
<1>. USE DEF IInv
<1>1. throttle[t].slot \in Slots /\ throttle[t].addr \in Addr
  BY Idles DEF Take, ExpectedBy
<1>2. /\ SlotsSound' /\ QueueSound' /\ Keeps
      /\ older' \in [Slots -> SUBSET Slots] /\ expired' \subseteq Slots
      /\ missed' \subseteq Throttles
  BY <1>1, NullMoveKept DEF Take
<1>3. ThrottlesSound'
  <2>1. Knows([throttle[t] EXCEPT !.phase = "take"])
    BY <1>1, Idles DEF Knows, Views, Phases, Holding
  <2>. QED BY <2>1, ThrottleMoves DEF Take
<1>4. RestSound'
  BY <1>2 DEF Take, RestSound
<1>. QED BY <1>2, <1>3, <1>4

LEMMA DispatchPutStep == ASSUME IInv, NEW t \in Throttles, DispatchPut(t) PROVE IInv' /\ Keeps
<1> DEFINE s == throttle[t].slot
           left == [slot[s] EXCEPT !.stat = "COMMON"]
<1>. USE DEF IInv
<1>1. s \in Slots
  BY Idles DEF DispatchPut, ExpectedBy, Holding
<1>2. ThrottlesSound'
  BY Idles, ThrottleMoves DEF DispatchPut
<1>3. CASE Free(s)
  <2>1. /\ Reply(Plain("NO_MOVE"))
        /\ UNCHANGED <<slot, older, dispatch, expired, table, known, parted, written>>
    BY <1>3 DEF DispatchPut
  <2>2. SlotsSound' /\ Keeps
    BY <2>1, Untouched
  <2>3. QueueSound'
    BY <2>1, QueueKept, FramesBuilt
  <2>4. RestSound'
    BY <2>1, Counted DEF DispatchPut, RestSound
  <2>. QED BY <1>2, <2>2, <2>3, <2>4
<1>4. CASE ~Free(s)
  <2>1. /\ slot' = [slot EXCEPT ![s] = left] /\ dispatch' = s /\ Use({s}) /\ Heard(s)
        /\ Reply(SlotRead(s, left)) /\ UNCHANGED <<table, known, parted, written>>
    BY <1>4 DEF DispatchPut
  <2>2. left \in SlotStates /\ known' \subseteq Addr
    BY <1>1, <2>1 DEF SlotsSound, RouterSound, SlotStates
  <2>3. SlotsSound' /\ Keeps /\ EmptyIff(left)
    BY <1>1, <1>4, <2>1, <2>2, SlotAnswered
  <2> HIDE DEF left
  <2>4. QueueSound'
    BY <1>1, <2>1, <2>2, <2>3, QueueKept, FramesBuilt
  <2>5. RestSound'
    <3>1. older' \in [Slots -> SUBSET Slots]
      BY <1>1, <2>1, UseKept DEF RestSound
    <3>. QED BY <1>1, <2>1, <3>1, Counted DEF DispatchPut, RestSound, Heard
  <2>. QED BY <1>2, <2>3, <2>4, <2>5
<1>. QED BY <1>3, <1>4

LEMMA DispatchGetStep == ASSUME IInv, NEW t \in Throttles, DispatchGet(t) PROVE IInv' /\ Keeps
<1>. USE DEF IInv
<1>1. ThrottlesSound'
  BY Idles, ThrottleMoves DEF DispatchGet
<1>2. CASE dispatch = 0
  <2>1. /\ Reply(Plain("NO_MOVE"))
        /\ UNCHANGED <<slot, older, dispatch, expired, table, known, parted, written, missed>>
    BY <1>2 DEF DispatchGet
  <2>2. SlotsSound' /\ Keeps
    BY <2>1, Untouched
  <2>3. QueueSound'
    BY <2>1, QueueKept, FramesBuilt
  <2>4. RestSound'
    BY <2>1, Counted DEF DispatchGet, RestSound
  <2>. QED BY <1>1, <2>2, <2>3, <2>4
<1>3. CASE dispatch # 0
  <2>1. dispatch \in Slots /\ ~Free(dispatch)
    BY <1>3 DEF SlotsSound
  <2>2. Selected(dispatch) /\ dispatch' = 0 /\ UNCHANGED <<table, written>>
    BY <1>3 DEF DispatchGet
  <2>3. /\ SlotsSound' /\ QueueSound' /\ Keeps
        /\ older' \in [Slots -> SUBSET Slots] /\ expired' \subseteq Slots
        /\ missed' \subseteq Throttles
    BY <2>1, <2>2, SelectedKept
  <2>4. RestSound'
    BY <2>3, Counted DEF DispatchGet, RestSound
  <2>. QED BY <1>1, <2>3, <2>4
<1>. QED BY <1>2, <1>3

LEMMA WriteStep == ASSUME IInv, NEW t \in Throttles, WriteSlot(t) PROVE IInv' /\ Keeps
<1> DEFINE me == throttle[t]
           s == me.slot
           now == [addr |-> me.addr, stat |-> "IN_USE", val |-> me.shows]
           own == InUse(s) /\ slot[s].addr = me.addr
<1>. USE DEF IInv
<1>1. s \in Slots /\ me.addr \in Addr /\ now \in SlotStates /\ now.addr # NoAddr
  <2>1. s \in Slots /\ me.addr \in Addr /\ me.shows \in Contents
    BY Idles DEF WriteSlot, ExpectedBy, Holding
  <2>. QED BY <2>1, LocoNetAssumption DEF SlotStates
<1>2. slot' = [slot EXCEPT ![s] = now] /\ dispatch' = dispatch
  BY DEF WriteSlot
<1>3. slot[s] \in SlotStates /\ EmptyIff(slot[s])
  BY <1>1 DEF SlotsSound
<1>4. SlotsSound' /\ Keeps
  <2>1. CASE own
    <3>1. Route(s, slot[s].val, now.val) /\ written' = written
      BY <2>1 DEF WriteSlot
    <3>2. SlotsSound'
      BY <1>1, <1>2, <2>1, <3>1, SlotRouted DEF InUse, Free
    <3>3. Keeps
      BY <1>1, <1>2, <2>1 DEF Keeps, SlotsSound
    <3>. QED BY <3>2, <3>3
  <2>2. CASE ~own
    <3>1. /\ table' = table /\ parted' = parted
          /\ written' = written \cup ({me.addr, slot[s].addr} \ {NoAddr})
          /\ known' = known \/ Track(me.addr)
      BY <2>2 DEF WriteSlot
    <3>2. written \subseteq written' /\ written' \subseteq Addr /\ now.addr \in written'
      BY <1>1, <1>3, <3>1 DEF SlotsSound, SlotStates
    <3>3. SlotsSound'
      <4>1. known \subseteq known' /\ known' \subseteq Addr
        BY <1>1, <3>1, Tracked DEF SlotsSound, RouterSound
      <4>2. OthersKept(now.addr)
        BY <3>1, <4>1 DEF OthersKept, SlotsSound, RouterSound
      <4>. QED BY <1>1, <1>2, <3>2, <4>2, SlotFilled
    <3>4. ASSUME NEW u \in Slots, InUse(u) \/ dispatch = u
          PROVE  slot'[u].addr = slot[u].addr \/ slot[u].addr \in written'
      <4>1. CASE u = s
        <5>1. ~Free(s)
          BY <3>4, <4>1, NoSlotZero DEF InUse, Free, SlotsSound
        <5>2. slot[s].addr # NoAddr
          BY <1>3, <5>1 DEF EmptyIff, Free
        <5>3. slot[s].addr \in written'
          BY <3>1, <5>2
        <5>. QED BY <4>1, <5>3
      <4>2. CASE u # s
        BY <1>2, <4>2 DEF SlotsSound
      <4>. QED BY <4>1, <4>2
    <3>. QED BY <3>3, <3>4 DEF Keeps
  <2>. QED BY <2>1, <2>2
<1>5. QueueSound'
  BY QueueKept, FramesBuilt DEF WriteSlot
<1>6. ThrottlesSound'
  <2>1. Knows([me EXCEPT !.phase = "driving"])
    BY <1>1, Idles DEF Knows, Views, Phases, Holding
  <2>. QED BY <2>1, ThrottleMoves DEF WriteSlot
<1>7. RestSound'
  <2>1. older' \in [Slots -> SUBSET Slots]
    BY <1>1, UseKept DEF WriteSlot, RestSound
  <2>2. missed' \subseteq Throttles
    BY DEF WriteSlot, RestSound, On, Expecting
  <2>. QED BY <1>1, <2>1, <2>2 DEF WriteSlot, RestSound, Heard
<1>. QED BY <1>4, <1>5, <1>6, <1>7

LEMMA SentContents ==
    ASSUME NEW part \in {"SPD", "DIRF", "SND"}, NEW old \in Contents, NEW v \in Contents
    PROVE  Sent(part, old, v) \in Contents
BY DEF Sent, Contents, Fns

LEMMA CommandStep ==
    ASSUME IInv, NEW t \in Throttles, NEW part \in {"SPD", "DIRF", "SND"}, NEW v \in Contents,
           Command(t, part, v)
    PROVE  IInv' /\ Keeps
<1> DEFINE me == throttle[t]
           s == me.slot
           new == Sent(part, slot[s].val, v)
           sl == Reactivated(s, [slot[s] EXCEPT !.val = new])
<1>. USE DEF IInv
<1>1. s \in Slots /\ slot[s] \in SlotStates
  <2>1. s \in Slots
    BY Idles DEF Command, ExpectedBy, Holding
  <2>. QED BY <2>1 DEF SlotsSound
<1>2. QueueSound'
  BY DEF Command, QueueSound
<1>3. ThrottlesSound'
  <2>1. Knows([me EXCEPT !.shows = v])
    BY Idles DEF Knows, Views
  <2>. QED BY <2>1, ThrottleMoves DEF Command
<1>4. CASE Free(s)
  <2>1. UNCHANGED <<slot, older, dispatch, expired, table, known, parted, written, missed>>
    BY <1>4 DEF Command
  <2>2. SlotsSound' /\ Keeps
    BY <2>1, Untouched
  <2>3. RestSound'
    BY <2>1, Counted DEF Command, RestSound
  <2>. QED BY <1>2, <1>3, <2>2, <2>3
<1>5. CASE ~Free(s)
  <2>1. /\ slot' = [slot EXCEPT ![s] = sl] /\ Use({s}) /\ Heard(s)
        /\ Route(s, slot[s].val, new) /\ UNCHANGED <<dispatch, written>>
    BY <1>5 DEF Command
  <2>2. new \in Contents
    BY <1>1, SentContents DEF SlotStates
  <2> HIDE DEF new
  <2>3. /\ sl \in SlotStates /\ sl.addr = slot[s].addr /\ sl.val = new
        /\ sl.stat # "FREE"
    BY <1>1, <1>5, <2>2 DEF Reactivated, SlotStates, Free
  <2> HIDE DEF sl
  <2>4. SlotsSound'
    BY <1>1, <1>5, <2>1, <2>3, SlotRouted
  <2>5. Keeps
    BY <1>1, <2>1, <2>3 DEF Keeps, SlotsSound
  <2>6. RestSound'
    <3>1. older' \in [Slots -> SUBSET Slots]
      BY <1>1, <2>1, UseKept DEF RestSound
    <3>2. missed' \subseteq Throttles
      BY DEF Command, RestSound, On, Expecting
    <3>. QED BY <1>1, <2>1, <3>1, <3>2, Counted DEF Command, RestSound, Heard
  <2>. QED BY <1>2, <1>3, <2>4, <2>5, <2>6
<1>. QED BY <1>4, <1>5

LEMMA ReleaseStep == ASSUME IInv, NEW t \in Throttles, Release(t) PROVE IInv' /\ Keeps
<1> DEFINE s == throttle[t].slot
           left == [slot[s] EXCEPT !.stat = "COMMON"]
<1>. USE DEF IInv
<1>1. s \in Slots
  BY Idles DEF Release, ExpectedBy, Holding
<1>2. ThrottlesSound' /\ QueueSound'
  BY Idles, ThrottleMoves DEF Release, QueueSound
<1>3. CASE Free(s)
  <2>1. UNCHANGED <<slot, older, dispatch, expired, table, known, parted, written>>
    BY <1>3 DEF Release
  <2>2. SlotsSound' /\ Keeps
    BY <2>1, Untouched
  <2>. QED BY <1>2, <2>1, <2>2, Counted DEF Release, RestSound
<1>4. CASE ~Free(s)
  <2>1. /\ slot' = [slot EXCEPT ![s] = left] /\ Use({s}) /\ Heard(s)
        /\ UNCHANGED <<dispatch, table, known, parted, written>>
    BY <1>4 DEF Release
  <2>2. left \in SlotStates /\ known' \subseteq Addr
    BY <1>1, <2>1 DEF SlotsSound, RouterSound, SlotStates
  <2>3. SlotsSound' /\ Keeps
    BY <1>1, <1>4, <2>1, <2>2, SlotAnswered
  <2>4. older' \in [Slots -> SUBSET Slots]
    BY <1>1, <2>1, UseKept DEF RestSound
  <2>. QED BY <1>1, <1>2, <2>1, <2>3, <2>4, Counted DEF Release, RestSound, Heard
<1>. QED BY <1>3, <1>4

LEMMA ReadSlotStep == ASSUME IInv, NEW t \in Throttles, ReadSlot(t) PROVE IInv' /\ Keeps
<1> DEFINE s == throttle[t].slot
           fresh == Refreshed(slot[s])
<1>. USE DEF IInv
<1>1. s \in Slots
  BY Idles DEF ReadSlot, ExpectedBy, Holding
<1>2. slot[s] \in SlotStates /\ EmptyIff(slot[s]) /\ known \subseteq Addr
  BY <1>1 DEF SlotsSound, RouterSound
<1>3. /\ slot' = [slot EXCEPT ![s] = fresh] /\ Reply(SlotRead(s, fresh))
      /\ Rejoin(slot[s].addr) /\ Silently(s, fresh)
      /\ UNCHANGED <<dispatch, table, known, written>>
  BY DEF ReadSlot
<1>4. fresh \in SlotStates /\ EmptyIff(fresh) /\ SlotsSound' /\ Keeps
  <2>1. CASE Free(s)
    <3>1. slot[s].addr \notin known
      BY <1>2, <2>1, LocoNetAssumption DEF EmptyIff, Free
    <3>2. fresh = slot[s] /\ slot' = slot /\ parted' = parted
      BY <1>3, <3>1 DEF Refreshed, Rejoin, SlotsSound
    <3>. QED BY <1>2, <1>3, <3>2, Untouched
  <2>2. CASE ~Free(s)
    <3>1. slot[s].addr \in Addr /\ slot[s].stat \in {"COMMON", "IN_USE"}
      BY <1>2, <2>2 DEF EmptyIff, Free, SlotStates
    <3>2. [slot[s] EXCEPT !.stat = slot[s].stat] = slot[s] /\ fresh \in SlotStates
      BY <1>2, <3>1, TableRead DEF SlotStates
    <3>. QED BY <1>1, <1>2, <1>3, <2>2, <3>1, <3>2, SlotAnswered
  <2>. QED BY <2>1, <2>2
<1> HIDE DEF fresh
<1>5. QueueSound'
  BY <1>1, <1>3, <1>4, QueueKept, FramesBuilt
<1>6. missed' \subseteq Throttles
  BY <1>3 DEF Silently, On, RestSound
<1>7. ThrottlesSound' /\ RestSound'
  BY <1>6 DEF ReadSlot, ThrottlesSound, RestSound
<1>. QED BY <1>4, <1>5, <1>7

LEMMA AskAgainStep == ASSUME IInv, NEW t \in Throttles, AskAgain(t) PROVE IInv' /\ Keeps
<1>. USE DEF IInv
<1>0. UNCHANGED <<resync, attempts, held, table, written, ops, faults>>
  BY DEF AskAgain
<1>1. CASE /\ ExpectedBy(t, {"find"}) /\ LocoAdr(throttle[t].addr)
           /\ UNCHANGED <<dispatch, known, throttle>>
  <2>1. throttle[t].addr \in Addr
    BY <1>1, Idles
  <2>2. /\ SlotsSound' /\ QueueSound' /\ Keeps
        /\ older' \in [Slots -> SUBSET Slots] /\ expired' \subseteq Slots
        /\ missed' \subseteq Throttles
    BY <1>0, <1>1, <2>1, LocoAdrKept
  <2>. QED BY <1>0, <1>1, <2>2 DEF RestSound, ThrottlesSound
<1>2. CASE /\ ExpectedBy(t, {"take"}) /\ NullMove(throttle[t].slot)
           /\ UNCHANGED throttle
  <2>1. throttle[t].slot \in Slots
    BY <1>2, Idles DEF ExpectedBy
  <2>2. /\ SlotsSound' /\ QueueSound' /\ Keeps
        /\ older' \in [Slots -> SUBSET Slots] /\ expired' \subseteq Slots
        /\ missed' \subseteq Throttles
    BY <1>0, <1>2, <2>1, NullMoveKept
  <2>. QED BY <1>0, <1>2, <2>2 DEF RestSound, ThrottlesSound
<1>3. CASE /\ Becomes(t, [throttle[t] EXCEPT !.phase = "idle"])
           /\ UNCHANGED <<slot, older, dispatch, expired, replies, known, parted, missed>>
  <2>1. SlotsSound' /\ Keeps
    BY <1>0, <1>3, Untouched
  <2>2. ThrottlesSound'
    BY <1>3, Idles, ThrottleMoves
  <2>. QED BY <1>0, <1>3, <2>1, <2>2 DEF RestSound, QueueSound
<1>. QED BY <1>1, <1>2, <1>3 DEF AskAgain

LEMMA UnplugStep == ASSUME IInv, NEW t \in Throttles, Unplug(t) PROVE IInv' /\ Keeps
<1>. USE DEF IInv
<1>1. SlotsSound' /\ Keeps
  BY Untouched DEF Unplug
<1>2. ThrottlesSound'
  BY Idles, ThrottleMoves DEF Unplug
<1>3. QueueSound' /\ RestSound'
  BY Counted DEF Unplug, QueueSound, RestSound
<1>. QED BY <1>1, <1>2, <1>3

LEMMA ExpireStep == ASSUME IInv, NEW S \in SUBSET Slots, Expire(S) PROVE IInv' /\ Keeps
<1>. USE DEF IInv
<1>1. slot' = [s \in Slots |-> IF s \in S THEN [slot[s] EXCEPT !.stat = "COMMON"] ELSE slot[s]]
  BY DEF Expire
<1>2. \A s \in Slots : /\ slot'[s] \in SlotStates
                       /\ slot'[s].addr = slot[s].addr /\ slot'[s].val = slot[s].val
                       /\ slot'[s].stat = "FREE" <=> slot[s].stat = "FREE"
  BY <1>1 DEF Expire, InUse, SlotsSound, SlotStates
<1>3. slot' \in [Slots -> SlotStates]
  BY <1>1, <1>2
<1>4. SlotsSound'
  BY <1>2, <1>3, SlotsKept DEF Expire, SlotsSound, RouterSound
<1>5. Keeps
  BY <1>2 DEF Keeps
<1>6. ThrottlesSound' /\ QueueSound' /\ RestSound'
  BY Counted DEF Expire, ThrottlesSound, QueueSound, RestSound
<1>. QED BY <1>4, <1>5, <1>6

\* Both kinds of change of another protocol.
LEMMA ExternalRest ==
    ASSUME IInv, NEW a \in Addr, NEW parts \in SUBSET Parts, NEW now \in Locos,
           NEW after \in [Slots -> Contents], External(a, parts, now, after), SlotsSound'
    PROVE  IInv' /\ Keeps
<1>. USE DEF IInv
<1>1. slot' = [s \in Slots |-> IF s \in SlotsOf(a) THEN [slot[s] EXCEPT !.val = after[s]] ELSE slot[s]]
  BY DEF External
<1>2. Keeps
  BY <1>1 DEF Keeps, SlotsSound, SlotStates
<1>3. older' \in [Slots -> SUBSET Slots]
  BY UseKept DEF External, SlotsOf, RestSound
<1>4. missed' \subseteq Throttles
  BY DEF External, RestSound, On
<1>5. resync' \in BOOLEAN
  BY DEF External
<1>6. ops' \in 0 .. MaxOps
  BY Counted DEF External
<1>7. ThrottlesSound' /\ QueueSound' /\ RestSound'
  BY <1>3, <1>4, <1>5, <1>6 DEF External, ThrottlesSound, QueueSound, RestSound
<1>. QED BY <1>2, <1>7

\* A slot takes a drive state: an emergency stop may stay one.
LEMMA TakesDrive ==
    ASSUME NEW v \in Contents, NEW st \in Locos
    PROVE  /\ WithDrive(v, st) \in Contents
           /\ WithDrive(v, st).dir = st.dir /\ WithDrive(v, st).fns = v.fns
           /\ ToBridge(WithDrive(v, st).speed) = ToBridge(FromBridge(st.speed))
<1>1. FromBridge(st.speed) \in BusSpeeds /\ ToBridge(EStop) = 0 /\ ToBridge(FromBridge(st.speed)) = st.speed
  BY SpeedScales DEF Locos
<1>2. /\ WithDrive(v, st) \in Contents
      /\ WithDrive(v, st).dir = st.dir /\ WithDrive(v, st).fns = v.fns
      /\ WithDrive(v, st).speed = IF st.speed = 0 /\ v.speed = EStop THEN EStop ELSE FromBridge(st.speed)
  BY <1>1 DEF WithDrive, Contents, Locos
<1>. QED BY <1>1, <1>2

LEMMA ExternalDriveStep ==
    ASSUME IInv, NEW a \in Addr, NEW n \in Speeds, NEW d \in Dirs, ExternalDrive(a, n, d)
    PROVE  IInv' /\ Keeps
<1> SUFFICES ASSUME NEW now, now = [table[a] EXCEPT !.speed = n, !.dir = d],
                    NEW after, after = [s \in Slots |-> WithDrive(slot[s].val, now)]
             PROVE  IInv' /\ Keeps
  OBVIOUS
<1>. USE DEF IInv
<1>1. /\ now \in Locos /\ now.speed = n /\ now.dir = d /\ now.fns = table[a].fns
  BY DEF SlotsSound, RouterSound, Locos
<1>2. External(a, {"drive"}, now, after)
  BY DEF ExternalDrive
<1>3. table'[a] = now /\ parted' = parted \ ({a} \X {"drive"}) /\ {"drive"} \in SUBSET Parts
  BY DEF ExternalDrive, External, SlotsSound, RouterSound, Parts
<1>4. ASSUME NEW s \in Slots
      PROVE  /\ after[s] \in Contents
             /\ after[s].dir = d /\ after[s].fns = slot[s].val.fns
             /\ ToBridge(after[s].speed) = ToBridge(FromBridge(n))
  <2>1. slot[s].val \in Contents
    BY DEF SlotsSound, SlotStates
  <2>. QED BY <1>1, <2>1, TakesDrive
<1>5. after \in [Slots -> Contents]
  BY <1>4
<1>6. /\ FromTable(a)'.speed = FromBridge(n) /\ FromTable(a)'.dir = d
      /\ FromTable(a)'.fns = table[a].fns /\ FromTable(a).fns = table[a].fns
  BY <1>1, <1>3 DEF FromTable, SlotsSound, RouterSound, Locos
<1>7. ASSUME NEW s \in SlotsOf(a), a \notin written PROVE Joined(after[s], a)'
  <2>1. s \in Slots /\ Joined(slot[s].val, a)
    BY <1>7 DEF SlotsOf, SlotsSound, SlotsAgree
  <2>2. SameDrive(after[s], FromTable(a)')
    BY <1>4, <1>6, <2>1 DEF SameDrive
  <2>3. <<a, "fns">> \notin parted' => SameFns(after[s], FromTable(a)')
    BY <1>3, <1>4, <1>6, <2>1 DEF SameFns, Joined
  <2>. QED BY <2>2, <2>3 DEF Joined
<1>8. SlotsSound'
  BY <1>1, <1>2, <1>3, <1>5, <1>7, SlotsTold
<1>. QED BY <1>1, <1>2, <1>3, <1>5, <1>8, ExternalRest

LEMMA ExternalFunctionsStep ==
    ASSUME IInv, NEW a \in Addr, NEW F \in SUBSET Fns, ExternalFunctions(a, F)
    PROVE  IInv' /\ Keeps
<1> SUFFICES ASSUME NEW now, now = [table[a] EXCEPT !.fns = F],
                    NEW after, after = [s \in Slots |-> WithFunctions(WithDrive(slot[s].val, now), now)]
             PROVE  IInv' /\ Keeps
  OBVIOUS
<1>. USE DEF IInv
<1>1. /\ now \in Locos /\ now.speed = table[a].speed /\ now.dir = table[a].dir /\ now.fns = F
  BY DEF SlotsSound, RouterSound, Locos
<1>2. External(a, Parts, now, after)
  BY DEF ExternalFunctions
<1>3. table'[a] = now
  BY DEF ExternalFunctions, External, SlotsSound, RouterSound
<1>4. ASSUME NEW s \in Slots
      PROVE  /\ after[s] \in Contents /\ after[s].fns = F /\ after[s].dir = now.dir
             /\ ToBridge(after[s].speed) = ToBridge(FromBridge(now.speed))
  <2> DEFINE w == WithDrive(slot[s].val, now)
  <2>1. slot[s].val \in Contents
    BY DEF SlotsSound, SlotStates
  <2>2. w \in Contents /\ w.dir = now.dir /\ ToBridge(w.speed) = ToBridge(FromBridge(now.speed))
    BY <1>1, <2>1, TakesDrive
  <2>3. after[s] = WithFunctions(w, now)
    OBVIOUS
  <2> HIDE DEF w
  <2>. QED BY <1>1, <2>2, <2>3 DEF WithFunctions, Contents
<1>5. after \in [Slots -> Contents]
  BY <1>4
<1>6. /\ FromTable(a)'.speed = FromBridge(now.speed) /\ FromTable(a)'.dir = now.dir
      /\ FromTable(a)'.fns = F
  BY <1>1, <1>3 DEF FromTable, Locos
<1>7. ASSUME NEW s \in SlotsOf(a), a \notin written PROVE Joined(after[s], a)'
  <2>1. s \in Slots
    BY <1>7 DEF SlotsOf
  <2>. QED BY <1>4, <1>6, <2>1 DEF Joined, SameDrive, SameFns
<1>8. SlotsSound'
  BY <1>1, <1>2, <1>5, <1>7, SlotsTold
<1>. QED BY <1>1, <1>2, <1>5, <1>8, ExternalRest

\* The router's table moves on and the slots do not.
LEMMA TableStep ==
    ASSUME IInv, NEW a \in Addr,
           \/ \E n \in Speeds, d \in Dirs : WithheldDrive(a, n, d)
           \/ \E F \in SUBSET Fns : WithheldFunctions(a, F)
           \/ \E F \in SUBSET FnSnd : Immediate(a, F)
           \/ OthersSelect(a) \/ Forget(a)
    PROVE  IInv' /\ Keeps
<1>. USE DEF IInv
<1>0. table \in [Addr -> Locos] /\ known \subseteq Addr /\ parted \subseteq Addr \X Parts
      /\ \A b \in Addr \ known : table[b] = Default
  BY DEF SlotsSound, RouterSound
<1> DEFINE Moves == /\ OthersKept(a) /\ UNCHANGED <<slot, written, dispatch>>
                    /\ \A v : Joined(v, a) => Joined(v, a)'
<1>1. Moves
  <2>1. ASSUME NEW n \in Speeds, NEW d \in Dirs, WithheldDrive(a, n, d) PROVE Moves
    <3> DEFINE now == [table[a] EXCEPT !.speed = n, !.dir = d]
    <3>1. now \in Locos /\ now.fns = table[a].fns
      BY <1>0 DEF Locos
    <3>2. /\ table' = [table EXCEPT ![a] = now] /\ parted' = parted \cup {<<a, "drive">>}
          /\ known' = known /\ a \in known /\ UNCHANGED <<slot, written, dispatch>>
      BY <2>1 DEF WithheldDrive, Withheld
    <3> HIDE DEF now
    <3>3. OthersKept(a)
      BY <1>0, <3>1, <3>2 DEF OthersKept, RouterSound, Parts
    <3>4. FromTable(a).fns = table[a].fns /\ FromTable(a)'.fns = table[a].fns
      BY <1>0, <3>1, <3>2 DEF FromTable, Locos
    <3>. QED BY <3>2, <3>3, <3>4 DEF Joined, SameFns
  <2>2. ASSUME NEW F \in SUBSET Fns, WithheldFunctions(a, F) PROVE Moves
    <3> DEFINE now == [table[a] EXCEPT !.fns = F]
    <3>1. now \in Locos /\ now.speed = table[a].speed /\ now.dir = table[a].dir
      BY <1>0 DEF Locos
    <3>2. /\ table' = [table EXCEPT ![a] = now] /\ parted' = parted \cup {<<a, "fns">>}
          /\ known' = known /\ a \in known /\ UNCHANGED <<slot, written, dispatch>>
      BY <2>2 DEF WithheldFunctions, Withheld
    <3> HIDE DEF now
    <3>3. OthersKept(a)
      BY <1>0, <3>1, <3>2 DEF OthersKept, RouterSound, Parts
    <3>4. /\ FromTable(a).speed = FromTable(a)'.speed /\ FromTable(a)'.dir = FromTable(a).dir
      BY <1>0, <3>1, <3>2 DEF FromTable, Locos
    <3>. QED BY <3>2, <3>3, <3>4 DEF Joined, SameDrive
  <2>3. ASSUME NEW F \in SUBSET FnSnd, Immediate(a, F) PROVE Moves
    <3> DEFINE fns == (table[a].fns \ FnSnd) \cup F
    <3>1. UNCHANGED <<slot, written, dispatch>>
      BY <2>3 DEF Immediate
    <3>2. CASE Takes(a)
      <4>1. /\ table' = [table EXCEPT ![a].fns = fns] /\ known' = known \cup {a}
            /\ parted' = IF fns = table[a].fns THEN parted ELSE parted \cup {<<a, "fns">>}
        BY <2>3, <3>2 DEF Immediate
      <4>2. fns \in SUBSET Fns
        BY <1>0 DEF Fns, Locos
      <4> HIDE DEF fns
      <4>3. /\ table' \in [Addr -> Locos] /\ \A b \in Addr \ {a} : table'[b] = table[b]
            /\ table'[a].speed = table[a].speed /\ table'[a].dir = table[a].dir
            /\ table'[a].fns = fns
        BY <1>0, <4>1, <4>2 DEF Locos
      <4>4. OthersKept(a)
        BY <1>0, <4>1, <4>3 DEF OthersKept, RouterSound, Parts
      <4>5. /\ FromTable(a).speed = FromTable(a)'.speed /\ FromTable(a)'.dir = FromTable(a).dir
            /\ FromTable(a)'.fns = fns /\ FromTable(a).fns = table[a].fns
        BY <1>0, <4>3 DEF FromTable, Locos
      <4>6. <<a, "fns">> \in parted' \/ fns = table[a].fns
        BY <4>1
      <4>. QED BY <3>1, <4>1, <4>4, <4>5, <4>6 DEF Joined, SameDrive, SameFns
    <3>3. CASE ~Takes(a)
      <4>1. UNCHANGED <<table, known, parted>>
        BY <2>3, <3>3 DEF Immediate
      <4>. QED BY <1>0, <3>1, <4>1 DEF OthersKept, RouterSound, Joined, FromTable
    <3>. QED BY <3>2, <3>3
  <2>4. CASE OthersSelect(a)
    <3>1. /\ UNCHANGED <<slot, written, dispatch, table, parted>>
          /\ known \subseteq known' /\ known' \subseteq Addr
      BY <1>0, <2>4 DEF OthersSelect, Track
    <3>. QED BY <1>0, <3>1 DEF OthersKept, RouterSound, Joined, FromTable
  <2>5. CASE Forget(a)
    <3>1. /\ known' = known \ {a} /\ table' = [table EXCEPT ![a] = Default]
          /\ parted' = parted \cup ({a} \X Parts) /\ UNCHANGED <<slot, written, dispatch>>
      BY <2>5 DEF Forget
    <3>2. Default \in Locos
      BY LocoNetAssumption DEF Default, Locos
    <3>3. OthersKept(a)
      BY <1>0, <3>1, <3>2 DEF OthersKept, RouterSound
    <3>4. <<a, "drive">> \in parted' /\ <<a, "fns">> \in parted'
      BY <3>1 DEF Parts
    <3>. QED BY <3>1, <3>3, <3>4 DEF Joined
  <2>. QED BY <2>1, <2>2, <2>3, <2>4, <2>5
<1>2. SlotsSound' /\ Keeps
  BY <1>1, RowChanged DEF Keeps
<1>3. QueueSound'
  <2>1. CASE replies' = replies
    BY <2>1 DEF QueueSound
  <2>2. CASE Reply(Plain("LONG_ACK"))
    BY <2>2, QueueKept, FramesBuilt
  <2>. QED BY <2>1, <2>2 DEF WithheldDrive, WithheldFunctions, Withheld, Immediate, OthersSelect, Forget
<1>4. /\ Operate
      /\ UNCHANGED <<older, expired, resync, attempts, held, throttle, missed, faults>>
  BY DEF WithheldDrive, WithheldFunctions, Withheld, Immediate, OthersSelect, Forget
<1>5. ThrottlesSound' /\ RestSound'
  BY <1>4, Counted DEF ThrottlesSound, RestSound
<1>. QED BY <1>2, <1>3, <1>5

-----------------------------------------------------------------------------
LEMMA ReportStep == ASSUME IInv, ExternalReport PROVE IInv' /\ Keeps
<1>. USE DEF IInv
<1>1. SlotsSound' /\ Keeps
  BY Untouched DEF ExternalReport
<1>2. QueueSound'
  BY QueueKept, FramesBuilt DEF ExternalReport
<1>3. ThrottlesSound' /\ RestSound'
  BY Counted DEF ExternalReport, ThrottlesSound, RestSound
<1>. QED BY <1>1, <1>2, <1>3

LEMMA BusStep ==
    ASSUME IInv, Transmit \/ Collision \/ Disconnect \/ Reconnect
    PROVE  IInv' /\ Keeps
<1>. USE DEF IInv
<1>0. SlotsSound' /\ Keeps
  BY Untouched DEF Transmit, Collision, Disconnect, Reconnect
<1>1. MaxAttempts \in Nat \ {0} /\ MaxFaults \in Nat
  BY LocoNetAssumption
<1>2. CASE Transmit
  <2>1. QueueSound' /\ FrameSound(Head(replies))
    BY <1>2, Released DEF Transmit
  <2>2. ThrottlesSound'
    BY <1>2, <2>1, DeliveredKept DEF Transmit
  <2>3. missed' \subseteq Throttles
    BY <1>2 DEF Transmit, RestSound, Readers, Newcomers
  <2>4. RestSound'
    BY <1>1, <1>2, <2>3 DEF Transmit, RestSound
  <2>. QED BY <1>0, <2>1, <2>2, <2>4
<1>3. CASE Collision
  <2>1. QueueSound'
    BY <1>3, Released DEF Collision, QueueSound
  <2>2. RestSound'
    BY <1>1, <1>3 DEF Collision, RestSound
  <2>. QED BY <1>0, <1>3, <2>1, <2>2 DEF Collision, ThrottlesSound
<1>4. CASE Disconnect
  BY <1>0, <1>4 DEF Disconnect, ThrottlesSound, QueueSound, RestSound
<1>5. CASE Reconnect
  <2>1. ThrottlesSound'
    <3>1. ASSUME NEW t \in Throttles
          PROVE  Knows([throttle[t] EXCEPT !.phase = IF @ = "driving" THEN "reread" ELSE @])
      BY Idles DEF Knows, Views, Phases, Holding
    <3>. QED BY <1>5, <3>1 DEF Reconnect, ThrottlesSound, Knows
  <2>. QED BY <1>0, <1>5, <2>1 DEF Reconnect, QueueSound, RestSound
<1>. QED BY <1>2, <1>3, <1>4, <1>5

LEMMA RebootStep == ASSUME IInv, Reboot PROVE IInv' /\ Keeps
<1>. USE DEF IInv
<1>1. slot' \in [Slots -> SlotStates] /\ \A s \in Slots : slot'[s] = NoSlot /\ Free(s)'
  BY EmptySlot DEF Reboot, NoSlot, Free
<1>2. SlotsSound'
  <2>1. RouterSound'
    BY LocoNetAssumption DEF Reboot, Locos, RouterSound, Default
  <2>. QED BY <1>1, <2>1, EmptySlot DEF Reboot, SlotsSound, SlotsAgree
<1>3. Keeps
  BY <1>1 DEF Keeps, NoSlot
<1>4. QueueSound'
  BY LocoNetAssumption DEF Reboot, QueueSound
<1>5. RestSound'
  <2>1. older' \in [Slots -> SUBSET Slots]
    BY DEF Reboot
  <2>2. 0 \in 0 .. MaxAttempts - 1
    <3>1. MaxAttempts \in Nat \ {0}
      BY LocoNetAssumption
    <3>. QED BY <3>1
  <2>3. resync' \in BOOLEAN /\ held' \in BOOLEAN
    BY DEF Reboot
  <2>. QED BY <2>1, <2>2, <2>3, Counted DEF Reboot, RestSound
<1>. QED BY <1>2, <1>3, <1>4, <1>5 DEF Reboot, ThrottlesSound

LEMMA Step == IInv /\ [Next]_vars => IInv' /\ Keeps
<1> SUFFICES ASSUME IInv, [Next]_vars PROVE IInv' /\ Keeps
  OBVIOUS
<1>1. CASE UNCHANGED vars
  <2>1. SlotsSound' /\ Keeps
    BY <1>1, Untouched DEF IInv, vars
  <2>. QED BY <1>1, <2>1 DEF IInv, vars, QueueSound, ThrottlesSound, RestSound
<1>2. ASSUME NEW t \in Throttles, NEW a \in Addr, Find(t, a) \/ Probe(t, a)
      PROVE  IInv' /\ Keeps
  BY <1>2, FindStep
<1>3. ASSUME NEW t \in Throttles, NEW part \in {"SPD", "DIRF", "SND"}, NEW v \in Contents,
             Command(t, part, v)
      PROVE  IInv' /\ Keeps
  BY <1>3, CommandStep
<1>4. ASSUME NEW t \in Throttles,
             \/ Take(t) \/ DispatchPut(t) \/ DispatchGet(t) \/ WriteSlot(t)
             \/ Release(t) \/ ReadSlot(t) \/ AskAgain(t) \/ Unplug(t)
      PROVE  IInv' /\ Keeps
  BY <1>4, TakeStep, DispatchPutStep, DispatchGetStep, WriteStep, ReleaseStep,
     ReadSlotStep, AskAgainStep, UnplugStep
<1>5. ASSUME NEW S \in SUBSET Slots, Expire(S) PROVE IInv' /\ Keeps
  BY <1>5, ExpireStep
<1>6. ASSUME NEW a \in Addr, NEW n \in Speeds, NEW d \in Dirs, ExternalDrive(a, n, d)
      PROVE  IInv' /\ Keeps
  BY <1>6, ExternalDriveStep
<1>7. ASSUME NEW a \in Addr, NEW F \in SUBSET Fns, ExternalFunctions(a, F)
      PROVE  IInv' /\ Keeps
  BY <1>7, ExternalFunctionsStep
<1>8. ASSUME NEW a \in Addr,
             \/ \E n \in Speeds, d \in Dirs : WithheldDrive(a, n, d)
             \/ \E F \in SUBSET Fns : WithheldFunctions(a, F)
             \/ \E F \in SUBSET FnSnd : Immediate(a, F)
             \/ OthersSelect(a) \/ Forget(a)
      PROVE  IInv' /\ Keeps
  BY <1>8, TableStep
<1>9. CASE ExternalReport \/ Transmit \/ Collision \/ Disconnect \/ Reconnect \/ Reboot
  BY <1>9, ReportStep, BusStep, RebootStep
<1>. QED BY <1>1, <1>2, <1>3, <1>4, <1>5, <1>6, <1>7, <1>8, <1>9 DEF Next

LEMMA Invariance == Spec => []IInv
<1>. QED BY Initially, Step, PTL DEF Spec

-----------------------------------------------------------------------------
(* The slot table, the queue of replies, the loco table and what each      *)
(* throttle believes keep their form and their bounds.                     *)
THEOREM TypeCorrect == Spec => []TypeOK
<1>. QED BY IInvSuffices, Invariance, PTL

(* A slot holds what the router's table holds of its loco, drive state and *)
(* functions each, except where the router last withheld or refused that   *)
(* part or forgot the loco, or a DCC packet set its functions: whatever    *)
(* ECoS reports and other throttles send, nothing else parts the two, and  *)
(* loading, refreshing, commands and passed on changes join them again.    *)
THEOREM SlotsHoldTheTable == Spec => []SlotsAgree
<1>. QED BY IInvSuffices, Invariance, PTL

(* No request of one throttle, and no change of another protocol, takes a  *)
(* slot from the throttle that uses it or the dispatched loco from its     *)
(* slot.                                                                   *)
THEOREM NoSlotIsTaken == Spec => HeldKeepsLoco
<1>1. Keeps
      => [\A s \in Slots : InUse(s) \/ dispatch = s
              => \/ slot'[s].addr = slot[s].addr
                 \/ slot'[s].stat = "FREE"
                 \/ slot[s].addr \in written']_vars
  BY DEF Keeps
<1>. QED BY <1>1, Step, Invariance, PTL DEF Spec, HeldKeepsLoco
-----------------------------------------------------------------------------
(* What throttles show.  A queued read that a throttle will take for its   *)
(* own is of the slot and the loco it believes to have.                    *)
Reads(me, f) ==
    /\ f.op = "SL_RD" /\ f.slot = me.slot
    /\ f.state.stat # "FREE" /\ f.state.addr = me.addr
ReadsMatch(t) ==
    \A i \in DOMAIN replies : Reads(throttle[t], replies[i])
        => SameOnDisplay(replies[i].state.val, slot[throttle[t].slot].val)
ShowsMatch(t) ==
    ExpectedBy(t, {"driving"}) => SameOnDisplay(throttle[t].shows, slot[throttle[t].slot].val)

\* The throttles DisplayFollows is about, whatever state their slot is in.
Concerned(t) ==
    LET s == throttle[t].slot
    IN  /\ ExpectedBy(t, Holding) /\ t \notin missed
        /\ ~Free(s) /\ slot[s].addr = throttle[t].addr /\ slot[s].addr \notin written

(* Either a disconnect is owed, or nothing on its way to the throttle will *)
(* make it show anything but the slot, and it shows that already unless    *)
(* the bus is down.                                                        *)
Follows(t) == Concerned(t) => (resync \/ (ReadsMatch(t) /\ (held \/ ShowsMatch(t))))

\* The bus goes down with nothing to send, and no throttle asks meanwhile.
HeldQuiet == held => \A i \in DOMAIN replies : replies[i].op # "SL_RD"
DisplayInv == IInv /\ HeldQuiet /\ \A t \in Throttles : Follows(t)

-----------------------------------------------------------------------------
\* Looking alike is an equivalence.
LEMMA Alike ==
    \A u, v, w : /\ SameOnDisplay(u, u)
                 /\ SameOnDisplay(u, v) => SameOnDisplay(v, u)
                 /\ (SameOnDisplay(u, v) /\ SameOnDisplay(v, w)) => SameOnDisplay(u, w)
BY DEF SameOnDisplay, SameDrive, SameFns

\* What is in the queue after a reply was in it before, or is the reply.
LEMMA QueuedFrames ==
    ASSUME QueueSound, NEW f, FrameSound(f), Reply(f)
    PROVE  \A j \in DOMAIN replies' :
               replies'[j] = f \/ \E i \in DOMAIN replies : replies'[j] = replies[i]
<1> DEFINE k == IF Len(replies) = MaxReplies THEN 1 ELSE 0
           short == IF Len(replies) = MaxReplies THEN Tail(replies) ELSE replies
<1>1. MaxReplies \in Nat /\ MaxReplies >= 1
  BY LocoNetAssumption
<1>2. /\ short \in Seq(Frames) /\ Len(short) \in Nat
      /\ \A i \in 1 .. Len(short) : i + k \in DOMAIN replies /\ short[i] = replies[i + k]
  BY <1>1 DEF QueueSound
<1>3. replies' = Append(short, f)
  BY DEF Reply, Queued
<1> HIDE DEF short, k
<1>4. f \in Frames
  BY DEF FrameSound
<1>5. /\ DOMAIN replies' = 1 .. Len(short) + 1
      /\ \A i \in 1 .. Len(short) : replies'[i] = short[i]
      /\ replies'[Len(short) + 1] = f
  <2>1. replies' \in Seq(Frames) /\ Len(replies') = Len(short) + 1
    BY <1>2, <1>3, <1>4, AppendProperties
  <2>. QED BY <1>2, <1>3, <1>4, <2>1, AppendProperties
<1>6. ASSUME NEW j \in DOMAIN replies', replies'[j] # f
      PROVE  \E i \in DOMAIN replies : replies'[j] = replies[i]
  <2>1. j \in 1 .. Len(short)
    BY <1>2, <1>5, <1>6
  <2>. QED BY <1>2, <1>5, <2>1
<1>. QED BY <1>6

\* What a step that leaves a throttle alone may do to its slot ...
KeepsSlot(u) ==
    LET me == throttle[u]  s == me.slot
    IN  \/ ~ExpectedBy(u, Holding) \/ u \in missed' \/ resync' \/ slot'[s].stat = "FREE"
        \/ slot'[s].addr # me.addr \/ slot'[s].addr \in written'
        \/ /\ slot[s].stat # "FREE" /\ slot[s].addr = me.addr
           /\ SameOnDisplay(slot[s].val, slot'[s].val)

\* ... and to the queue: what is new in it is what the slot then holds.
KeepsQueue(u) ==
    \A j \in DOMAIN replies' :
        \/ \E i \in DOMAIN replies : replies'[j] = replies[i]
        \/ Reads(throttle[u], replies'[j])
              => SameOnDisplay(replies'[j].state.val, slot'[throttle[u].slot].val)

LEMMA FollowsKept ==
    ASSUME NEW u \in Throttles, Follows(u), throttle'[u] = throttle[u],
           u \in missed => u \in missed', written \subseteq written',
           resync => resync', held => held', KeepsSlot(u), KeepsQueue(u)
    PROVE  Follows(u)'
<1> DEFINE me == throttle[u]
           s == me.slot
<1>1. SUFFICES ASSUME Concerned(u)', ~resync'
               PROVE  ReadsMatch(u)' /\ (held' \/ ShowsMatch(u)')
  BY DEF Follows
<1>2. /\ ExpectedBy(u, Holding) /\ u \notin missed /\ ~resync
      /\ slot[s].stat # "FREE" /\ slot[s].addr = me.addr /\ slot[s].addr \notin written
      /\ SameOnDisplay(slot[s].val, slot'[s].val)
  BY <1>1 DEF Concerned, KeepsSlot, ExpectedBy, Free
<1>3. ReadsMatch(u) /\ (held \/ ShowsMatch(u))
  BY <1>2 DEF Follows, Concerned, Free
<1>4. ReadsMatch(u)'
  <2>1. ASSUME NEW j \in DOMAIN replies', Reads(me, replies'[j])
        PROVE  SameOnDisplay(replies'[j].state.val, slot'[s].val)
    <3>1. CASE \E i \in DOMAIN replies : replies'[j] = replies[i]
      <4>1. SameOnDisplay(replies'[j].state.val, slot[s].val)
        BY <1>3, <2>1, <3>1 DEF ReadsMatch
      <4>. QED BY <1>2, <4>1, Alike
    <3>. QED BY <2>1, <3>1 DEF KeepsQueue
  <2>. QED BY <2>1 DEF ReadsMatch
<1>5. held' \/ ShowsMatch(u)'
  <2>1. held \/ (ExpectedBy(u, {"driving"}) => SameOnDisplay(me.shows, slot'[s].val))
    BY <1>2, <1>3, Alike DEF ShowsMatch
  <2>. QED BY <2>1 DEF ShowsMatch, ExpectedBy
<1>. QED BY <1>4, <1>5

\* A throttle without a slot has nothing to follow.
LEMMA NoneHeld ==
    ASSUME NEW u \in Throttles, throttle'[u].phase \notin Holding
    PROVE  Follows(u)'
BY DEF Follows, Concerned, ExpectedBy

\* Only slot reads break the silence of a bus that is down.
LEMMA QuietWhileUp == ~held' => HeldQuiet'
BY DEF HeldQuiet

-----------------------------------------------------------------------------
\* A slot nobody touched.
LEMMA SlotUntouched ==
    ASSUME NEW u \in Throttles, slot'[throttle[u].slot] = slot[throttle[u].slot]
    PROVE  KeepsSlot(u)
BY Alike DEF KeepsSlot

(* A slot that is filled again looks as before, or a disconnect is owed, or *)
(* whoever holds it counts as missed.                                      *)
LEMMA SlotRefilled ==
    ASSUME IInv, NEW s \in Slots, NEW sl, slot' = [slot EXCEPT ![s] = sl], NEW u \in Throttles,
           \/ On(s) \subseteq missed' \/ resync'
           \/ /\ ~Free(s) /\ sl.addr = slot[s].addr
              /\ SameOnDisplay(slot[s].val, sl.val)
    PROVE  KeepsSlot(u)
<1>1. slot'[s] = sl /\ \A x \in Slots \ {s} : slot'[x] = slot[x]
  BY DEF IInv, SlotsSound
<1>2. CASE ~ExpectedBy(u, Holding)
  BY <1>2 DEF KeepsSlot
<1>3. CASE ExpectedBy(u, Holding) /\ throttle[u].slot # s
  <2>1. throttle[u].slot \in Slots
    BY <1>3, Idles DEF IInv, ExpectedBy
  <2>. QED BY <1>1, <1>3, <2>1, SlotUntouched
<1>4. CASE ExpectedBy(u, Holding) /\ throttle[u].slot = s
  <2>1. CASE On(s) \subseteq missed' \/ resync'
    BY <1>4, <2>1 DEF On, KeepsSlot
  <2>2. CASE /\ ~Free(s) /\ sl.addr = slot[s].addr
             /\ SameOnDisplay(slot[s].val, sl.val)
    BY <1>1, <1>4, <2>2 DEF KeepsSlot, Free
  <2>. QED BY <2>1, <2>2
<1>. QED BY <1>2, <1>3, <1>4

\* A refresh that changes what a slot shows is owed, or counts as missed.
LEMMA SlotRefreshed ==
    ASSUME IInv, NEW s \in Slots, ~Free(s), NEW sl, slot' = [slot EXCEPT ![s] = sl],
           sl.addr = slot[s].addr, Silently(s, sl), resync' = resync, NEW u \in Throttles
    PROVE  KeepsSlot(u) /\ missed \subseteq missed'
<1>1. missed' = IF resync \/ SameOnDisplay(slot[s].val, sl.val) THEN missed
                ELSE missed \cup On(s)
  BY DEF Silently
<1>2. On(s) \subseteq missed' \/ resync' \/ SameOnDisplay(slot[s].val, sl.val)
  BY <1>1
<1>. QED BY <1>1, <1>2, SlotRefilled

\* A slot that changes its state only, or nothing of what it holds.
LEMMA SlotSteady ==
    ASSUME IInv, slot' \in [Slots -> SlotStates], NEW u \in Throttles,
           \A s \in Slots : /\ slot'[s].addr = slot[s].addr /\ slot'[s].val = slot[s].val
                            /\ slot'[s].stat = "FREE" <=> slot[s].stat = "FREE"
    PROVE  KeepsSlot(u)
<1>1. CASE ~ExpectedBy(u, Holding)
  BY <1>1 DEF KeepsSlot
<1>2. CASE ExpectedBy(u, Holding)
  <2>1. throttle[u].slot \in Slots
    BY <1>2, Idles DEF IInv, ExpectedBy
  <2>. QED BY <2>1, Alike DEF KeepsSlot
<1>. QED BY <1>1, <1>2

\* A reply that is queued is no slot read, or one of the slot as it is now.
LEMMA QueueExtended ==
    ASSUME QueueSound, NEW f, FrameSound(f), Reply(f), NEW u \in Throttles,
           f.op # "SL_RD" \/ f.state.stat = "FREE" \/ f.state.val = slot'[f.slot].val
    PROVE  KeepsQueue(u)
<1>1. \A j \in DOMAIN replies' :
          replies'[j] = f \/ \E i \in DOMAIN replies : replies'[j] = replies[i]
  BY QueuedFrames
<1>2. Reads(throttle[u], f) => SameOnDisplay(f.state.val, slot'[throttle[u].slot].val)
  BY Alike DEF Reads
<1>. QED BY <1>1, <1>2 DEF KeepsQueue

LEMMA QueueSteady ==
    ASSUME NEW u \in Throttles, replies' = replies
    PROVE  KeepsQueue(u)
BY DEF KeepsQueue

LEMMA QueueServed ==
    ASSUME QueueSound, replies # <<>>, replies' = Tail(replies), NEW u \in Throttles
    PROVE  KeepsQueue(u)
<1>1. \A j \in DOMAIN replies' : j + 1 \in DOMAIN replies /\ replies'[j] = replies[j + 1]
  BY DEF QueueSound
<1>. QED BY <1>1 DEF KeepsQueue

\* One throttle lets go of its slot, the others are left alone.
LEMMA OthersFollow ==
    ASSUME DisplayInv, NEW t \in Throttles, missed \subseteq missed', written \subseteq written',
           resync' = resync, ~held', throttle \in [Throttles -> Views],
           throttle' = throttle \/ \E me : Becomes(t, me) /\ me.phase \notin Holding,
           \A u \in Throttles : KeepsSlot(u) /\ KeepsQueue(u), held => held'
    PROVE  HeldQuiet' /\ \A u \in Throttles : Follows(u)'
<1>1. ASSUME NEW u \in Throttles, throttle'[u] = throttle[u] PROVE Follows(u)'
  BY <1>1, FollowsKept DEF DisplayInv
<1>2. ASSUME NEW u \in Throttles, throttle'[u] # throttle[u] PROVE Follows(u)'
  <2>1. throttle'[u].phase \notin Holding
    BY <1>2 DEF Becomes
  <2>. QED BY <2>1, NoneHeld
<1>. QED BY <1>1, <1>2, QuietWhileUp

-----------------------------------------------------------------------------
LEMMA LocoAdrFollows ==
    ASSUME IInv, NEW a \in Addr, LocoAdr(a), resync' = resync, NEW u \in Throttles
    PROVE  KeepsSlot(u) /\ KeepsQueue(u) /\ missed \subseteq missed'
<1>. USE DEF IInv
<1>1. CASE Reply(Plain("NO_SLOT")) /\ UNCHANGED <<slot, older, expired, parted, missed>>
  <2>1. KeepsQueue(u)
    BY <1>1, FramesBuilt, QueueExtended DEF Plain
  <2>. QED BY <1>1, <2>1, SlotUntouched
<1>2. ASSUME NEW s \in SlotFor(a), slot' = [slot EXCEPT ![s] = Loaded(s, a)],
             Reply(SlotRead(s, Loaded(s, a))),
             IF s \in SlotsOf(a)
             THEN Rejoin(a) /\ Silently(s, Loaded(s, a))
             ELSE parted' = parted \ ({a} \X Parts) /\ missed' = missed \cup On(s)
      PROVE  KeepsSlot(u) /\ KeepsQueue(u) /\ missed \subseteq missed'
  <2> DEFINE loaded == Loaded(s, a)
  <2>1. s \in Slots
    BY SlotChosen
  <2>2. loaded \in SlotStates /\ loaded.addr = a /\ loaded.stat = "COMMON"
    BY <2>1, LoadedSlot
  <2>3. slot' = [slot EXCEPT ![s] = loaded] /\ Reply(SlotRead(s, loaded))
    BY <1>2
  <2>4. CASE s \in SlotsOf(a)
    <3>1. ~Free(s) /\ loaded.addr = slot[s].addr /\ Silently(s, loaded)
      BY <1>2, <2>2, <2>4 DEF SlotsOf
    <3> HIDE DEF loaded
    <3>2. KeepsSlot(u) /\ missed \subseteq missed'
      BY <2>1, <2>3, <3>1, SlotRefreshed
    <3>3. EmptyIff(loaded)
      BY <2>2, LocoNetAssumption DEF EmptyIff
    <3>4. FrameSound(SlotRead(s, loaded)) /\ SlotRead(s, loaded).slot = s
          /\ SlotRead(s, loaded).state = loaded
      BY <2>1, <2>2, <3>3, FramesBuilt DEF SlotRead
    <3>5. slot'[s] = loaded
      BY <2>1, <2>3 DEF SlotsSound
    <3>6. KeepsQueue(u)
      BY <2>3, <3>4, <3>5, QueueExtended
    <3>. QED BY <3>2, <3>6
  <2>5. CASE s \notin SlotsOf(a)
    <3>1. missed' = missed \cup On(s)
      BY <1>2, <2>5
    <3> HIDE DEF loaded
    <3>2. KeepsSlot(u)
      BY <2>1, <2>3, <3>1, SlotRefilled
    <3>3. EmptyIff(loaded)
      BY <2>2, LocoNetAssumption DEF EmptyIff
    <3>4. FrameSound(SlotRead(s, loaded)) /\ SlotRead(s, loaded).slot = s
          /\ SlotRead(s, loaded).state = loaded
      BY <2>1, <2>2, <3>3, FramesBuilt DEF SlotRead
    <3>5. slot'[s] = loaded
      BY <2>1, <2>3 DEF SlotsSound
    <3>6. KeepsQueue(u)
      BY <2>3, <3>4, <3>5, QueueExtended
    <3>. QED BY <3>1, <3>2, <3>6
  <2>. QED BY <2>4, <2>5
<1>. QED BY <1>1, <1>2 DEF LocoAdr

LEMMA SelectedFollows ==
    ASSUME IInv, NEW s \in Slots, ~Free(s), Selected(s), resync' = resync, NEW u \in Throttles
    PROVE  KeepsSlot(u) /\ KeepsQueue(u) /\ missed \subseteq missed'
<1> DEFINE taken == Refreshed([slot[s] EXCEPT !.stat = "IN_USE"])
<1>. USE DEF IInv
<1>1. slot' = [slot EXCEPT ![s] = taken] /\ Reply(SlotRead(s, taken)) /\ Silently(s, taken)
  BY DEF Selected
<1>2. taken \in SlotStates /\ taken.addr = slot[s].addr /\ EmptyIff(taken)
  BY SelectedSlot
<1> HIDE DEF taken
<1>3. KeepsSlot(u) /\ missed \subseteq missed'
  BY <1>1, <1>2, SlotRefreshed
<1>4. FrameSound(SlotRead(s, taken)) /\ SlotRead(s, taken).slot = s
      /\ SlotRead(s, taken).state = taken
  BY <1>2, FramesBuilt DEF SlotRead
<1>5. slot'[s] = taken
  BY <1>1 DEF SlotsSound
<1>6. KeepsQueue(u)
  BY <1>1, <1>4, <1>5, QueueExtended
<1>. QED BY <1>3, <1>6

LEMMA NullMoveFollows ==
    ASSUME IInv, NEW s \in Slots, NullMove(s), resync' = resync, NEW u \in Throttles
    PROVE  KeepsSlot(u) /\ KeepsQueue(u) /\ missed \subseteq missed'
<1>. USE DEF IInv
<1>0. slot[s] \in SlotStates /\ EmptyIff(slot[s])
  BY DEF SlotsSound
<1>1. CASE Free(s)
  <2>1. Reply(SlotRead(s, slot[s])) /\ slot' = slot /\ missed' = missed
    BY <1>1 DEF NullMove
  <2>2. FrameSound(SlotRead(s, slot[s])) /\ SlotRead(s, slot[s]).state.stat = "FREE"
    BY <1>0, <1>1, FramesBuilt DEF SlotRead, Free
  <2>. QED BY <2>1, <2>2, SlotUntouched, QueueExtended
<1>2. CASE ~Free(s)
  BY <1>2, SelectedFollows DEF NullMove
<1>. QED BY <1>1, <1>2

-----------------------------------------------------------------------------
LEMMA FindFollows ==
    ASSUME DisplayInv, NEW t \in Throttles, NEW a \in Addr, Find(t, a) \/ Probe(t, a)
    PROVE  HeldQuiet' /\ \A u \in Throttles : Follows(u)'
<1>1. LocoAdr(a) /\ ~held /\ UNCHANGED <<dispatch, resync, held, table, known, written>>
  BY DEF Find, Probe
<1>2. \A u \in Throttles : KeepsSlot(u) /\ KeepsQueue(u) /\ missed \subseteq missed'
  BY <1>1, LocoAdrFollows DEF DisplayInv
<1>3. throttle' = throttle \/ \E me : Becomes(t, me) /\ me.phase \notin Holding
  <2>1. [throttle[t] EXCEPT !.phase = "find", !.addr = a].phase = "find"
    BY DEF DisplayInv, IInv, ThrottlesSound, Views
  <2>. QED BY <2>1 DEF Find, Probe, Holding
<1>4. throttle \in [Throttles -> Views] /\ missed \subseteq missed'
  BY <1>2 DEF DisplayInv, IInv, ThrottlesSound
<1>. QED BY <1>1, <1>2, <1>3, <1>4, OthersFollow

LEMMA Quits ==
    ASSUME IInv, NEW t \in Throttles, NEW ph \in {"idle", "take", "get"},
           Becomes(t, [throttle[t] EXCEPT !.phase = ph])
    PROVE  \E me : Becomes(t, me) /\ me.phase \notin Holding
<1>1. [throttle[t] EXCEPT !.phase = ph].phase = ph
  BY DEF IInv, ThrottlesSound, Views
<1>. QED BY <1>1 DEF Holding

LEMMA TakeFollows ==
    ASSUME DisplayInv, NEW t \in Throttles, Take(t)
    PROVE  HeldQuiet' /\ \A u \in Throttles : Follows(u)'
<1>. USE DEF DisplayInv
<1>1. throttle[t].slot \in Slots
  BY Idles DEF Take, ExpectedBy, IInv
<1>2. \A u \in Throttles : KeepsSlot(u) /\ KeepsQueue(u) /\ missed \subseteq missed'
  BY <1>1, NullMoveFollows DEF Take
<1>3. \E me : Becomes(t, me) /\ me.phase \notin Holding
  BY Quits DEF Take
<1>4. missed \subseteq missed'
  BY <1>2
<1>. QED BY <1>2, <1>3, <1>4, OthersFollow DEF Take, IInv, ThrottlesSound

LEMMA DispatchPutFollows ==
    ASSUME DisplayInv, NEW t \in Throttles, DispatchPut(t)
    PROVE  HeldQuiet' /\ \A u \in Throttles : Follows(u)'
<1> DEFINE s == throttle[t].slot
           left == [slot[s] EXCEPT !.stat = "COMMON"]
<1>. USE DEF DisplayInv
<1>1. s \in Slots /\ slot[s] \in SlotStates /\ EmptyIff(slot[s]) /\ QueueSound
  <2>1. s \in Slots
    BY Idles DEF DispatchPut, ExpectedBy, Holding, IInv
  <2>. QED BY <2>1 DEF IInv, SlotsSound
<1>2. \A u \in Throttles : KeepsSlot(u) /\ KeepsQueue(u)
  <2>1. CASE Free(s)
    <3>1. Reply(Plain("NO_MOVE")) /\ slot' = slot
      BY <2>1 DEF DispatchPut
    <3>2. FrameSound(Plain("NO_MOVE")) /\ Plain("NO_MOVE").op # "SL_RD"
      BY FramesBuilt DEF Plain
    <3>. QED BY <1>1, <3>1, <3>2, SlotUntouched, QueueExtended
  <2>2. CASE ~Free(s)
    <3>1. slot' = [slot EXCEPT ![s] = left] /\ Reply(SlotRead(s, left))
      BY <2>2 DEF DispatchPut
    <3>2. /\ left \in SlotStates /\ EmptyIff(left)
          /\ left.addr = slot[s].addr /\ left.val = slot[s].val
      BY <1>1, <2>2 DEF SlotStates, EmptyIff, Free
    <3> HIDE DEF left
    <3>3. slot'[s] = left /\ FrameSound(SlotRead(s, left))
          /\ SlotRead(s, left).slot = s /\ SlotRead(s, left).state = left
      BY <1>1, <3>1, <3>2, FramesBuilt DEF IInv, SlotsSound, SlotRead
    <3>4. SameOnDisplay(slot[s].val, left.val)
      BY <3>2, Alike
    <3>5. \A u \in Throttles : KeepsSlot(u)
      BY <1>1, <2>2, <3>1, <3>2, <3>4, SlotRefilled
    <3>6. \A u \in Throttles : KeepsQueue(u)
      BY <1>1, <3>1, <3>3, QueueExtended
    <3>. QED BY <3>5, <3>6
  <2>. QED BY <2>1, <2>2
<1>3. \E me : Becomes(t, me) /\ me.phase \notin Holding
  BY Quits DEF DispatchPut
<1>. QED BY <1>2, <1>3, OthersFollow DEF DispatchPut, IInv, ThrottlesSound

LEMMA DispatchGetFollows ==
    ASSUME DisplayInv, NEW t \in Throttles, DispatchGet(t)
    PROVE  HeldQuiet' /\ \A u \in Throttles : Follows(u)'
<1>. USE DEF DisplayInv
<1>1. \A u \in Throttles : KeepsSlot(u) /\ KeepsQueue(u) /\ missed \subseteq missed'
  <2>1. CASE dispatch = 0
    <3>1. Reply(Plain("NO_MOVE")) /\ slot' = slot /\ missed' = missed
      BY <2>1 DEF DispatchGet
    <3>2. FrameSound(Plain("NO_MOVE")) /\ Plain("NO_MOVE").op # "SL_RD"
      BY FramesBuilt DEF Plain
    <3>. QED BY <3>1, <3>2, SlotUntouched, QueueExtended DEF IInv
  <2>2. CASE dispatch # 0
    <3>1. dispatch \in Slots /\ ~Free(dispatch)
      BY <2>2 DEF IInv, SlotsSound
    <3>2. Selected(dispatch) /\ resync' = resync
      BY <2>2 DEF DispatchGet
    <3>. QED BY <3>1, <3>2, SelectedFollows
  <2>. QED BY <2>1, <2>2
<1>2. \E me : Becomes(t, me) /\ me.phase \notin Holding
  BY Quits DEF DispatchGet
<1>3. missed \subseteq missed'
  BY <1>1
<1>. QED BY <1>1, <1>2, <1>3, OthersFollow DEF DispatchGet, IInv, ThrottlesSound

-----------------------------------------------------------------------------
\* A throttle that believes to have a slot names one, and is among its users.
LEMMA Users ==
    ASSUME IInv, NEW u \in Throttles, ExpectedBy(u, Holding)
    PROVE  throttle[u].slot \in Slots /\ throttle[u].addr \in Addr /\ u \in On(throttle[u].slot)
BY Idles DEF IInv, ExpectedBy, On

(* A throttle whose slot is changed by its own frame counts as missed when *)
(* a read of the slot is queued: otherwise there is none to mislead it.    *)
LEMMA NoneQueued ==
    ASSUME IInv, NEW u \in Throttles, ExpectedBy(u, Holding), u \notin Expecting(throttle[u].slot)
    PROVE  \A i \in DOMAIN replies : replies[i].slot # throttle[u].slot
BY Users DEF Expecting

LEMMA WriteFollows ==
    ASSUME DisplayInv, NEW t \in Throttles, WriteSlot(t)
    PROVE  HeldQuiet' /\ \A u \in Throttles : Follows(u)'
<1> DEFINE me == throttle[t]
           s == me.slot
           now == [addr |-> me.addr, stat |-> "IN_USE", val |-> me.shows]
           own == InUse(s) /\ slot[s].addr = me.addr
<1>. USE DEF DisplayInv
<1>1. /\ s \in Slots /\ me.addr \in Addr /\ ExpectedBy(t, Holding) /\ t \in On(s)
      /\ me \in Views /\ me.addr # NoAddr
  <2>1. ExpectedBy(t, Holding)
    BY DEF WriteSlot, ExpectedBy, Holding
  <2>. QED BY <2>1, Users, LocoNetAssumption DEF IInv, ThrottlesSound
<1>2. /\ slot'[s] = now /\ now.addr = me.addr /\ now.stat = "IN_USE" /\ now.val = me.shows
      /\ \A x \in Slots \ {s} : slot'[x] = slot[x]
  BY <1>1 DEF WriteSlot, IInv, SlotsSound
<1>3. /\ throttle'[t] = [me EXCEPT !.phase = "driving"]
      /\ \A u \in Throttles \ {t} : throttle'[u] = throttle[u]
  BY DEF WriteSlot, Becomes, IInv, ThrottlesSound
<1>4. /\ written \subseteq written'
      /\ ~own => me.addr \in written'
      /\ missed' = IF now.val = slot[s].val THEN missed
                   ELSE missed \cup (On(s) \ {t}) \cup Expecting(s)
      /\ ~held /\ held' = held /\ resync' = resync /\ Reply(Plain("LONG_ACK"))
  BY <1>1 DEF WriteSlot
<1> HIDE DEF now
<1>5. FrameSound(Plain("LONG_ACK")) /\ Plain("LONG_ACK").op = "LONG_ACK"
  BY FramesBuilt DEF Plain
<1>6. ASSUME NEW u \in Throttles \ {t} PROVE Follows(u)'
  <2>1. KeepsSlot(u)
    <3>1. CASE ~ExpectedBy(u, Holding)
      BY <3>1 DEF KeepsSlot
    <3>2. CASE ExpectedBy(u, Holding) /\ throttle[u].slot # s
      BY <1>2, <3>2, Users, SlotUntouched
    <3>3. CASE ExpectedBy(u, Holding) /\ throttle[u].slot = s
      <4>1. u \in On(s)
        BY <3>3, Users
      <4>2. CASE now.val # slot[s].val
        BY <1>4, <1>6, <4>1, <4>2 DEF KeepsSlot
      <4>3. CASE now.val = slot[s].val /\ ~own
        BY <1>2, <1>4, <3>3, <4>3 DEF KeepsSlot
      <4>4. CASE now.val = slot[s].val /\ own
        BY <1>2, <3>3, <4>4, Alike DEF KeepsSlot, InUse
      <4>. QED BY <4>2, <4>3, <4>4
    <3>. QED BY <3>1, <3>2, <3>3
  <2>2. KeepsQueue(u)
    BY <1>4, <1>5, QueueExtended DEF IInv
  <2>3. u \in missed => u \in missed'
    BY <1>4
  <2>. QED BY <1>3, <1>4, <2>1, <2>2, <2>3, FollowsKept
<1>7. Follows(t)'
  <2>1. SUFFICES ASSUME Concerned(t)', ~resync' PROVE ReadsMatch(t)' /\ ShowsMatch(t)'
    BY DEF Follows
  <2>2. /\ throttle'[t].slot = s /\ throttle'[t].addr = me.addr /\ throttle'[t].shows = me.shows
    BY <1>1, <1>3 DEF Views
  <2>3. t \notin missed' /\ slot'[s].addr \notin written'
    BY <2>1, <2>2 DEF Concerned
  <2>4. own /\ me.addr \notin written
    BY <1>2, <1>4, <2>3
  <2>5. ShowsMatch(t)'
    BY <1>2, <2>2, Alike DEF ShowsMatch
  <2>6. \A j \in DOMAIN replies' :
            replies'[j].op = "LONG_ACK" \/ \E i \in DOMAIN replies : replies'[j] = replies[i]
    <3>1. \A j \in DOMAIN replies' :
              replies'[j] = Plain("LONG_ACK") \/ \E i \in DOMAIN replies : replies'[j] = replies[i]
      BY <1>4, <1>5, QueuedFrames DEF IInv
    <3>. QED BY <1>5, <3>1
  <2>7. CASE now.val # slot[s].val
    <3>1. \A i \in DOMAIN replies : replies[i].slot # s
      BY <1>1, <1>4, <2>3, <2>7, NoneQueued
    <3>. QED BY <2>2, <2>5, <2>6, <3>1 DEF ReadsMatch, Reads
  <2>8. CASE now.val = slot[s].val
    <3>1. Concerned(t)
      BY <1>1, <1>4, <2>3, <2>4, <2>8 DEF Concerned, InUse, Free
    <3>2. ReadsMatch(t)
      BY <1>4, <2>1, <3>1 DEF Follows
    <3>. QED BY <1>2, <2>2, <2>5, <2>6, <2>8, <3>2 DEF ReadsMatch, Reads
  <2>. QED BY <2>7, <2>8
<1>8. HeldQuiet'
  BY <1>4, QuietWhileUp
<1>. QED BY <1>6, <1>7, <1>8

\* A throttle that showed the slot shows it after its own command.
LEMMA SentAlike ==
    ASSUME NEW part \in {"SPD", "DIRF", "SND"}, NEW x \in Contents, NEW y \in Contents,
           NEW v \in Contents, Sent(part, x, v) = v, SameOnDisplay(x, y)
    PROVE  SameOnDisplay(v, Sent(part, y, v))
<1>1. CASE part = "SPD"
  BY <1>1 DEF Sent, Contents, SameOnDisplay, SameDrive, SameFns
<1>2. CASE part = "DIRF"
  BY <1>2 DEF Sent, Contents, SameOnDisplay, SameDrive, SameFns
<1>3. CASE part = "SND"
  BY <1>3 DEF Sent, Contents, SameOnDisplay, SameDrive, SameFns
<1>. QED BY <1>1, <1>2, <1>3

LEMMA CommandFollows ==
    ASSUME DisplayInv, NEW t \in Throttles, NEW part \in {"SPD", "DIRF", "SND"}, NEW v \in Contents,
           Command(t, part, v)
    PROVE  HeldQuiet' /\ \A u \in Throttles : Follows(u)'
<1> DEFINE me == throttle[t]
           s == me.slot
           new == Sent(part, slot[s].val, v)
           sl == Reactivated(s, [slot[s] EXCEPT !.val = new])
<1>. USE DEF DisplayInv
<1>1. /\ s \in Slots /\ ExpectedBy(t, Holding) /\ t \in On(s) /\ me \in Views
      /\ me.shows \in Contents /\ slot[s] \in SlotStates /\ slot[s].val \in Contents
  <2>1. ExpectedBy(t, Holding) /\ me \in Views /\ me.shows \in Contents
    BY Idles DEF Command, ExpectedBy, Holding, IInv
  <2>2. s \in Slots /\ t \in On(s)
    BY <2>1, Users
  <2>. QED BY <2>1, <2>2 DEF IInv, SlotsSound, SlotStates
<1>2. /\ throttle'[t] = [me EXCEPT !.shows = v]
      /\ \A u \in Throttles \ {t} : throttle'[u] = throttle[u]
  BY DEF Command, Becomes, IInv, ThrottlesSound
<1>3. /\ ~held /\ held' = held /\ resync' = resync /\ replies' = replies /\ written' = written
      /\ Sent(part, me.shows, v) = v /\ ExpectedBy(t, {"driving"})
  BY DEF Command
<1>4. /\ throttle'[t].slot = s /\ throttle'[t].addr = me.addr /\ throttle'[t].shows = v
      /\ throttle'[t].phase = me.phase
  BY <1>1, <1>2 DEF Views
<1>5. missed \subseteq missed'
  BY DEF Command
<1>6. HeldQuiet'
  BY <1>3, QuietWhileUp
<1>7. CASE Free(s)
  <2>1. slot' = slot
    BY <1>7 DEF Command
  <2>2. \A u \in Throttles \ {t} : Follows(u)'
    BY <1>2, <1>3, <1>5, <2>1, FollowsKept, SlotUntouched, QueueSteady
  <2>3. Follows(t)'
    BY <1>4, <1>7, <2>1 DEF Follows, Concerned, Free
  <2>. QED BY <1>6, <2>2, <2>3
<1>8. CASE ~Free(s)
  <2>1. /\ slot'[s] = sl /\ \A x \in Slots \ {s} : slot'[x] = slot[x]
        /\ missed' = IF new = slot[s].val THEN missed
                     ELSE missed \cup (On(s) \ {t}) \cup Expecting(s)
    BY <1>1, <1>8 DEF Command, IInv, SlotsSound
  <2>2. sl.addr = slot[s].addr /\ sl.val = new /\ sl.stat # "FREE"
    <3> HIDE DEF new
    <3>. QED BY <1>1, <1>8 DEF Reactivated, SlotStates, Free
  <2> HIDE DEF sl
  <2>3. ASSUME NEW u \in Throttles \ {t} PROVE Follows(u)'
    <3>1. KeepsSlot(u)
      <4>1. CASE ~ExpectedBy(u, Holding)
        BY <4>1 DEF KeepsSlot
      <4>2. CASE ExpectedBy(u, Holding) /\ throttle[u].slot # s
        BY <2>1, <4>2, Users, SlotUntouched
      <4>3. CASE ExpectedBy(u, Holding) /\ throttle[u].slot = s
        <5>1. u \in On(s)
          BY <4>3, Users
        <5> HIDE DEF new
        <5>2. CASE new # slot[s].val
          BY <2>1, <2>3, <5>1, <5>2 DEF KeepsSlot
        <5>3. CASE new = slot[s].val
          BY <1>8, <2>1, <2>2, <4>3, <5>3, Alike DEF KeepsSlot, Free
        <5>. QED BY <5>2, <5>3
      <4>. QED BY <4>1, <4>2, <4>3
    <3>. QED BY <1>2, <1>3, <1>5, <3>1, FollowsKept, QueueSteady
  <2>4. Follows(t)'
    <3>1. SUFFICES ASSUME Concerned(t)', ~resync' PROVE ReadsMatch(t)' /\ ShowsMatch(t)'
      BY DEF Follows
    <3>2. t \notin missed' /\ slot[s].addr = me.addr /\ me.addr \notin written
      BY <1>3, <1>4, <2>1, <2>2, <3>1 DEF Concerned
    <3>3. ReadsMatch(t) /\ ShowsMatch(t)
      BY <1>1, <1>3, <1>5, <1>8, <3>1, <3>2 DEF Follows, Concerned
    <3>4. SameOnDisplay(v, new)
      BY <1>1, <1>3, <3>3, SentAlike DEF ShowsMatch
    <3> HIDE DEF new
    <3>5. ShowsMatch(t)'
      BY <1>4, <2>1, <2>2, <3>4 DEF ShowsMatch
    <3>6. CASE new = slot[s].val
      BY <1>3, <1>4, <2>1, <2>2, <3>3, <3>5, <3>6 DEF ReadsMatch, Reads
    <3>7. CASE new # slot[s].val
      <4>1. \A i \in DOMAIN replies : replies[i].slot # s
        BY <1>1, <2>1, <3>2, <3>7, NoneQueued
      <4>. QED BY <1>3, <1>4, <3>5, <4>1 DEF ReadsMatch, Reads
    <3>. QED BY <3>6, <3>7
  <2>. QED BY <1>6, <2>3, <2>4
<1>. QED BY <1>7, <1>8

LEMMA ReleaseFollows ==
    ASSUME DisplayInv, NEW t \in Throttles, Release(t)
    PROVE  HeldQuiet' /\ \A u \in Throttles : Follows(u)'
<1> DEFINE s == throttle[t].slot
           left == [slot[s] EXCEPT !.stat = "COMMON"]
<1>. USE DEF DisplayInv
<1>1. s \in Slots
  BY Idles DEF Release, ExpectedBy, Holding, IInv
<1>2. \A u \in Throttles : KeepsSlot(u)
  <2>1. CASE Free(s)
    BY <2>1, SlotUntouched DEF Release
  <2>2. CASE ~Free(s)
    <3>1. slot' = [slot EXCEPT ![s] = left]
      BY <2>2 DEF Release
    <3>2. left.addr = slot[s].addr /\ left.val = slot[s].val
      BY <1>1 DEF IInv, SlotsSound, SlotStates
    <3> HIDE DEF left
    <3>3. SameOnDisplay(slot[s].val, left.val)
      BY <3>2, Alike
    <3>. QED BY <1>1, <2>2, <3>1, <3>2, <3>3, SlotRefilled
  <2>. QED BY <2>1, <2>2
<1>3. \E me : Becomes(t, me) /\ me.phase \notin Holding
  BY Quits DEF Release
<1>. QED BY <1>2, <1>3, OthersFollow, QueueSteady DEF Release, IInv, ThrottlesSound

LEMMA ReadSlotFollows ==
    ASSUME DisplayInv, NEW t \in Throttles, ReadSlot(t)
    PROVE  HeldQuiet' /\ \A u \in Throttles : Follows(u)'
<1> DEFINE s == throttle[t].slot
           fresh == Refreshed(slot[s])
<1>. USE DEF DisplayInv
<1>1. s \in Slots /\ slot[s] \in SlotStates /\ EmptyIff(slot[s]) /\ known \subseteq Addr
  <2>1. s \in Slots
    BY Idles DEF ReadSlot, ExpectedBy, Holding, IInv
  <2>. QED BY <2>1 DEF IInv, SlotsSound, RouterSound
<1>2. slot' = [slot EXCEPT ![s] = fresh] /\ Reply(SlotRead(s, fresh)) /\ Silently(s, fresh)
      /\ resync' = resync
  BY DEF ReadSlot
<1>3. /\ fresh \in SlotStates /\ EmptyIff(fresh) /\ fresh.addr = slot[s].addr
      /\ fresh = slot[s] \/ ~Free(s)
  <2>1. CASE Free(s)
    <3>1. slot[s].addr \notin known
      BY <1>1, <2>1, LocoNetAssumption DEF Free, EmptyIff
    <3>. QED BY <1>1, <3>1 DEF Refreshed
  <2>2. CASE ~Free(s)
    <3>1. slot[s].addr \in Addr
      BY <1>1, <2>2 DEF SlotStates, EmptyIff, Free
    <3>2. fresh \in SlotStates /\ fresh.addr = slot[s].addr /\ fresh.stat = slot[s].stat
      BY <1>1, <3>1, TableRead DEF IInv
    <3> HIDE DEF fresh
    <3>. QED BY <1>1, <2>2, <3>2 DEF EmptyIff
  <2>. QED BY <2>1, <2>2
<1> HIDE DEF fresh
<1>4. \A u \in Throttles : KeepsSlot(u) /\ missed \subseteq missed'
  <2>1. CASE fresh = slot[s]
    <3>1. slot' = slot /\ missed' = missed
      BY <1>2, <2>1, Alike DEF IInv, SlotsSound, Silently
    <3>. QED BY <3>1, SlotUntouched
  <2>2. CASE ~Free(s)
    BY <1>1, <1>2, <1>3, <2>2, SlotRefreshed
  <2>. QED BY <1>3, <2>1, <2>2
<1>5. \A u \in Throttles : KeepsQueue(u)
  <2>1. /\ slot'[s] = fresh /\ FrameSound(SlotRead(s, fresh))
        /\ SlotRead(s, fresh).slot = s /\ SlotRead(s, fresh).state = fresh
    BY <1>1, <1>2, <1>3, FramesBuilt DEF IInv, SlotsSound, SlotRead
  <2>. QED BY <1>2, <2>1, QueueExtended DEF IInv
<1>6. missed \subseteq missed'
  BY <1>4
<1>. QED BY <1>4, <1>5, <1>6, OthersFollow DEF ReadSlot, IInv, ThrottlesSound

LEMMA AskAgainFollows ==
    ASSUME DisplayInv, NEW t \in Throttles, AskAgain(t)
    PROVE  HeldQuiet' /\ \A u \in Throttles : Follows(u)'
<1>. USE DEF DisplayInv
<1>0. /\ UNCHANGED <<resync, held, written>> /\ ~held
      /\ throttle \in [Throttles -> Views]
  BY DEF AskAgain, IInv, ThrottlesSound
<1>1. CASE /\ ExpectedBy(t, {"find"}) /\ LocoAdr(throttle[t].addr)
           /\ UNCHANGED <<dispatch, known, throttle>>
  <2>1. throttle[t].addr \in Addr
    BY <1>1, Idles DEF IInv
  <2>2. \A u \in Throttles : KeepsSlot(u) /\ KeepsQueue(u) /\ missed \subseteq missed'
    BY <1>0, <1>1, <2>1, LocoAdrFollows
  <2>3. missed \subseteq missed'
    BY <2>2
  <2>. QED BY <1>0, <1>1, <2>2, <2>3, OthersFollow
<1>2. CASE /\ ExpectedBy(t, {"take"}) /\ NullMove(throttle[t].slot)
           /\ UNCHANGED throttle
  <2>1. throttle[t].slot \in Slots
    BY <1>2, Idles DEF ExpectedBy, IInv
  <2>2. \A u \in Throttles : KeepsSlot(u) /\ KeepsQueue(u) /\ missed \subseteq missed'
    BY <1>0, <1>2, <2>1, NullMoveFollows
  <2>3. missed \subseteq missed'
    BY <2>2
  <2>. QED BY <1>0, <1>2, <2>2, <2>3, OthersFollow
<1>3. CASE /\ Becomes(t, [throttle[t] EXCEPT !.phase = "idle"])
           /\ UNCHANGED <<slot, older, dispatch, expired, replies, known, parted, missed>>
  <2>1. \A u \in Throttles : KeepsSlot(u) /\ KeepsQueue(u)
    BY <1>3, SlotUntouched, QueueSteady
  <2>2. \E me : Becomes(t, me) /\ me.phase \notin Holding
    BY <1>3, Quits
  <2>. QED BY <1>0, <1>3, <2>1, <2>2, OthersFollow
<1>. QED BY <1>1, <1>2, <1>3 DEF AskAgain

\* Nothing about the bus changes, and one throttle lets go at most.
LEMMA UnplugFollows ==
    ASSUME DisplayInv, NEW t \in Throttles, Unplug(t)
    PROVE  HeldQuiet' /\ \A u \in Throttles : Follows(u)'
<1>1. throttle'[t].phase = "idle" /\ \A u \in Throttles \ {t} : throttle'[u] = throttle[u]
  BY DEF Unplug, Becomes, DisplayInv, IInv, ThrottlesSound, Views
<1>2. Follows(t)'
  BY <1>1, NoneHeld DEF Holding
<1>3. ASSUME NEW u \in Throttles \ {t} PROVE Follows(u)'
  <2>1. KeepsSlot(u) /\ KeepsQueue(u)
    BY SlotUntouched, QueueSteady DEF Unplug
  <2>. QED BY <1>1, <2>1, FollowsKept DEF Unplug, DisplayInv
<1>. QED BY <1>2, <1>3 DEF Unplug, DisplayInv, HeldQuiet

LEMMA ExpireFollows ==
    ASSUME DisplayInv, NEW S \in SUBSET Slots, Expire(S)
    PROVE  HeldQuiet' /\ \A u \in Throttles : Follows(u)'
<1>. USE DEF DisplayInv
<1>1. slot' = [s \in Slots |-> IF s \in S THEN [slot[s] EXCEPT !.stat = "COMMON"] ELSE slot[s]]
  BY DEF Expire
<1>2. \A s \in Slots : /\ slot'[s] \in SlotStates
                       /\ slot'[s].addr = slot[s].addr /\ slot'[s].val = slot[s].val
                       /\ slot'[s].stat = "FREE" <=> slot[s].stat = "FREE"
  BY <1>1 DEF Expire, InUse, IInv, SlotsSound, SlotStates
<1>3. slot' \in [Slots -> SlotStates]
  BY <1>1, <1>2
<1>4. \A u \in Throttles : KeepsSlot(u) /\ KeepsQueue(u)
  BY <1>2, <1>3, SlotSteady, QueueSteady DEF Expire
<1>5. \A u \in Throttles : Follows(u)'
  BY <1>4, FollowsKept DEF Expire
<1>. QED BY <1>5 DEF Expire, HeldQuiet

(* A change of another protocol: where the slot is in use it owes a        *)
(* disconnect, and elsewhere its users count as missed.                    *)
LEMMA ExternalFollows ==
    ASSUME DisplayInv, NEW a \in Addr, NEW parts, NEW now, NEW after,
           External(a, parts, now, after)
    PROVE  HeldQuiet' /\ \A u \in Throttles : Follows(u)'
<1> DEFINE S == SlotsOf(a)
<1>. USE DEF DisplayInv
<1>1. /\ slot' = [s \in Slots |-> IF s \in S THEN [slot[s] EXCEPT !.val = after[s]] ELSE slot[s]]
      /\ resync' = (resync \/ \E s \in S : OwesResync(s, slot[s], slot'[s]))
      /\ missed' = missed \cup UNION {On(s) : s \in {u \in S : ~InUse(u) /\ after[u] # slot[u].val}}
      /\ UNCHANGED <<replies, held, throttle, written>>
  BY DEF External
<1>2. ASSUME NEW u \in Throttles PROVE KeepsSlot(u)
  <2>1. CASE ~ExpectedBy(u, Holding)
    BY <2>1 DEF KeepsSlot
  <2>2. CASE ExpectedBy(u, Holding)
    <3> DEFINE s == throttle[u].slot
    <3>1. s \in Slots /\ u \in On(s) /\ slot[s] \in SlotStates
      BY <2>2, Users DEF IInv, SlotsSound
    <3> HIDE DEF s
    <3>2. CASE s \notin S
      <4>1. slot'[s] = slot[s]
        BY <1>1, <3>1, <3>2
      <4>. QED BY <4>1, SlotUntouched DEF s
    <3>3. CASE s \in S
      <4>1. /\ slot'[s].addr = slot[s].addr /\ slot'[s].stat = slot[s].stat
            /\ slot'[s].val = after[s]
        BY <1>1, <3>1, <3>3 DEF SlotStates
      <4>2. CASE after[s] = slot[s].val
        BY <4>1, <4>2, Alike DEF KeepsSlot, s
      <4>3. CASE after[s] # slot[s].val /\ InUse(s)
        <5>1. OwesResync(s, slot[s], slot'[s])
          BY <4>1, <4>3 DEF OwesResync, InUse
        <5>2. resync'
          BY <1>1, <3>3, <5>1
        <5>. QED BY <5>2 DEF KeepsSlot
      <4>4. CASE after[s] # slot[s].val /\ ~InUse(s)
        <5>1. u \in missed'
          BY <1>1, <3>1, <3>3, <4>4
        <5>. QED BY <5>1 DEF KeepsSlot
      <4>. QED BY <4>2, <4>3, <4>4
    <3>. QED BY <3>2, <3>3
  <2>. QED BY <2>1, <2>2
<1>3. \A u \in Throttles : KeepsQueue(u)
  BY <1>1, QueueSteady
<1>4. \A u \in Throttles : Follows(u)'
  <2>1. missed \subseteq missed' /\ resync => resync'
    BY <1>1
  <2>. QED BY <1>1, <1>2, <1>3, <2>1, FollowsKept
<1>. QED BY <1>1, <1>4 DEF HeldQuiet

(* What changes the loco table alone reaches no slot: a frame with no slot *)
(* in it is queued at most, while the bus is up.                           *)
LEMMA TableFollows ==
    ASSUME DisplayInv, UNCHANGED <<slot, resync, held, throttle, written, missed>>,
           (replies' = replies) \/ (~held /\ Reply(Plain("LONG_ACK")))
    PROVE  HeldQuiet' /\ \A u \in Throttles : Follows(u)'
<1>. USE DEF DisplayInv
<1>1. \A u \in Throttles : KeepsSlot(u) /\ KeepsQueue(u)
  <2>1. FrameSound(Plain("LONG_ACK")) /\ Plain("LONG_ACK").op # "SL_RD"
    BY FramesBuilt DEF Plain
  <2>. QED BY <2>1, SlotUntouched, QueueSteady, QueueExtended DEF IInv
<1>2. \A u \in Throttles : Follows(u)'
  BY <1>1, FollowsKept
<1>. QED BY <1>2 DEF HeldQuiet

LEMMA ReportFollows ==
    ASSUME DisplayInv, ExternalReport
    PROVE  HeldQuiet' /\ \A u \in Throttles : Follows(u)'
<1>. USE DEF DisplayInv
<1>1. /\ Reply(Plain("REPORT")) /\ FrameSound(Plain("REPORT")) /\ Plain("REPORT").op = "REPORT"
      /\ UNCHANGED <<slot, resync, held, throttle, written, missed>> /\ QueueSound
  BY FramesBuilt DEF ExternalReport, Plain, IInv
<1>2. \A u \in Throttles : Follows(u)'
  BY <1>1, SlotUntouched, QueueExtended, FollowsKept
<1>3. HeldQuiet'
  <2>1. \A j \in DOMAIN replies' :
            replies'[j] = Plain("REPORT") \/ \E i \in DOMAIN replies : replies'[j] = replies[i]
    BY <1>1, QueuedFrames
  <2>2. \A j \in DOMAIN replies' :
            replies'[j].op = "REPORT" \/ \E i \in DOMAIN replies : replies'[j].op = replies[i].op
    BY <1>1, <2>1
  <2>. QED BY <1>1, <2>2 DEF HeldQuiet
<1>. QED BY <1>2, <1>3

-----------------------------------------------------------------------------
(* What a throttle with a slot has made of a slot read: it took no notice, *)
(* or it was given the slot, or it shows what was read.                    *)
LEMMA SeenHolding ==
    ASSUME IInv, NEW u \in Throttles, NEW f, Seen(f, u).phase \in Holding
    PROVE  \/ Seen(f, u) = throttle[u] /\ throttle[u].slot # f.slot
           \/ /\ throttle[u].phase \notin Holding
              /\ Seen(f, u).phase = "write" /\ Seen(f, u).slot = f.slot
           \/ /\ throttle[u].phase \in Holding /\ Seen(f, u).slot = f.slot
              /\ throttle[u].slot = f.slot /\ Seen(f, u).addr = throttle[u].addr
              /\ Seen(f, u).shows = f.state.val
              /\ f.state.stat # "FREE" /\ f.state.addr = throttle[u].addr
<1>1. throttle[u] \in Views
  BY DEF IInv, ThrottlesSound
<1>. QED BY <1>1 DEF Seen, Holding, Views

LEMMA TransmitFollows ==
    ASSUME DisplayInv, Transmit
    PROVE  HeldQuiet' /\ \A u \in Throttles : Follows(u)'
<1> DEFINE f == Head(replies)
<1>. USE DEF DisplayInv
<1>1. /\ ~held /\ replies # <<>> /\ replies' = Tail(replies) /\ throttle' = Delivered(f)
      /\ UNCHANGED <<slot, resync, held, written>>
      /\ missed' = IF ~OutOfDate(f) THEN missed \ Readers(f)
                   ELSE IF resync THEN missed ELSE missed \cup Newcomers(f)
  BY DEF Transmit
<1>2. /\ 1 \in DOMAIN replies /\ f = replies[1]
      /\ \A j \in DOMAIN replies' : j + 1 \in DOMAIN replies /\ replies'[j] = replies[j + 1]
  BY <1>1 DEF IInv, QueueSound
<1>3. HeldQuiet'
  BY <1>1, QuietWhileUp
<1> HIDE DEF f
<1>4. ASSUME NEW u \in Throttles PROVE Follows(u)'
  <2> DEFINE me == throttle[u]
             then == Delivered(f)[u]
  <2>1. SUFFICES ASSUME Concerned(u)', ~resync' PROVE ReadsMatch(u)' /\ ShowsMatch(u)'
    BY DEF Follows
  <2>2. throttle'[u] = then /\ then.phase \in Holding /\ u \notin missed' /\ ~resync
    BY <1>1, <2>1 DEF Concerned, ExpectedBy
  <2>3. CASE then = me /\ u \notin missed
    <3>1. KeepsSlot(u) /\ KeepsQueue(u)
      BY <1>1, SlotUntouched, QueueServed DEF IInv
    <3>2. Follows(u)'
      BY <1>1, <2>2, <2>3, <3>1, FollowsKept
    <3>. QED BY <1>1, <2>1, <3>2 DEF Follows
  <2>4. CASE f.op # "SL_RD"
    <3>1. then = me
      BY <2>2, <2>4 DEF Delivered, Holding
    <3>2. u \notin missed
      BY <1>1, <2>2, <2>4 DEF Readers
    <3>. QED BY <2>3, <3>1, <3>2
  <2>5. CASE f.op = "SL_RD"
    <3>1. then = Seen(f, u)
      BY <2>5 DEF Delivered
    <3>2. CASE then = me /\ me.slot # f.slot
      <4>1. u \notin missed
        BY <1>1, <2>2, <3>2 DEF Readers
      <4>. QED BY <2>3, <3>2, <4>1
    <3>3. CASE then.slot = f.slot /\ ~OutOfDate(f)
      <4>1. \A i \in DOMAIN replies : (replies[i].op = "SL_RD" /\ replies[i].slot = f.slot)
                => replies[i].state.val = slot[f.slot].val
        BY <3>3 DEF OutOfDate
      <4>2. f.state.val = slot[f.slot].val
        BY <1>2, <2>5, <4>1
      <4>3. ReadsMatch(u)'
        <5>1. ASSUME NEW j \in DOMAIN replies', Reads(then, replies'[j])
              PROVE  SameOnDisplay(replies'[j].state.val, slot[then.slot].val)
          <6>1. replies'[j].state.val = slot[then.slot].val
            BY <1>2, <3>3, <4>1, <5>1 DEF Reads
          <6>. QED BY <6>1, Alike
        <5>. QED BY <1>1, <2>2, <5>1 DEF ReadsMatch
      <4>4. ShowsMatch(u)'
        <5>1. then.phase = "driving" => then.shows = f.state.val
          BY <2>2, <3>1, <3>3, SeenHolding
        <5>2. then.phase = "driving" => SameOnDisplay(then.shows, slot[then.slot].val)
          BY <3>3, <4>2, <5>1, Alike
        <5>. QED BY <1>1, <2>2, <5>2 DEF ShowsMatch, ExpectedBy
      <4>. QED BY <4>3, <4>4
    <3>4. CASE then.slot = f.slot /\ OutOfDate(f)
      <4>1. u \notin missed /\ u \notin Newcomers(f)
        BY <1>1, <2>2, <3>4
      <4>2. u \in Readers(f)
        BY <2>2, <2>5, <3>4 DEF Readers
      <4>3. me.phase \in Holding
        BY <4>1, <4>2 DEF Newcomers, ExpectedBy
      <4>4. CASE me.slot = f.slot /\ then.addr = me.addr /\ then.shows = f.state.val
                 /\ f.state.stat # "FREE" /\ f.state.addr = me.addr
        <5>1. Concerned(u)
          BY <1>1, <2>1, <2>2, <3>4, <4>1, <4>3, <4>4 DEF Concerned, ExpectedBy, Free
        <5>2. ReadsMatch(u)
          BY <2>2, <5>1 DEF Follows
        <5>3. SameOnDisplay(f.state.val, slot[me.slot].val)
          BY <1>2, <2>5, <4>4, <5>2 DEF ReadsMatch, Reads
        <5>4. ReadsMatch(u)'
          BY <1>1, <1>2, <2>2, <3>4, <4>4, <5>2 DEF ReadsMatch, Reads
        <5>5. ShowsMatch(u)'
          BY <1>1, <2>2, <3>4, <4>4, <5>3 DEF ShowsMatch
        <5>. QED BY <5>4, <5>5
      <4>5. then # me \/ me.slot = f.slot
        BY <3>4
      <4>. QED BY <2>2, <3>1, <4>3, <4>4, <4>5, SeenHolding
    <3>. QED BY <2>2, <3>1, <3>2, <3>3, <3>4, SeenHolding
  <2>. QED BY <2>4, <2>5
<1>. QED BY <1>3, <1>4

LEMMA BusFollows ==
    ASSUME DisplayInv, Collision \/ Disconnect \/ Reconnect
    PROVE  HeldQuiet' /\ \A u \in Throttles : Follows(u)'
<1>. USE DEF DisplayInv
<1>1. CASE Collision
  <2>1. ~held' /\ UNCHANGED <<slot, resync, held, throttle, written, missed>>
    BY <1>1 DEF Collision
  <2>2. \A u \in Throttles : KeepsQueue(u)
    BY <1>1, QueueServed, QueueSteady DEF Collision, IInv
  <2>3. \A u \in Throttles : Follows(u)'
    BY <2>1, <2>2, SlotUntouched, FollowsKept
  <2>. QED BY <2>1, <2>3, QuietWhileUp
<1>2. CASE Disconnect
  <2>1. held' /\ DOMAIN replies' = {}
    BY <1>2 DEF Disconnect
  <2>. QED BY <2>1 DEF HeldQuiet, Follows, ReadsMatch
<1>3. CASE Reconnect
  <2>1. /\ ~held' /\ \A i \in DOMAIN replies' : replies'[i].op # "SL_RD"
    BY <1>3 DEF Reconnect, HeldQuiet
  <2>2. \A u \in Throttles : throttle'[u].phase # "driving"
    BY <1>3 DEF Reconnect, IInv, ThrottlesSound, Views
  <2>. QED BY <2>1, <2>2, QuietWhileUp DEF Follows, ReadsMatch, Reads, ShowsMatch, ExpectedBy
<1>. QED BY <1>1, <1>2, <1>3

LEMMA RebootFollows ==
    ASSUME DisplayInv, Reboot
    PROVE  HeldQuiet' /\ \A u \in Throttles : Follows(u)'
<1>1. ASSUME NEW u \in Throttles, ExpectedBy(u, Holding) PROVE Free(throttle[u].slot)'
  <2>1. throttle[u].slot \in Slots
    BY <1>1, Users DEF DisplayInv
  <2>. QED BY <2>1 DEF Reboot, Free, NoSlot
<1>2. \A u \in Throttles : Follows(u)'
  BY <1>1 DEF Follows, Concerned, ExpectedBy, Reboot
<1>. QED BY <1>2, QuietWhileUp DEF Reboot

-----------------------------------------------------------------------------
LEMMA DisplayInitially == Init => DisplayInv
<1> SUFFICES ASSUME Init PROVE DisplayInv
  OBVIOUS
<1>1. HeldQuiet /\ \A u \in Throttles : Follows(u)
  BY DEF Init, HeldQuiet, Follows, Concerned, ExpectedBy, Holding
<1>. QED BY <1>1, Initially DEF DisplayInv

LEMMA DisplayStep == DisplayInv /\ [Next]_vars => DisplayInv'
<1> SUFFICES ASSUME DisplayInv, [Next]_vars PROVE HeldQuiet' /\ \A u \in Throttles : Follows(u)'
  BY Step DEF DisplayInv
<1>1. CASE UNCHANGED vars
  BY <1>1 DEF vars, DisplayInv, HeldQuiet, Follows, Concerned, ExpectedBy, Free,
              ReadsMatch, ShowsMatch
<1>2. ASSUME NEW t \in Throttles, NEW a \in Addr, Find(t, a) \/ Probe(t, a)
      PROVE  HeldQuiet' /\ \A u \in Throttles : Follows(u)'
  BY <1>2, FindFollows
<1>3. ASSUME NEW t \in Throttles, NEW part \in {"SPD", "DIRF", "SND"}, NEW v \in Contents,
             Command(t, part, v)
      PROVE  HeldQuiet' /\ \A u \in Throttles : Follows(u)'
  BY <1>3, CommandFollows
<1>4. ASSUME NEW t \in Throttles,
             \/ Take(t) \/ DispatchPut(t) \/ DispatchGet(t) \/ WriteSlot(t)
             \/ Release(t) \/ ReadSlot(t) \/ AskAgain(t) \/ Unplug(t)
      PROVE  HeldQuiet' /\ \A u \in Throttles : Follows(u)'
  BY <1>4, TakeFollows, DispatchPutFollows, DispatchGetFollows, WriteFollows, ReleaseFollows,
     ReadSlotFollows, AskAgainFollows, UnplugFollows
<1>5. ASSUME NEW S \in SUBSET Slots, Expire(S)
      PROVE  HeldQuiet' /\ \A u \in Throttles : Follows(u)'
  BY <1>5, ExpireFollows
<1>6. ASSUME NEW a \in Addr, NEW n \in Speeds, NEW d \in Dirs, ExternalDrive(a, n, d)
      PROVE  HeldQuiet' /\ \A u \in Throttles : Follows(u)'
  BY <1>6, ExternalFollows DEF ExternalDrive
<1>7. ASSUME NEW a \in Addr, NEW F \in SUBSET Fns, ExternalFunctions(a, F)
      PROVE  HeldQuiet' /\ \A u \in Throttles : Follows(u)'
  BY <1>7, ExternalFollows DEF ExternalFunctions
<1>8. ASSUME NEW a \in Addr,
             \/ \E n \in Speeds, d \in Dirs : WithheldDrive(a, n, d)
             \/ \E F \in SUBSET Fns : WithheldFunctions(a, F)
             \/ \E F \in SUBSET FnSnd : Immediate(a, F)
             \/ OthersSelect(a) \/ Forget(a)
      PROVE  HeldQuiet' /\ \A u \in Throttles : Follows(u)'
  BY <1>8, TableFollows DEF WithheldDrive, WithheldFunctions, Withheld, Immediate, OthersSelect,
                            Forget
<1>9. CASE ExternalReport \/ Transmit \/ Collision \/ Disconnect \/ Reconnect \/ Reboot
  BY <1>9, ReportFollows, TransmitFollows, BusFollows, RebootFollows
<1>. QED BY <1>1, <1>2, <1>3, <1>4, <1>5, <1>6, <1>7, <1>8, <1>9 DEF Next

(* Once nothing is in flight and no disconnect is due, every throttle but  *)
(* those whose slot was changed with no disconnect owed (not in use, by    *)
(* another throttle, by a refresh) shows what its slot holds.              *)
THEOREM DisplayAlwaysFollows == Spec => []DisplayFollows
<1>1. DisplayInv => DisplayFollows
  BY DEF DisplayInv, DisplayFollows, Settled, Follows, Concerned, ShowsMatch, ExpectedBy,
         Holding, InUse, Free
<1>. QED BY <1>1, DisplayInitially, DisplayStep, PTL DEF Spec

-----------------------------------------------------------------------------
(* The receiver: what the parser keeps of the bytes heard since the last    *)
(* opcode.                                                                  *)
Bytes == 0 .. 255
OfVariableLength(s) == OpcodeFixedLength(s[1]) = 0

\* A message being received: all of "since", its length known from the
\* opcode or from its second byte on.
Receiving ==
    /\ buffer = since
    /\ OfVariableLength(since) =>
           IF Len(since) = 1 THEN expected = 0
                             ELSE expected = since[2] /\ expected \in 3 .. MaxFrameBytes
    /\ ~OfVariableLength(since) => expected = OpcodeFixedLength(since[1])
    /\ expected # 0 => Len(since) < expected

\* One that is over: no byte more can make it a frame.
Over(s) ==
    /\ Len(s) >= 2
    /\ \/ OfVariableLength(s) /\ s[2] \notin 3 .. MaxFrameBytes
       \/ Len(s) >= FrameLength(s)

ParserSound ==
    /\ since \in Seq(Bytes) /\ buffer \in Seq(Bytes) /\ expected \in 0 .. MaxFrameBytes
    /\ since # <<>> => since[1] \in 128 .. 255
    /\ buffer # <<>> => Receiving
    /\ buffer = <<>> => expected = 0 /\ (since = <<>> \/ Over(since))

ReceiverInv == ParserSound /\ HearsEveryFrame

LEMMA FixedLengths ==
    ASSUME NEW b \in Bytes
    PROVE  /\ OpcodeFixedLength(b) \in {0, 2, 4, 6}
           /\ OpcodeFixedLength(b) <= MaxFrameBytes
BY LnFramesAssumption DEF OpcodeFixedLength, Bytes

LEMMA AfterReset == ASSUME buffer' = <<>>, expected' = 0, handed' = <<>>, since' = <<>>
                    PROVE  ReceiverInv'
<1>1. ~WholeFrame(<<>>)
  BY DEF WholeFrame
<1> QED
  BY <1>1, LnFramesAssumption DEF ReceiverInv, ParserSound, HearsEveryFrame

LEMMA OpcodeSound ==
    ASSUME ReceiverInv, NEW b \in BusBytes, HearOpcode(b) PROVE ReceiverInv'
<1>1. b \in Bytes /\ b \in 128 .. 255
  BY LnFramesAssumption DEF HearOpcode, IsOpcode, Bytes
<1>2. <<b>> \in Seq(Bytes) /\ Len(<<b>>) = 1 /\ <<b>>[1] = b /\ <<b>> # <<>>
  BY <1>1
<1>3. ~WholeFrame(<<b>>)
  BY <1>2 DEF WholeFrame
<1>4. OpcodeFixedLength(b) \in {0, 2, 4, 6} /\ OpcodeFixedLength(b) \in 0 .. MaxFrameBytes
  BY <1>1, FixedLengths, LnFramesAssumption
<1>5. since' = <<b>> /\ buffer' = <<b>> /\ expected' = OpcodeFixedLength(b) /\ handed' = <<>>
  BY DEF HearOpcode, Silent
<1>6. HearsEveryFrame'
  BY <1>2, <1>3, <1>5, LnFramesAssumption DEF HearsEveryFrame
<1>7. Receiving'
  BY <1>2, <1>4, <1>5 DEF Receiving, OfVariableLength
<1> QED
  BY <1>1, <1>2, <1>4, <1>5, <1>6, <1>7 DEF ReceiverInv, ParserSound

\* A byte more changes neither the first two nor what is over.
LEMMA OneMore ==
    ASSUME NEW s \in Seq(Bytes), NEW b \in Bytes
    PROVE  LET t == Append(s, b) IN
           /\ t \in Seq(Bytes) /\ Len(t) = Len(s) + 1 /\ t # <<>> /\ t[Len(s) + 1] = b
           /\ \A i \in 1 .. Len(s) : t[i] = s[i]
OBVIOUS

LEMMA StaysOver ==
    ASSUME NEW s \in Seq(Bytes), NEW b \in Bytes, Over(s)
    PROVE  Over(Append(s, b)) /\ ~WholeFrame(Append(s, b))
<1> DEFINE t == Append(s, b)
<1>1. t \in Seq(Bytes) /\ Len(t) = Len(s) + 1 /\ Len(s) \in Nat /\ Len(s) >= 2
      /\ t[1] = s[1] /\ t[2] = s[2] /\ s[1] \in Bytes /\ s[2] \in Bytes
  BY OneMore DEF Over
<1>2. FrameLength(t) = FrameLength(s) /\ (OfVariableLength(t) <=> OfVariableLength(s))
  BY <1>1 DEF FrameLength, OfVariableLength
<1>3. FrameLength(s) \in Nat /\ (OfVariableLength(s) => FrameLength(s) = s[2])
  <2>1. OpcodeFixedLength(s[1]) \in {0, 2, 4, 6}
    BY <1>1, FixedLengths
  <2>2. s[2] \in Nat
    <3>1. s[2] \in Bytes
      BY <1>1
    <3>2. Bytes \subseteq Nat
      BY DEF Bytes
    <3> QED
      BY <3>1, <3>2
  <2> QED
    BY <2>1, <2>2 DEF FrameLength, OfVariableLength
<1> HIDE DEF t
<1>4. Over(t)
  BY <1>1, <1>2, <1>3 DEF Over
<1>5. ~WholeFrame(t)
  <2>1. CASE OfVariableLength(s) /\ s[2] \notin 3 .. MaxFrameBytes
    BY <2>1, <1>1, <1>2, <1>3, LnFramesAssumption DEF WholeFrame, OfVariableLength
  <2>2. CASE Len(s) >= FrameLength(s)
    BY <2>2, <1>1, <1>2, <1>3 DEF WholeFrame
  <2> QED
    BY <2>1, <2>2 DEF Over
<1> QED
  BY <1>4, <1>5 DEF t

LEMMA StraySound ==
    ASSUME ReceiverInv, NEW b \in BusBytes, HearStray(b) PROVE ReceiverInv'
<1>1. b \in Bytes /\ since \in Seq(Bytes) /\ buffer = <<>> /\ buffer' = <<>>
      /\ expected' = 0 /\ handed' = <<>>
  BY LnFramesAssumption DEF HearStray, Silent, ReceiverInv, ParserSound, Bytes
<1>2. CASE since = <<>>
  <2>1. since' = <<>>
    BY <1>2 DEF HearStray, Data, Noted
  <2> QED
    BY <1>1, <2>1, AfterReset
<1>3. CASE since # <<>>
  <2>1. since' = Append(since, b)
    BY <1>3 DEF HearStray, Data, Noted
  <2>2. Over(since') /\ ~WholeFrame(since')
    BY <1>1, <1>3, <2>1, StaysOver DEF ReceiverInv, ParserSound
  <2>3. since' \in Seq(Bytes) /\ since'[1] = since[1] /\ since[1] \in 128 .. 255
    <3>1. Len(since) \in Nat /\ Len(since) # 0
      BY <1>1, <1>3
    <3>2. 1 \in 1 .. Len(since)
      BY <3>1
    <3> QED
      BY <3>2, <1>1, <1>3, <2>1, OneMore DEF ReceiverInv, ParserSound
  <2>4. HearsEveryFrame'
    BY <1>1, <2>2, LnFramesAssumption DEF HearsEveryFrame
  <2> QED
    BY <1>1, <2>2, <2>3, <2>4, LnFramesAssumption DEF ReceiverInv, ParserSound
<1> QED
  BY <1>2, <1>3

\* What a data byte finds when a message is being received.
LEMMA InMessage ==
    ASSUME ReceiverInv, NEW b \in BusBytes, buffer # <<>>, Data(b)
    PROVE  /\ Receiving /\ buffer = since /\ b \in Bytes /\ Len(since) \in Nat /\ Len(since) >= 1
           /\ since' = Append(since, b) /\ since' \in Seq(Bytes) /\ since' # <<>>
           /\ Len(since') = Len(since) + 1 /\ since'[Len(since) + 1] = b
           /\ \A i \in 1 .. Len(since) : since'[i] = since[i]
           /\ since'[1] = since[1] /\ since[1] \in 128 .. 255
           /\ (OfVariableLength(since))' <=> OfVariableLength(since)
<1>1. Receiving /\ buffer = since /\ b \in Bytes /\ since \in Seq(Bytes)
  BY LnFramesAssumption DEF ReceiverInv, ParserSound, Receiving, Bytes
<1>2. since' = Append(since, b)
  BY <1>1 DEF Data, Noted
<1>3. Len(since) \in Nat /\ Len(since) >= 1 /\ 1 \in 1 .. Len(since)
  BY <1>1
<1>4. /\ since' \in Seq(Bytes) /\ since' # <<>>
      /\ Len(since') = Len(since) + 1 /\ since'[Len(since) + 1] = b
      /\ \A i \in 1 .. Len(since) : since'[i] = since[i]
  BY <1>1, <1>2, OneMore
<1>5. since'[1] = since[1] /\ since[1] \in 128 .. 255
  BY <1>1, <1>3, <1>4 DEF ReceiverInv, ParserSound
<1> QED
  BY <1>1, <1>2, <1>3, <1>4, <1>5 DEF OfVariableLength

LEMMA BadCountSound ==
    ASSUME ReceiverInv, NEW b \in BusBytes, HearBadCount(b) PROVE ReceiverInv'
<1>1. buffer # <<>> /\ Data(b) /\ expected = 0 /\ Len(buffer) = 1 /\ b \notin 3 .. MaxFrameBytes
      /\ buffer' = <<>> /\ expected' = 0 /\ handed' = <<>>
  BY DEF HearBadCount, IsCount, Dropped, Silent
<1>2. /\ Receiving /\ buffer = since /\ b \in Bytes /\ since' \in Seq(Bytes) /\ since' # <<>>
      /\ Len(since') = Len(since) + 1 /\ since'[Len(since) + 1] = b
      /\ since'[1] = since[1] /\ since[1] \in 128 .. 255
      /\ (OfVariableLength(since))' <=> OfVariableLength(since)
  <2>1. buffer # <<>> /\ Data(b)
    BY <1>1
  <2> QED
    BY <2>1, InMessage
<1>3. Len(since') = 2 /\ since'[2] = b /\ since'[1] \in 128 .. 255
  <2>1. Len(since) = 1
    BY <1>1, <1>2
  <2>2. Len(since) + 1 = 2
    BY <2>1
  <2>3. since'[Len(since) + 1] = b /\ Len(since') = Len(since) + 1
    BY <1>2
  <2> QED
    BY <2>2, <2>3, <1>2
<1>4. OfVariableLength(since)
  BY <1>1, <1>2, FixedLengths DEF Receiving, OfVariableLength
<1>5. Over(since')
  BY <1>1, <1>2, <1>4, <1>3 DEF Over, OfVariableLength
<1>6. ~WholeFrame(since')
  BY <1>1, <1>2, <1>4, <1>3 DEF WholeFrame, FrameLength, OfVariableLength, Bytes
<1>7. HearsEveryFrame'
  BY <1>1, <1>6, LnFramesAssumption DEF HearsEveryFrame
<1> QED
  BY <1>1, <1>2, <1>5, <1>7, <1>3, LnFramesAssumption DEF ReceiverInv, ParserSound

\* The length of a message that goes on, as it is known with the next byte.
LEMMA LengthKnown ==
    ASSUME ReceiverInv, NEW b \in BusBytes, Continues(b)
    PROVE  /\ LengthWith(b) = FrameLength(since') /\ FrameLength(since') \in 2 .. MaxFrameBytes
           /\ (OfVariableLength(since))' => LengthWith(b) = since'[2] /\ since'[2] >= 3
           /\ Len(since') <= LengthWith(b)
<1>1. buffer # <<>> /\ Data(b) /\ (IsCount => b \in 3 .. MaxFrameBytes)
  BY DEF Continues
<1>2. /\ Receiving /\ buffer = since /\ b \in Bytes /\ Len(since) \in Nat /\ Len(since) >= 1
      /\ Len(since') = Len(since) + 1 /\ since'[Len(since) + 1] = b
      /\ \A i \in 1 .. Len(since) : since'[i] = since[i]
      /\ since'[1] = since[1] /\ since[1] \in 128 .. 255
      /\ (OfVariableLength(since))' <=> OfVariableLength(since)
  BY <1>1, InMessage
<1>3. OpcodeFixedLength(since[1]) \in {0, 2, 4, 6} /\ OpcodeFixedLength(since[1]) <= MaxFrameBytes
  <2>1. since[1] \in Bytes
    BY <1>2 DEF Bytes
  <2> QED
    BY <2>1, FixedLengths
<1>4. CASE ~OfVariableLength(since)
  BY <1>2, <1>3, <1>4, LnFramesAssumption
     DEF Receiving, LengthWith, IsCount, FrameLength, OfVariableLength
<1>5. CASE OfVariableLength(since) /\ Len(since) = 1
  BY <1>1, <1>2, <1>5, LnFramesAssumption
     DEF Receiving, LengthWith, IsCount, FrameLength, OfVariableLength
<1>6. CASE OfVariableLength(since) /\ Len(since) # 1
  <2>1. 2 \in 1 .. Len(since)
    <3>1. PICK n \in Nat : n = Len(since)
      BY <1>2
    <3>2. n >= 1 /\ n # 1
      BY <3>1, <1>2, <1>6
    <3>3. 2 \in 1 .. n
      BY <3>2
    <3> QED
      BY <3>1, <3>3
  <2>2. since'[2] = since[2]
    <3>1. \A i \in 1 .. Len(since) : since'[i] = since[i]
      BY <1>2
    <3> QED
      BY <3>1, <2>1
  <2> QED
    BY <2>1, <2>2, <1>2, <1>6, LnFramesAssumption
       DEF Receiving, LengthWith, IsCount, FrameLength, OfVariableLength
<1> QED
  BY <1>4, <1>5, <1>6

LEMMA MoreSound ==
    ASSUME ReceiverInv, NEW b \in BusBytes, HearMore(b) PROVE ReceiverInv'
<1>1. Continues(b) /\ buffer # <<>> /\ Data(b) /\ Len(buffer) + 1 # LengthWith(b)
      /\ buffer' = Append(buffer, b) /\ expected' = LengthWith(b) /\ handed' = <<>>
  BY DEF HearMore, Continues, Silent
<1>2. /\ Receiving /\ buffer = since /\ Len(since) \in Nat /\ Len(since) >= 1
      /\ since' = Append(since, b) /\ since' \in Seq(Bytes) /\ since' # <<>>
      /\ Len(since') = Len(since) + 1 /\ since'[1] = since[1] /\ since[1] \in 128 .. 255
  BY <1>1, InMessage
<1>3. /\ LengthWith(b) = FrameLength(since') /\ FrameLength(since') \in 2 .. MaxFrameBytes
      /\ (OfVariableLength(since))' => LengthWith(b) = since'[2] /\ since'[2] >= 3
      /\ Len(since') <= LengthWith(b)
  BY <1>1, LengthKnown
<1>4. Len(since') < LengthWith(b) /\ buffer' = since'
  BY <1>1, <1>2, <1>3
<1>5. ~WholeFrame(since')
  BY <1>2, <1>3, <1>4 DEF WholeFrame
<1>6. HearsEveryFrame'
  BY <1>1, <1>2, <1>3, <1>4, <1>5, LnFramesAssumption DEF HearsEveryFrame
<1>7. Receiving'
  BY <1>1, <1>2, <1>3, <1>4 DEF Receiving, OfVariableLength, FrameLength
<1> QED
  BY <1>1, <1>2, <1>3, <1>4, <1>6, <1>7, LnFramesAssumption DEF ReceiverInv, ParserSound

LEMMA LastSound ==
    ASSUME ReceiverInv, NEW b \in BusBytes, HearLast(b) PROVE ReceiverInv'
<1>1. Continues(b) /\ buffer # <<>> /\ Data(b) /\ Len(buffer) + 1 = LengthWith(b)
      /\ handed' = (IF ChecksumValid(Append(buffer, b)) THEN Append(buffer, b) ELSE <<>>)
      /\ buffer' = <<>> /\ expected' = 0
  BY DEF HearLast, Continues, Dropped
<1>2. /\ Receiving /\ buffer = since /\ Len(since) \in Nat /\ Len(since) >= 1
      /\ since' = Append(since, b) /\ since' \in Seq(Bytes) /\ since' # <<>>
      /\ Len(since') = Len(since) + 1 /\ since'[1] = since[1] /\ since[1] \in 128 .. 255
  BY <1>1, InMessage
<1>3. /\ LengthWith(b) = FrameLength(since') /\ FrameLength(since') \in 2 .. MaxFrameBytes
      /\ (OfVariableLength(since))' => LengthWith(b) = since'[2] /\ since'[2] >= 3
      /\ Len(since') <= LengthWith(b)
  BY <1>1, LengthKnown
<1>4. Len(since') = FrameLength(since') /\ Len(since') >= 2
  BY <1>1, <1>2, <1>3
<1>5. WholeFrame(since') <=> ChecksumValid(since')
  BY <1>3, <1>4 DEF WholeFrame, OfVariableLength
<1>6. HearsEveryFrame'
  BY <1>1, <1>2, <1>5, LnFramesAssumption DEF HearsEveryFrame
<1>7. Over(since')
  BY <1>4, <1>3 DEF Over
<1> QED
  BY <1>1, <1>2, <1>6, <1>7, LnFramesAssumption DEF ReceiverInv, ParserSound

(* A frame reaches the slots exactly when its last byte has been heard, for *)
(* any bytes before it and any greatest length the buffer can have.         *)
THEOREM FramesAreHeard == Receiver => []HearsEveryFrame
<1>1. Quiet => ReceiverInv
  <2>1. ~WholeFrame(<<>>)
    BY DEF WholeFrame
  <2> QED
    BY <2>1, LnFramesAssumption DEF Quiet, ReceiverInv, ParserSound, HearsEveryFrame
<1>2. ReceiverInv /\ [Listen]_parser => ReceiverInv'
  <2> SUFFICES ASSUME ReceiverInv, [Listen]_parser PROVE ReceiverInv'
    OBVIOUS
  <2>1. CASE UNCHANGED parser
    BY <2>1 DEF parser, ReceiverInv, ParserSound, HearsEveryFrame, Receiving
  <2>2. CASE Pause \/ StartOver
    BY <2>2, AfterReset DEF Pause, StartOver, Dropped, Silent
  <2>3. ASSUME NEW b \in BusBytes, Hear(b) PROVE ReceiverInv'
    BY <2>3, OpcodeSound, StraySound, BadCountSound, MoreSound, LastSound DEF Hear
  <2> QED
    BY <2>1, <2>2, <2>3 DEF Listen
<1>3. ReceiverInv => HearsEveryFrame
  BY DEF ReceiverInv
<1> QED
  BY <1>1, <1>2, <1>3, PTL DEF Receiver

=============================================================================
