# Verification of the XpressNet / ECoS bridge

TLA+ models of the bridge in `src/xpressnet_ecos_bridge/`, TLC configurations
that check them on small instances, and TLAPS proofs of the properties that
matter most for instances of any size.

- [1 The system](#1-the-system)
- [2 Modules](#2-modules)
- [3 Runs](#3-runs)
- [4 Proofs](#4-proofs)
- [5 Disagreements found](#5-disagreements-found)
- [6 Not modelled](#6-not-modelled)
- [7 Plan](#7-plan)

## 1 The system

The bridge is an ESP8266 that lets the throttles of three protocols drive the
locomotives of an ESU ECoS command station. It acts as command station on an
XpressNet bus, as a UDP server for Z21 apps, and as a LocoNet master; it talks
to ECoS over one TCP connection. A single cooperative `loop()` calls every
component's `update()`; no interrupt or thread touches the state modelled
here. What makes the system hard is not pre-emption but time: commands, echoes
and events that are in flight while newer ones are made, work that is paced
over many passes of the loop, a connection that fails, and small fixed tables.

| Component | State | Operations | What makes it correct |
|---|---|---|---|
| `StateEngine` (`state_engine.cpp`) | array of at most `MAX_LOCOS` `LocoState` entries | add/update, look up, read and write by index, remove, expire after 5 min, clear | one entry per address; expiry skips nobody and reports everybody it removes; order kept for users of indices |
| `CommandRouter` (`command_router.cpp`) | the table, `echo_state`, the noted function bits, turnout table | one handler per protocol for drive, function, turnout; ECoS events; emergency stop, resume; expiry sweep every 30 s | the table, ECoS and all throttles agree once nothing is in flight; the last command wins; echoes are not fed back, news is not taken for an echo |
| `EcosInterface` (`ecos_interface.cpp`) | connection status, address map, last function bitmap sent per loco, pending-command buffer, baseline query, paced function send, re-subscription walk | `update()`, sends, `handleReply()`, subscribe, release | nothing is written into a dead connection; waiting commands arrive in order and only the newest; views and run state are restored after a failure; it always recovers |
| `CommandRouter`, turnouts and run state | `known_accessories[]`, the stop state of each protocol | throw, event, query; `emergencyStopAll()`, `resumeOperation()` | every protocol shows a turnout where ECoS has it; stop and resume from any side end up the same everywhere |
| `EcosInterface`, accessories | accessory address map that outlives connections, subscription walk | `queryAccessoryAddressMap()`, one subscribe step per pass | positions changed while away are learnt |
| ECoS parser and command builder | a line and a block being assembled, a bounded queue of replies | `processByte()`, `ecosBuild...Cmd()` | every complete block yields its replies in order, whatever the fragmentation and however the last connection broke off |
| `XpressNetInterface`, `XpressNetMaster` | poll address, transmit ring of 12, slot of each loco, `RefreshKnown`, refresh queue | windows, 30 request types, refreshes, sends of the router | answers go to the device asked; what others change is overheard by every throttle; every device is polled |
| `LnSlotServer`, `LocoNetInterface` | 20 slots, dispatch slot, reply queue of 8, transmitter, owed disconnect | slot requests, moves, writes, commands, expiry; transmit with retries; bus disconnect to make throttles read again | slot and table are brought together again wherever the code can; a slot is not taken from a throttle that uses it; the throttle's display follows |
| LocoNet frame parser | bytes of the frame so far | `feed()`, `tick()` | every valid frame after any noise is heard |
| `Z21LanInterface` and codec | 4 clients with 8 subscriptions each, emergency stop flag | data sets of a datagram, broadcasts, client expiry | a client is told what it asked for, truthfully, for as long as its session lasts |
| Setup Mode | EEPROM sector, one-shot request in RTC memory, `g_config` | boot, button, Wi-Fi fallback, save, upload | the bridge runs only with settings that were stored completely; a request counts once |
| Main loop | timers | | handlers do not interleave |
| Display, logging, OTA | none that affects trains | | |

Interactions: throttle interfaces call the router, which updates the table,
calls `EcosInterface` and the other throttle interfaces, and sets the echo
attribution. `EcosInterface::handleReply()` calls the router back with every
event. ECoS reports a change to everyone who views the loco, *including the
bridge that caused it*; that echo is the source of most of the difficulty.

## 2 Modules

| Module | Models |
|---|---|
| `LocoRegister` | abstract: what users of the loco table rely on, a bounded map from address to state that ages |
| `StateEngine` | the array and every operation on it; the expiry loop one round per step |
| `MCStateEngine` | the instance for TLC and the refinement mapping to `LocoRegister` |
| `StateEngineProofs` | inductive invariant and theorems about `StateEngine`; that the array implements the map |
| `CommandRouter` | drive and function commands of all protocols, events, echo attribution, subscription, expiry, with the connection in order and up |
| `MCCommandRouter`, `CommandRouterProofs` | instances for TLC; that table, ECoS and displays agree |
| `EcosLink` | the connection to ECoS through failures, with the commands that wait for it, re-subscription and emergency stop |
| `EcosParser` | the parser under `EcosLink`, and ECoS sending it blocks that a failure may cut short |
| `MCEcosLink`, `EcosLinkProofs` | both of them for TLC; order, delivery, run state and views through failures; that the parser gets back in step |
| `Layout`, `MCLayout` | turnouts and run state from ECoS and three protocols, with the accessory map |
| `LayoutProofs` | that the turnouts and the run state agree |
| `LocoNet`, `LnFrames`, `MCLocoNet` | slot server, transmitter and the throttles on the bus; the frame parser and the bytes it hears |
| `LocoNetProofs` | that slots hold what the table holds and are not taken away, that displays follow, and that every frame is heard |
| `ByteBits` | bytes and their bits, for the two codecs |
| `Z21Lan`, `Z21Codec`, `MCZ21Lan` | the UDP server; its conversions as functions |
| `Z21LanProofs` | type correctness and two invariants of the UDP server; that its conversions lose nothing |
| `XNetMaster`, `XNetCodec`, `MCXNetMaster` | the bus master and the callbacks over it; conversions and checksums as functions |
| `XNetMasterProofs` | that answers are booked to their sender, that changes are mirrored, that no device starves, and that its conversions lose nothing |
| `SetupMode`, `MCSetupMode`, `SetupModeProofs` | configuration and boot through power cuts; its proofs |

`CommandRouter` has the router with a perfect connection and generic throttle
protocols; the other modules each take one neighbour of it in detail and
reduce the rest to the loco table and to what the router may do to that
neighbour at any moment. Their composition in one specification is out of
TLC's reach.

Each module lists, after its variables, a few "slips": definitions with the
name of another one and a suffix, such as `WithoutMovesLast`. They are the changes
used to see that a property notices a bug; no specification uses them.

### StateEngine

`locos` is the array `locos[0 .. loco_count-1]` (a sequence, so index 1 is the
code's 0); an entry has its address, its contents as one value (`val`) and its
age in ticks since `last_update_ms`. `AddLoco` and `UpdateLoco` are the two
halves of `addOrUpdateLoco()`, `WriteByIndex` a caller that writes through
`getLocoByIndex()` (`emergencyStopAll()`), which does not make the entry
younger. `expungeInactiveLocos()` is `StartExpunge` and then one `ExpungeStep`
per round: `sweep` is the loop's index and `removed` the array it fills. No
other operation runs during a sweep, which is how the loop works; the rounds
are separate steps so that the invariants are about the loop, not its result.

### CommandRouter

One variable per piece of state the code keeps: `locos` (as a map from
address; that the array is one is what `StateEngine` shows), `echo`, `bits`,
`lastSent`, `baseline`, `fnSweep`. `toEcos` and `fromEcos` are the two
directions of the TCP stream, `station` the ECoS, `shown` what each throttle
protocol displays, i.e. the last it did or was told.

Four variables are history. `wish` is what was asked for: by whom, which drive
last, and whether a function press has sent another speed since (`resent`; see
`FunctionResendsSpeed` in section 5). `lost` has the properties of a loco that
were still to be queried or sent when another loco took over the one place for
that work (`Baseline`, `FnSweep`): nothing asks for them later. `stale` has the
throttles whose display is older than the loco's entry: nobody tells them that a
loco was forgotten and came back with default values, or that their command was
refused by a full table. The next message to a throttle about the loco ends that. `revived` has the locos
whose entry was made by an event, which requests no view (`handleEcosCommand()`,
"New from Ecos"), until they leave the table.

- `ThrottleDrive` and `ThrottleFunctions` stand for the drive and the function
  handler of the three protocols, which are the same code three times: update
  the table, subscribe when the loco is new, broadcast, attribute. XpressNet
  and LocoNet send groups of functions, Z21 one; `Bitmaps` is what each makes
  of a press. `broadcastCommand()` sends speed and direction with *every*
  command, functions included.
- `ThrottleSelect` is `trackLocoForThrottle()` and the reply to the throttle,
  `TableFull` the refusal by a full table.
- `EcosDrive` and `EcosFunction` are `handleReply()` with the router's event
  handlers: merge, decide whether it is an echo, tell the others.
- `PacedStep` is one pass of the loop for the baseline query and the paced
  function bitmap.
- `WindowCloses` and `BitsWindowCloses` are the 4 s attribution window running
  out, at any time; `Expire` is the 5 min expiry, which can happen only after
  traffic about the loco has ceased (that is what the guard says).
- `StationStep` and `Operator` are the ECoS, from how the bridge uses it:
  commands in order, `get` answered, changes reported to whoever views.

Speeds are a few values, functions a few names of which some are inverted on
ECoS (`ECOS_INVERTED_FUNCTIONS`). A loco appears as its address; the map to
object ids is part of `EcosLink`.

### EcosLink

`status` is `current_status`. `net` says what the network allows: everything,
Wi-Fi but no ECoS, or no Wi-Fi. `socket` is whether the TCP connection is
really open, which the bridge finds out later. `addrMap`, `pending`, `resub`,
`baseline` and `locos` are the code's; `running` is the stop/go state the
router last handed to the throttle protocols.

- `Connect`, `ConnectFails`, `AwaitWifi`, `LoseConnection` are the branches of
  `updateConnectionStatus()`. Connecting clears nothing but starts the
  re-subscription; losing the connection clears the address map, on both of
  the branches that notice it.
- `Pass` is the rest of `update()`: at most one message is read (`ReadReply`),
  then the buffer is flushed, the baseline query and the re-subscription
  advance. A pass of the code that reads several messages is several of these.
- `ThrottleDrive` writes, or queues when the address is not in the map;
  `ThrottleStop` and `ThrottleGo` are `emergencyStopAll()` and
  `resumeOperation()`; stop and go from ECoS arrive in `ReadReply`.
- `Deadline` is the 20 s of `resubscribe_deadline_ms`: enough for all locos the
  map knows, so that it ends only a walk that waits for one it does not know.
- `NetworkChanges` and `StationCloses` are the failures. When a session ends
  everything in flight is lost and ECoS forgets its views; it may have
  restarted, in STOP.

The history variables say what was promised: `wish` the speed last asked for,
void when its command was on the wire of a session that ended or was refused
by a full buffer; `halted` the locos stopped and not driven since; `clean`
that the re-subscription walk met neither an unknown loco nor an expiry.

### EcosParser

`line`, `entries`, `open` and `header` are the parser's `line_buffer`,
`block_replies`, `block_in_progress` and `block_header_object_id`. What it is fed are
words of unit length (`Number`, `Pair`, `Function`, markers, `Junk`) and
newlines: `TakeWord` is `processByte()` with the limit on the line, `TakeNewline` is
`processLine()` for a whole line, in the cases `StartLine`, `EndLine`, `ContentLine` and
`IgnoredLine`. At the end of a block `given` gets everything
`getNextQueuedReply()` hands to `update()`, which drains it at once. ECoS sends one
block after the other, its lines between two markers (`Row`). The connection
may break off between two words or in the middle of one (`Shortened`), and a
new one begins with a new block; nothing calls `reset()`, so the parser goes on with the
line it had.

`inStep` remembers whether the parser was at the start of a line when
the block began, `cut` whether the block was broken off. `Resynchronises` says that
after any whole block the parser is at the start of a line again, and that of a
block begun there exactly what it says (`Meant`) is handed on, at its end and
not before. Only the block after a broken one may be lost, glued to
its remains. A line that is too long costs the whole block, although the comment
at `ecos_message_parser.h:194-195` speaks of the line only; `Meant` says so.

### Layout

`map`, `known`, `connected` are the code's. `shown`, `xnetPower`, `z21Stop` and
`trk` are what each protocol's throttles were last told. `update()` is a
`ReadReply` for each reply it finds, with `reading` set from the first one on, and
an `EndPass`, which takes one step of the accessory subscription walk. While
`reading` is set nothing else of the bridge runs, and the connection is not given
up, as that is decided at the start of `update()`; the ECoS may act. The list of
accessories comes as one `Object` message for each. Connecting asks for ECoS's run
state and forgets which accessories are viewed (`Unsubscribed`), but not the map.
`Readdress` is an operator editing an address at ECoS, and `edited` is the history
of addresses that was done to, with those two objects have from the start. The cache of positions
is never emptied and has `MAX_KNOWN_ACCESSORIES` places; when it is full, Z21
answers a query about another turnout with "straight", XpressNet with "not
controlled", also for turnouts ECoS has reported.

### LocoNet

`slot`, `dispatch`, `expired`, `resync`, `replies`, `attempts`, `held` are the
code's; `older` is the order of `last_use_ms`. The throttles are modelled from
how the code and its comments describe a Digitrax throttle, and are marked
external. All see every frame. `LocoAdr`, `NullMove`, `WriteSlot`,
`Command`, `Release`, `ReadSlot`, `DispatchPut` and `DispatchGet` are the branches of
`handleFrame()`; `ExternalDrive` and `ExternalFunctions` the calls of the
router; `Transmit` and `Collision` are `serviceTransmit()`;
`Disconnect` and `Reconnect` the bus held low, which makes throttles read
their slots again; `Reboot` the bridge restarting under running throttles.

A slot is a second copy of what the router's table holds of the loco: its drive
state, and F0 to F8. A throttle's command changes the slot and is routed to the
table (`Route`); a change from elsewhere changes the table and every slot of the loco
(`External`); and a request, a selection or a read after a disconnect
loads the slot from the table (`Refreshed`). `table` and `known` are that table, with room for
`MaxLocos`. Four things part the copies, and the history variable `parted`
has, for each loco, the part (`drive`, `fns`) they may differ in:

- `WithheldDrive`, `WithheldFunctions`: an event of ECoS is stored and then kept from
  LocoNet as the echo of a LocoNet command (`command_router.cpp:1128`). An older echo
  arriving after a newer command does that, and so does an operator at ECoS within 4 s.
- A full table refuses the command (`command_router.cpp:394`); the slot has it already.
- `Forget`: the table expires the loco. Its slot lives on, for a refresh finds nothing to
  load (`loconet_slots.cpp:155-157`).
- `Immediate`: a DCC packet for F5 to F8 goes to the router and not to a slot
  (`loconet_slots.cpp:591-593`).

A routed command of that part, a change passed on from elsewhere, or a refresh from a
table that has the loco ends it. `SlotsAgree` says that the copies agree in
everything that is not parted.

`LnFrames` is `LnFrameParser` under it. `buffer` and `expected` are its state and
`handed` the frame the last byte completed; the branches of `feed()` are one action each
(`HearOpcode`, `HearStray`, `HearBadCount`, `HearMore`, `HearLast`), `Pause` is `tick()` with the
timeout gone by, `StartOver` the `reset()` after a collision or a disconnect.
The bus carries any bytes in any order, so also frames cut short, run together or
damaged. `since` is history: the bytes from the last opcode on. `HearsEveryFrame`
compares what the parser does byte by byte with a look at all of them at once
(`WholeFrame`).

`written` and `missed` record what the code gives up: a loco whose slot a
throttle filled itself after a reboot, and a throttle whose slot changed
without a resynchronisation being owed for it. That is a throttle that gets its
slot from a read queued before the slot changed, when no disconnect is pending; and one
whose slot changed while it was not in use, for instance after another
throttle's probe demoted it from IN_USE to COMMON. It is also every throttle on a slot
whose copy a refresh corrects while no disconnect is pending (`Silently`): `refreshFromLookup()` marks
no slot as changed, so the others on it depend on the one read that
answers the request. A read that is up to date ends it.

### Z21Lan

A datagram is a `Packet` that finds or makes the sender's place, then any number
of `DataSet`s, then `EndOfPacket`; `current` is the place they are handled for.
`told` is what the current session has been *sent*: loss on the network is
outside the bridge. `asked` and `muted` are what the client wanted. `withheld`
marks the locos whose last change the router kept from Z21 because it took it
for an echo (`Forget`, `ChangedUnheard`); an expired loco that its client only
drives is not subscribed again. Place 0 is a fifth client: its data sets are
executed, it is told nothing.

### XNetMaster

`tx` is the ring, counted from `get`: `Queued` is `XNetsend()`, which
never looks whether there is room, and `overrun` remembers that an unsent
message was overwritten. `update()` is taken apart where it loops. First comes
what ends a window: a `Timeout`, or an `Answer` with everything
`XNetAnalyseReceived()` does for it and the replies sent at once (`Received`). Then
`FlushPlace` takes one place of the refresh queue after the other, passing over those not due
(`Rested`: 100 ms between refreshes of one loco), and `OpenWindow` picks the
next address (`Poll`), puts its call byte behind the refreshes and empties the ring.
`place` says how far that is; it is 0 in a window, and the steps of `Others`,
the router's, happen only then, since nothing interrupts `update()`. `QueueLocoRefresh` merges what is still to
be sent. `bus` is what a throttle has learnt from messages it acts on.

`unshown` marks what the code gives up: functions above F12; a change dropped
because the refresh queue was full (the comment at `XpressNetMaster.cpp:989-997`
expects the next change to send it, but `RefreshKnown` already holds it); speeds set to 0 by an emergency
stop, which queues no refresh; a refresh older than what a throttle sent
meanwhile.

### SetupMode

The settings are groups of fields; `Own` are those without a default, the
bridge's own address. `Load`, `Decide` are the two halves of `setup()`; power
may go between and during them, `Committed` is what a rewritten flash sector
can hold after a cut or an error. A torn sector is taken to fail its checksum.
`settings` is history: the form stored last. `Update` installs any other
firmware version, older ones included.

## 3 Runs

Small numbers are enough because every mechanism is per loco, or has exactly
one slot for all locos: two locos compete for such a slot as any number does,
and a table or buffer with one place fills as one with fifty does.

| Run | Bounds | Shows |
|---|---|---|
| `StateEngine` | four valid addresses and an invalid one, three places; stale after two ticks | all operations keep the array sound; it implements `LocoRegister`; what nobody touches is forgotten |
| `RouterDrive` | one loco, three protocols, an operator | table, ECoS and displays agree on speed and direction when quiet; the last command wins |
| `RouterFunctions` | one loco, an inverted function, two protocols and an operator | the same for functions |
| `RouterIdle` | two locos, one place; the operator drives one of them | refusal, expiry, release, re-subscription, events that cross the release |
| `EcosLink` | three addresses, two of them on ECoS, two table places, a buffer of one, two actions, two failures; for the parser seven blocks, lines of five words, two entries, two broken blocks | order in the buffer, restored views and run state, recovery; the parser finds its step again |
| `Layout` | two turnouts, cache for one, map for two; two actions, one re-addressing, one lost connection | positions and run state agree everywhere once nothing is in flight |
| `LocoNet` | two slots, three locos with room for two in the table, two throttles, one function, a reply queue of two, two attempts; four actions, two damaged frames; for the receiver nine byte values, a buffer of six and seven bytes after an opcode | slots agree with the table in all that is not parted, are not taken from their user, and displays follow; the frame parser hears every frame after noise |
| `Z21Lan` | three clients for two places, one subscription each; five data sets or changes by others | subscribers are told the truth; takeovers and expiry leave nothing behind; the codec loses nothing |
| `XNetMaster` | two devices, two locos, ring of 12, one place each in the refresh queue and in `RefreshKnown`; three actions | answers are booked to their sender, changes are mirrored, every address is polled, bytes keep their meaning |
| `SetupMode` | two groups of settings, one of them without defaults, two firmware versions, two values; nothing is bounded | the settings in use are the ones stored last, or it is Setup Mode with a reason |
| `StopUndone`, `QueueNeverOverflows` | as small as the case needs | the disagreements of section 5; TLC finds a counterexample |

`MaxOps` bounds throttle and operator actions and `MaxFaults` failures; nothing
bounds the ECoS, the loop or the network coming back. With two actions a
queued command is replaced, overtaken or stopped; with two failures a
connection fails again before it is restored. The ring of `XNetMaster` keeps
its real size, since what fits into it is the question: with three actions
it is filled and overrun. The poll address runs through a few slots and two rounds
of them; the bounds `PollingIsFair` gives are in terms of the two numbers, 32 and 256 in the
library. The limit of one pending refresh makes the queue full
with the second loco. In `LocoNet`, four actions find a slot, change its loco or the table from
elsewhere, withheld or not, and have it probed, released or taken over; taking a slot,
writing it and reading it again do not count.

`MCEcosLink` and `MCLocoNet` join two machines: a connection and the parser under it,
the slots and the receiver under them. The upper one takes as whole messages what the lower one makes
of bytes, so the two share no state, and one need not be checked in
every state of the other: either moves only while the other is where it starts. The blocks
of `MCEcosLink` are those of the repository's tests and captures, with an event, bare
answers, a repeated key, an unknown key, more entries than there are
places and a line too long. The byte values of `MCLocoNet` are an opcode of each
length, byte counts and checksum bytes; whole frames of two, four and six bytes
and one of variable length can be made of them, good and bad ones.

The conversions (`Z21Codec`, `XNetCodec`) are functions; they depend on no variable, and the MC
modules have what is said of them evaluated once, in the initial state:
`CodecKeepsState` and `BytesKeepState` compare each conversion with its
inverse in the code. One pair of conversions is not inverse, and `CodecKeepsState` says
just that: `z21BuildTurnoutInfo()` writes the router's turnout number as it is, while
`z21DecodeTurnoutCommand()` reads one more than the number on the wire (`WireAddressesAgree`, section 5). `WireAddr` and `FnSets` are the addresses and the sets of functions that are
converted: for TLC a sample around every boundary of the encodings, in the proofs
any addresses of 14 bits and any functions from F0 to F28. Speeds, slots and turnouts
are complete in both.

The configurations of the router and of LocoNet say `CHECK_DEADLOCK FALSE`:
once the actions are used up and the streams are empty there is nothing left
to do, which is the bound's doing. The others never stop and are checked for deadlock.

**Properties.** Agreement properties (`DriveAgrees`, `FunctionsAgree`,
`OthersShowDrive`, `BystandersShowAll`, `LastDriveWins`, `TurnoutsAgree`,
`StopAgrees`, `DisplayFollows`, `Mirrored`) are
about quiescent states: nothing in flight, no paced work left. They are false
in between by design, since commands are stored before ECoS confirms them, and
late echoes overwrite newer values for a moment.
`LastDriveWins` excludes a loco to which a function press has sent another
speed than the one asked for; `DriveAgrees` and `FunctionsAgree` exclude the
properties in `lost`. Without these exceptions they are false:
`LastDriveAlwaysWins` and `TableAlwaysAgrees`, section 5. `OthersShowDrive`
excludes the loco's last driver and `BystandersShowAll` everyone who has
commanded it: towards these the bridge suppresses echoes, and when an older
echo has changed the table meanwhile the suppressed one would have been the
correction. That their display can then be stale is a known limit
(`command_router.cpp:1089-1093` accepts it), so the properties say exactly
whose display can be trusted. Both leave out the displays in `stale`. The exceptions of the other modules
(`withheld`, `missed`, `written`, `parted`, `revived`, `unshown`, `edited`, `clean`) are history variables
that grow in the very actions where the code gives something up; section 2
says which these are.

An agreement property with such an exception does not catch the hazard the
exception is named for; it shows that this is the *only* way to lose agreement.
The hazards of `PROJECT.json` say so in their notes: the function press that sends an
old speed (`resent`), the abandoned baseline query (`lost`), the event after a
release (`revived`), the throttle whose command a full table refused (`stale`), the
loco behind an unknown one (`clean`), frames a full reply queue drops, turnouts
beyond the cache, the overrun ring, and the refresh dropped by a full refresh queue
(`unshown`). Where the code falls short of a claim, section 5 has the counterexample.

**Fairness.** `StateEngine!FairSpec` assumes that the sweep starts and goes on,
because `loop()` calls `router.update()` every 30 s and a sweep is a loop.
`EcosLink!FairSpec` assumes weak fairness of the branches of `update()`, which
`loop()` calls for ever, of the deadline timer, and of ECoS processing what it
received *while it is reachable*. Nothing is assumed of the network:
`Recovers` is conditional on it staying up from some time on. All other
properties are safety properties and assume none. That a device is polled again and
again is the action property `PollingIsFair`: each window is its own or brings its turn
nearer, by a number that cannot fall for ever.

## 4 Proofs

| Theorem | Says, for all constants |
|---|---|
| `StateEngineProofs!TypeCorrect`, `SweepMissesNobody` | the invariants of the run `StateEngine` |
| `StateEngineProofs!NoSilentExpiry`, `OrderPreserved` | two of its action properties |
| `StateEngineProofs!AddressesUnique`, `RemovalsReportedOnce` | one entry per address; no address is reported twice: parts of the inductive invariant, not listed in a run of their own |
| `StateEngineProofs!Implements` | every step of `StateEngine` is a step of `LocoRegister` or none: the refinement of the same run |
| `CommandRouterProofs!TypeCorrect` | the router's type invariant |
| `CommandRouterProofs!DriveAlwaysAgrees`, `FunctionsAlwaysAgree` | `DriveAgrees` and `FunctionsAgree`: table and ECoS agree when quiet |
| `CommandRouterProofs!LastDriveAlwaysObeyed` | `LastDriveWins` |
| `CommandRouterProofs!OthersAlwaysShowDrive`, `BystandersAlwaysShowAll` | `OthersShowDrive` and `BystandersShowAll` |
| `CommandRouterProofs!ViewsAlwaysMatchTable` | `ViewsMatchTable`, for operators of any loco |
| `CommandRouterProofs!ForgottenAlwaysReleased` | the half of it without exceptions: ECoS does not go on reporting a loco that was dropped |
| `EcosLinkProofs!TypeCorrect`, `MapDiesWithConnection`, `QueueKeepsOrder`, `QueuedArrives` | the first four invariants of the run `EcosLink` |
| `EcosLinkProofs!RunStateAlwaysAgrees`, `ViewedAgain` | its `RunStateAgrees` and `ViewedAfterConnect` |
| `EcosLinkProofs!BlocksAreRead` | its `Resynchronises`, of the parser fed by `Stream` |
| `SetupModeProofs!TypeCorrect`, `RightMode` | the invariants of the run `SetupMode` |
| `SetupModeProofs!BootKeepsSettings` | stored settings disappear only while they are being replaced |
| `Z21LanProofs!TypeCorrect`, `StopsTold`, `SubscriptionsKept` | the first three invariants of the run `Z21Lan` |
| `LocoNetProofs!TypeCorrect`, `SlotsHoldTheTable`, `NoSlotIsTaken` | of the run `LocoNet`, the type invariant, `SlotsAgree` and `HeldKeepsLoco` |
| `LocoNetProofs!DisplayAlwaysFollows` | its `DisplayFollows` |
| `LocoNetProofs!FramesAreHeard` | its `HearsEveryFrame`, of the receiver on a bus of any bytes |
| `LayoutProofs!TypeCorrect`, `TurnoutsAlwaysAgree`, `StopAlwaysAgrees` | the invariants of the run `Layout` |
| `XNetMasterProofs!TypeCorrect`, `AnswersAlwaysForItself`, `AlwaysMirrored` | of the run `XNetMaster`, the type invariant, `AnswersForItself` and `Mirrored` |
| `XNetMasterProofs!NobodyStarves` | its action property `PollingIsFair` |
| `Z21LanProofs!CodecCorrect`, `XNetMasterProofs!MessagesCorrect` | `CodecKeepsState` and `BytesKeepState`, for every address and set of functions (`CodecLosesNothing`, `MessagesLoseNothing` without reference to a behaviour) |

The assumptions are the named `ASSUME`s of the modules: finitely many
addresses, bounds that are numbers, the constants' types.

*StateEngine.* `IInv` adds to the four invariants `RoomToReport`: during a
sweep the entries left and the addresses reported fit together into
`MAX_LOCOS`. It is what shows that `removed_out[]` never overflows; nothing
weaker is inductive, since each round may move one entry from the table to the
report. `OrderPreserved` follows from uniqueness: an entry is where its address
is, so it suffices that `removeLoco()` maps places monotonically.

*CommandRouter.* Type correctness is inductive. Its substance is that a command
or event never carries a value of another property (the stream is a sequence
of well-typed commands, through the paced steps and differences) and that
every path that adds a loco has checked for room. The agreement of table and
ECoS speaks of a quiet system; `AgreeInv` says what is on the way there, for each loco
and each property. ECoS *will view* a loco if no release is on the wire without a
request behind it. Then the loco is in the table, and a property that is
neither to be queried nor being queried is *followed*: the last event about it carries
what ECoS has; without an event the table has it, or a change is on the wire
or in the paced bitmap, and will be reported; and what differences are computed
against (`last_sent_functions`) is what the table has. A command changes the table and puts a `set` on
the wire; ECoS turns a `set` into a change and an event, or, when the value is
what it has already, into nothing, and that is the case in which the events before
it must already tell the truth. The echo attribution does not enter: it
decides whom to tell, not what to store. `WishInv` follows the last drive
command in the same way, by the last `set` on the wire. `DisplayInv` ties the attribution to
history: while the window is open, its source has commanded the loco, and, if a
drive command opened it, was its last driver; so whoever is not told is one
of those the property leaves out. That ECoS views no loco the table dropped follows from
`AgreeInv`, since a loco it will view is in the table. `ViewsInv` is the other direction, for
a loco that a throttle put into the table: ECoS will view it. An event that crosses the
release makes an entry of a loco that ECoS will not view. It counts among the
`revived` until it is forgotten again, and its release then finds no view to end. No
assumption is made about what the operator drives.

*EcosLink.* `TypeOK`, `NoStaleMap` and `NothingOvertakesQueue` are inductive
together. An empty map without a connection makes `sendSpeedCommand()` queue;
a queued command stays queued only while its address is not in the map; and
the pass that extends the map flushes with the extended map. The cardinality
bound on the buffer needs the finiteness lemmas of the library.
`QueuedSpeedArrives` speaks only of a settled system; what leads there is
`Promise`: for each loco the speed asked for last either waits in the buffer,
or is the last one for that loco on the wire with nothing left in the buffer,
or ECoS has it and neither wire nor buffer will change it; and a socket that
is closed has nothing on its wire (`Quiet`). Each action moves a loco along
these cases or voids the promise. The lemmas `EndsAppended`, `EndsStays` and
`EndsTail` say how the last command for a loco fares when commands are written
behind it or taken off in front; `FlushEnds` says that a flush writes each
waiting speed exactly once.
`RunNews` is the same kind of statement about stop and go: while connected, a
status query is on the wire with the watch in front of it, or ECoS tells of changes and either a stop or go
on the wire will change it, or the last news of it is what it has. That
starts with what every connection writes first. `ViewInv` is about views after a
failure. `Walked` says that every loco is viewed, about to be, or has an index that the
walk still has ahead, in a connection whose walk was not disturbed (`clean`).
This needs that the table has no duplicates (`Distinct`), that no event or
reply can add a loco in the back of the walk (`AboutTracked`, `Unheard`: what is on the wire about a
loco that is not in the table has no view to report it), and that a
closed connection views nothing (`NothingViewed`).

*SetupMode.* `ModeFollowsSettings` speaks of the two modes only; what leads to
them is in the inductive invariant. A sector that is valid and complete for
some firmware is always the form stored last; `g_config` is valid for the
running firmware from `Decide` on, and is the sector's content if that
is complete; and a request in RTC memory is one that was made in the boot before,
since its reading clears it and a power cut spoils it.

*The array as a map* (`Implements`). The refinement mapping reads the table by `findLoco()`: a
`CHOOSE` of an index, which is the entry itself because addresses are unique
(`IInv`). With `TableAsMap`, each operation is then one
fact about two tables: one entry differs, one is taken out, one is added. That a
new loco fits the map's bound compares the array's length with the number of
addresses in it (`AddressesCounted`).

*Z21Lan.* The three invariants are inductive together with who has a session:
`Sessions` (one per client, and whoever does not listen turned broadcasts off),
`Attributed` (the packet being handled belongs to the holder of its place, also
after a log-off in the middle of it) and `Strangers` (nothing is remembered of a client
without a session; this is what makes a new session start clean). Most steps
change no session; `KeepsInSessions` says what is left to show of them.
`SubscribedList` shows that the list of a client stays free of duplicates and
within its eight places while the oldest entry makes room.

*LocoNet.* `SlotsSound` states `SlotsAgree` for each part of a loco on its own (`Joined`): an
action that brings the drive state together may leave the functions parted. It adds that two slots hold the same loco
only where a throttle wrote it into one itself (`written`): a throttle's
command reaches one slot and the table, so a second slot of the loco would be
left behind; a request finds the slot of its loco before it takes another one,
and a change of another protocol reaches all of them. `HeldKeepsLoco` needs that
an empty slot has no loco and that the dispatched one is not empty. What is in the
queue and what the throttles believe only has to be consistent: a slot read may be
out of date, but it names a slot, and an answered throttle knows a slot and a
loco. The reply queue stays within its bound because its oldest frame makes
room (`QueueKept`); a stored emergency stop agrees with a stopped loco because
the two speed scales are inverse on what the bridge sends (`SpeedScales`).
For the displays, `Follows` says of a throttle that believes in its slot and
missed nothing: a disconnect is pending, or every queued read it will take
for its own shows what the slot holds, and its display shows that already or the bus is
down. A change by another protocol owes a disconnect to everyone on the slot, and a refresh that
changes a slot puts everyone on it among the `missed` unless one is owed already;
the disconnect comes when the queue has nothing to send, so nothing out of date
is left behind it (`HeldQuiet`).

*Layout.* Both agreements speak of a settled system; the inductive invariant `IInv`
says what is still on the way there. `Tables` is the type invariant with one entry
per address in the map and in the cache. `MapSound` is about *clean* addresses, which
no two objects share and no edit touched: such an address has one object, and neither
an entry of the map nor an `object` message pairs either of them with anything else.
`TurnoutsSound` follows each turnout at a clean address while connected. If it has no
entry, it is about to get one (the query, or its `object` message, is under way) or
the map is full. If it has one, either the walk has it still ahead, or its
`view` is done or on the wire and a `get` behind that, or it is viewed and the last event about
it carries its position; without an event, the cache holds that position, or has no
room for it, or a `switch` to the other position is on the wire, which ECoS will
report. That last case is where commands of two throttles and the operator
cross. `ShownSound` says that every protocol shows what the cache holds: throws
and events tell all of them, and a query is answered from the cache. `RunSound`
follows stop and go in the same way, from the `watch` and `status` with
which each connection begins. `SelectInSeq` finds the *first* entry with an address or an object; the
lemmas `FindIn`, `EntryIn` and `NextStepIn` state what it returns, by the least element of a finite set
of indices.

*XNetMaster.* `Safe` is inductive together with the types. Two parts of it hold
whatever happens to the ring. `KnownSound`: `RefreshKnown` has one entry per loco,
and it agrees with the table except in `unshown`, so a change `QueueLocoRefresh()`
takes for none really is none. `PendingSound`: the refresh queue has one place per loco, and what is
still to be sent of it is the present state, since changes are merged. The other three hold until
the ring is overrun, which the code does not prevent. `RingSound`: the ring is
full from `get` up to `put` (`Packed`), so it is a queue and the lemma `WireQueued`
says that what is sent is what was written, in that order; between windows it holds
no call byte and in a window no refresh (`Orderly`), so the
last call on the bus is the inquiry for the address now asked or none. `PowerSound`: who hears out
what the ring holds has heard `Railpower`. `BusSound`: of
each loco and group, either a refresh waits, or who hears out the ring knows what the table
has. An answer of a device changes the table and the bus at once, in a ring
without refreshes; a change of the other protocols is `dirty`, or was no
change for `RefreshKnown` either. Which group a message is about is decided
message by message (`LearntFrom`), by the last one of its kind. The greatest and least
index exist because numbers below a bound are finite (`Least`, `Greatest`).

`NobodyStarves` needs no invariant beyond the types. `Poll` adds one to the counter
and, once it is past the first round, goes on to the next slot in use;
`FirstRound` and `AnyRound` are the distances from the counter to a device's own
addresses, and the proof is that no address of it is ever jumped over, also where the counter wraps. For that
the assumptions of `XNetMaster` say that the range of addresses is a multiple of the number of slots.

*The receiver and the parser.* Both theorems compare a machine that sees one byte or word at a
time with a definition that sees all of them, so the invariants say how much of
that is in the buffers. For the receiver: what is buffered is what came since the last opcode, and is
shorter than the frame it belongs to; or the frame is complete, damaged or
impossible, and then nothing that came since can be one. For the parser, `ReadsAlong` holds of a block begun in step:
the line has the words sent of the present row, and there is one entry for each
earlier line as far as there is room. A line that is too long ends that (`Spoiled`); from then on
`LooksOn`: the block is not open, no word in the line is a marker until its end comes, and that
end is the first word of a line again, because what ECoS sends in between are
whole lines. Sequences here are sequences of anything (`IsSeq`), since what is in a line
broken off is not in any set named beforehand.

*The conversions.* An address, a speed step or a turnout number is divided and put together
again, which is arithmetic once the divisions are named. For function bytes and
checksums a byte is a sum of weighted bits (`FromBits`); `BitsBack` says that each
bit of such a sum is the one put in, and `ByteOfBits` what that means for a set of functions. An
exclusive or is taken bit by bit, as the parity of the number of bytes that have the bit
(`XorOf`): this is what the loops of `getXOR()` and `z21Checksum()` amount to, without
their recursion. `ClosedIsEven` then says that with its checksum a message has an even number in
every place, however long it is, and so passes the test. The parity of a call byte is
the same argument in one byte (`ParityBit`). The proofs hold for addresses below 16384; both
protocols use the two bits above as a mark of long addresses, so greater ones
cannot be told apart. The addresses of the code end at 9999 (`DCC_MAX_ADDRESS`).

Only model-checked: liveness (`StaleIsForgotten`, `Recovers`) and the violations of
section 5. Liveness under fairness and ENABLED are outside what the provers used here can
do.

## 5 Disagreements found

Two are runs that TLC ends with a counterexample; `PROJECT.json` quotes the
comment the code disagrees with.

1. `StopUndone`: a speed queued before an emergency stop is sent after it.
2. `QueueNeverOverflows`: two function changes from other protocols before one
   pass of `update()` are 14 messages for a ring of 12; nothing checks it,
   although `XpressNetMaster.cpp:1076-1077` says the ring cannot overflow. An
   emergency stop with twelve tracked locos does the same. Two unsent messages
   are lost, and put and get stay apart.

The others have a configuration of the same name to be run by hand, with the
module given:

| Configuration | Module | Counterexample |
|---|---|---|
| `FunctionResendsSpeed` | `MCCommandRouter` | the echo of an older drive command briefly puts an old speed into the table, and a function press then *sends* that speed (`LastDriveAlwaysWins`) |
| `FunctionPressLost` | `MCCommandRouter` | a second press during the paced first bitmap is undone by the bitmap still being sent |
| `BaselineLost` | `MCCommandRouter` | selecting a second loco abandons the baseline query of the first (`TableAlwaysAgrees`) |
| `EventAfterRelease` | `MCCommandRouter` | an event that crosses a release brings the loco back as subscribed although its view is gone (`EntryMeansViewed`) |
| `OtherLocosBits` | `MCCommandRouter` | the function bits noted for one loco suppress the news of another |
| `ResubscribeBlocked` | `EcosLink` | a tracked address ECoS does not have blocks the re-subscription of the locos behind it |
| `SelectionIsNoCommand` | `LocoNet` | the null write after a selection carries values that another protocol has replaced meanwhile, and commands them (`loconet_slots.cpp:444-446` calls it no command) |
| `WireAddressesAgree` | `MCZ21Lan` | turnout replies go out with the router's address, one above the wire address `z21_protocol.cpp:144-146` describes |
| `ReconnectPicksUpChanges` | `MCLayout` | a turnout re-addressed at ECoS is still reported under its old address after a reconnect (`ecos_interface.h:210-212` says a reconnect picks it up) |

For example `tlc -config OtherLocosBits.cfg MCCommandRouter.tla`.

Smaller ones, seen while modelling and named in section 2: a torn-off block
costs the first block of the next connection; an overlong line costs its
block; Setup Mode reached after five minutes without Wi-Fi is left only by a
user; a failed `commit()` is answered by "Saved" all the same; when a loco is taken
over in the same message that selects it, `AddBusySlot()` does not tell its
former driver; XpressNet turnout numbers above 1024 wrap on the bus.

## 6 Not modelled

- *Main loop and timers*: nothing but the order of `update()` calls, which every
  model takes as "one handler at a time, in any order", and intervals. A timeout may
  happen at any time its cause allows. `millis()` arithmetic is by unsigned
  difference throughout.
- *OLED display, logging, sniffer, development OTA*: they read the state only.
- *XpressNetMaster*: slave mode (the bridge is the only master on its bus), bit
  timing and the assembly of received bytes, CV programming (no callback is
  defined), the AVR half of the source. Functions above F12 are sent by
  messages no throttle acts on.
- *LocoNet*: functions above F8, which only immediate packets carry and no slot has; the
  LONG_ACK of a refused move, the fast clock. A packet from another device is taken not to
  change what a throttle displays. Track power and turnout frames are "one frame to send".
- *EcosInterface*: function commands queued while ECoS is away (the buffer is in
  `EcosLink`, functions in `CommandRouter`; both together were too large), the
  heartbeat, and the back-off, which stays at its first 5 s because
  `reconnect_attempt` is never incremented.
- *Z21*: serial number, firmware and unknown data sets change nothing; loss of
  datagrams.
- *Text formatting* of ECoS commands and of the web pages.

## 7 Plan

1. `StateEngine`, `LocoRegister`, `CommandRouter`, `EcosLink` with their proofs: done.
2. `EcosParser`, `Layout`, `LocoNet`, `Z21Lan`, `XNetMaster` with their codecs,
   `SetupMode`, and the proofs of `LocoNet`, `Z21Lan` and `SetupMode`: done.
3. The proofs of agreement: all invariants of `CommandRouter`, the run state and
   the views of `EcosLink`, `DisplayFollows` of `LocoNet`, all of `Layout` and of
   `XNetMaster`, the receiver and the parser under `LocoNet` and `EcosLink`, the
   conversions: done.
   Next: the ring of `XNetMaster` as an abstract queue that loses its contents
   when overrun, and the same for the buffer of `EcosLink`.
4. To model: locos that appear on ECoS later; the buffer of functions composed
   with the paced slot; the receive path of `XpressNetMaster`.
