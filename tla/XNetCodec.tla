------------------------------- MODULE XNetCodec -------------------------------
(***************************************************************************)
(* The bytes of the XpressNet messages the bridge reads and writes: drive  *)
(* and function messages, addresses, turnouts, call bytes and checksums.   *)
(***************************************************************************)
EXTENDS ByteBits

CONSTANTS
    WireAddr, FnSets    \* addresses and sets of functions that are converted

\* Two bits of an address' 16 mark it as a long one.
ASSUME XNetCodecAssumption == WireAddr \subseteq 1 .. 16383 /\ FnSets \subseteq SUBSET (0 .. 28)

TopSpeed == 126

(* The function of each bit of a group byte; groups 1..5 are idents 0x20,  *)
(* 0x21, 0x22, 0x23 (a MultiMaus: 0xF3) and 0x28.                          *)
GroupOf(ident) ==
    CASE ident = 32 -> 1 [] ident = 33 -> 2 [] ident = 34 -> 3
      [] ident \in {35, 243} -> 4 [] ident = 40 -> 5 [] OTHER -> 0
GroupBits(g) ==
    CASE g = 1 -> <<1, 2, 3, 4, 0>>
      [] g = 2 -> <<5, 6, 7, 8>> [] g = 3 -> <<9, 10, 11, 12>>
      [] g = 4 -> [i \in 1 .. 8 |-> 12 + i] [] g = 5 -> [i \in 1 .. 8 |-> 20 + i]
\* buildFunctionGroupByte(), and onLocoFunctionGroup() on what is known.
BuildGroup(F, g) == ByteOf(F, GroupBits(g))
MergeGroupOverwrites(F, g, b) ==         \* slip: other groups forgotten
    LET fn == GroupBits(g) IN {fn[i] : i \in {j \in DOMAIN fn : Bit(b, j - 1) = 1}}
MergeGroup(F, g, b) ==
    LET fn == GroupBits(g)
    IN  (F \ {fn[i] : i \in DOMAIN fn}) \cup {fn[i] : i \in {j \in DOMAIN fn : Bit(b, j - 1) = 1}}

\* resolveLocoStateForReply(), sendSpeedCommand(): reverse is bit 7.
SpeedByte(speed, dir) == (speed % 128) + (IF dir = 0 THEN 128 ELSE 0)
\* onLocoDrive128(): V = 127 is refused.
Drive128(b) == IF b % 128 > TopSpeed THEN {} ELSE {[speed |-> b % 128, dir |-> 1 - Bit(b, 7)]}
\* setSpeed(), SetLocoInfo(): 27 and 28 steps move the lowest bit.
Scrambled(steps, v) ==
    IF steps = 14 THEN v ELSE 2 * (v % 16) + Bit(v, 4) + 128 * Bit(v, 7)
\* onLocoDriveStepped()
RawStep(steps, b) == IF steps = 14 THEN b % 128 ELSE ((b \div 2) % 16) + 16 * Bit(b, 0)
DriveStepped(steps, b) ==
    IF RawStep(steps, b) > steps THEN {}
    ELSE {[speed |-> (RawStep(steps, b) * TopSpeed) \div steps, dir |-> 1 - Bit(b, 7)]}

\* AH and AL: addresses from 100 on are marked long; the reader drops the mark.
Address(a) == <<(a \div 256) + (IF a > 99 THEN 192 ELSE 0), a % 256>>
ReadAddress(h, l) == (h % 64) * 256 + l
\* setFunc13to20(): the second message has no mark.
AddressUnmarked(a) == <<a \div 256, a % 256>>

\* callByteParity(): the parity bit makes the number of ones even.
Ones(b) == Cardinality({i \in 0 .. 6 : Bit(b, i) = 1})
CallByte(me) == (me % 128) + 128 * (Ones(me) % 2)
SlotOf(callByte) == callByte % 32       \* UserOps & 0x1F
\* getXOR() closes a message, XNetCheckXOR() tests it.
Closed(s) == Append(s, XorOf(s))
XorHolds(s) == XorOf(s) = 0
DriveMessage(a, ident, b) == Closed(<<228, ident>> \o Address(a) \o <<b>>)

\* PushExternalTurnoutUpdate(), sendAccessoryCommand(): one less on the bus.
TurnoutMessage(t, diverging) ==
    LET wire == t - 1
    IN  Closed(<<82, (wire \div 4) % 256, 128 + 2 * (wire % 4) + 8 + diverging>>)
\* 0x52, onTurnoutCommand(): only the activation counts.
TurnoutCommand(d1, d2) ==
    IF Bit(d2, 3) = 0 THEN {}
    ELSE {[turnout |-> d1 * 4 + ((d2 \div 2) % 4) + 1, diverging |-> d2 % 2]}
(* onTurnoutInfoRequest(), SetTrntStatus(): half a group, two bits each.   *)
TurnoutPair(group, n) == <<4 * group + 2 * n + 1, 4 * group + 2 * n + 2>>
TurnoutStatus(group, n, pos) ==
    LET z(t) == IF t \notin DOMAIN pos THEN 0 ELSE IF pos[t] = 1 THEN 2 ELSE 1
        pair == TurnoutPair(group, n)
    IN  16 * n + 4 * z(pair[2]) + z(pair[1])

-----------------------------------------------------------------------------
\* Speed and direction, in all step modes.
DriveSurvives ==
    \A speed \in 0 .. TopSpeed, dir \in {0, 1} :
        /\ Drive128(SpeedByte(speed, dir)) = {[speed |-> speed, dir |-> dir]}
        /\ \A steps \in {14, 27, 28} : speed <= steps =>
             DriveStepped(steps, Scrambled(steps, SpeedByte(speed, dir)))
               = {[speed |-> (speed * TopSpeed) \div steps, dir |-> dir]}

\* Each function in its group, and no other function is touched by it.
FunctionsSurvive ==
    /\ \A F \in FnSets, G \in FnSets, g \in 1 .. 5 :
         LET fn == {GroupBits(g)[i] : i \in DOMAIN GroupBits(g)}
         IN  MergeGroup(G, g, BuildGroup(F, g)) = (G \ fn) \cup (F \cap fn)
    /\ {GroupOf(i) : i \in {32, 33, 34, 35, 243, 40}} = 1 .. 5

AddressesSurvive ==
    \A a \in WireAddr :
        /\ ReadAddress(Address(a)[1], Address(a)[2]) = a
        /\ ReadAddress(AddressUnmarked(a)[1], AddressUnmarked(a)[2]) = a
        /\ XorHolds(DriveMessage(a, 19, a % 256))

\* The slot behind a call byte, whose number of ones is even.
CallsSurvive ==
    \A s \in 0 .. 31, kind \in {0, 64, 96} :
        LET call == CallByte(kind + s)
        IN  SlotOf(call) = s /\ (Ones(call) + Bit(call, 7)) % 2 = 0

TurnoutsSurvive ==
    \A t \in 1 .. 1024, d \in {0, 1} :
        /\ LET m == TurnoutMessage(t, d)
           IN  TurnoutCommand(m[2], m[3]) = {[turnout |-> t, diverging |-> d]} /\ XorHolds(m)
        /\ \E n \in {0, 1} :
             LET group == (t - 1) \div 4
                 nibble == TurnoutStatus(group, n, [x \in {t} |-> d]) % 16
             IN  \/ t = TurnoutPair(group, n)[1] /\ nibble = 1 + d
                 \/ t = TurnoutPair(group, n)[2] /\ nibble = 4 * (1 + d)

(* What the bridge writes, a bridge would read back as the same: speeds,   *)
(* functions, addresses short and long, turnouts, call bytes; and every    *)
(* checksum it adds passes its own test.                                   *)
NothingLost ==
    DriveSurvives /\ FunctionsSurvive /\ AddressesSurvive /\ CallsSurvive /\ TurnoutsSurvive
=============================================================================
