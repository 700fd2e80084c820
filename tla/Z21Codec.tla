------------------------------- MODULE Z21Codec -------------------------------
(***************************************************************************)
(* The Z21 packets whose content the bridge converts, byte for byte: a     *)
(* wrong bit here turns a loco round or drives another one.                *)
(***************************************************************************)
EXTENDS ByteBits

CONSTANTS
    WireAddr, FnSets    \* addresses and sets of functions that are converted

\* An address has 14 bits on the wire.
ASSUME Z21CodecAssumption == WireAddr \subseteq 1 .. 16383 /\ FnSets \subseteq SUBSET (0 .. 28)

TopSpeed == 126                         \* DCC_MAX_SPEED

\* z21EncodeAddress(), z21DecodeAddress(): 14 bits, long addresses marked.
EncodeAddress(a) == [msb |-> ((a \div 256) % 64) + (IF a >= 128 THEN 192 ELSE 0),
                     lsb |-> a % 256]
DecodeAddress(msb, lsb) == (msb % 64) * 256 + lsb

\* A slip: F0 to F4 laid out as one would expect.
FunctionBytesInOrder(F) ==
    <<ByteOf(F, <<0, 1, 2, 3, 4>>), ByteOf(F, [i \in 1 .. 8 |-> 4 + i]),
      ByteOf(F, [i \in 1 .. 8 |-> 12 + i]), ByteOf(F, [i \in 1 .. 8 |-> 20 + i])>>

\* z21EncodeSpeed128(): 1 on the wire is the emergency stop.
EncodeSpeed128(dir, speed) ==
    (IF speed = 0 THEN 0 ELSE (speed + 1) % 128) + (IF dir = 1 THEN 0 ELSE 128)

\* z21DecodeSpeed(): the step of a speed byte, then the step on 0..126.
Step(steps, b) ==
    LET v == IF steps = 128 THEN b % 128 ELSE b % 16
    IN  IF v <= 1 THEN 0
        ELSE IF steps = 28 THEN 2 * v - 3 + Bit(b, 4) ELSE v - 1
DecodeSpeed(steps, b) ==
    [dir |-> 1 - Bit(b, 7),
     speed |-> IF steps = 128 THEN Step(128, b)
               ELSE (Step(steps, b) * TopSpeed) \div steps]

\* z21BuildLocoInfoPacket(): F0 on bit 4, F1..F4 below it, the rest in order.
FunctionBytes(F) ==
    <<ByteOf(F, <<1, 2, 3, 4, 0>>), ByteOf(F, [i \in 1 .. 8 |-> 4 + i]),
      ByteOf(F, [i \in 1 .. 8 |-> 12 + i]), ByteOf(F, [i \in 1 .. 8 |-> 20 + i])>>
LocoInfoPacket(a, dir, speed, F) ==
    LET adr == EncodeAddress(a)
        data == <<239, adr.msb, adr.lsb, 4, EncodeSpeed128(dir, speed)>> \o FunctionBytes(F)
    IN  Append(data, XorOf(data))

\* z21DecodeFunctionCommand(): off, on or toggle, and the function.
DecodeFunction(b) == IF b \div 64 = 3 THEN {} ELSE {[kind |-> b \div 64, fn |-> b % 64]}
\* z21DecodeTurnoutCommand(): only the press of a button counts, and the
\* router counts turnouts from 1.
TurnoutCommand(msb, lsb, b) ==
    IF Bit(b, 3) = 0 THEN {}
    ELSE {[turnout |-> DecodeAddress(msb, lsb) + 1, diverging |-> Bit(b, 0) = 1]}
\* z21BuildTurnoutInfo(): the number goes out as the router has it.
TurnoutInfoPacket(t, diverging) ==
    LET adr == EncodeAddress(t)
        data == <<67, adr.msb, adr.lsb, IF diverging THEN 2 ELSE 1>>
    IN  Append(data, XorOf(data))

-----------------------------------------------------------------------------
Order == <<1, 2, 3, 4, 0>>

\* A throttle's knob: the code of step n of 14, 28 or 126, and the stops.
StepCode(steps, n) ==
    IF n = 0 THEN 0
    ELSE IF steps = 28 THEN ((n + 3) \div 2) + 16 * ((n + 1) % 2) ELSE n + 1
Stops(steps) == IF steps = 28 THEN {0, 1, 16, 17} ELSE {0, 1}

\* What a throttle is told about a loco, sent back, commands just that.
StateSurvives ==
    \A a \in WireAddr, dir \in {0, 1} :
        LET adr == EncodeAddress(a)
        IN  /\ DecodeAddress(adr.msb, adr.lsb) = a
            /\ \A speed \in 0 .. TopSpeed :
                 DecodeSpeed(128, EncodeSpeed128(dir, speed)) = [dir |-> dir, speed |-> speed]
            /\ \A F \in FnSets :
                 LET p == LocoInfoPacket(a, dir, TopSpeed, F)
                     on == {Order[i] : i \in {j \in 1 .. 5 : Bit(p[6], j - 1) = 1}}
                           \cup {n \in 5 .. 28 : Bit(p[7 + ((n - 5) \div 8)], (n - 5) % 8) = 1}
                 IN  /\ on = F
                     /\ XorOf(p) = 0

\* Every step of a knob is faster than the one before it, the last is full
\* speed, and both stop codes stop, in either position of the half-step bit.
KnobIsMonotone ==
    \A steps \in {14, 28, 128}, dir \in {0, 1} :
        LET top == IF steps = 128 THEN TopSpeed ELSE steps
            speed(b) == DecodeSpeed(steps, b + 128 * (1 - dir)).speed
        IN  /\ \A b \in Stops(steps) : speed(b) = 0
            /\ \A n \in 1 .. top : speed(StepCode(steps, n - 1)) < speed(StepCode(steps, n))
            /\ speed(StepCode(steps, top)) = TopSpeed

\* One command per button of a turnout or a function: the release of the key
\* is none, with the flag bits the specification asks for or without them.
\* A throttle sends the number its user entered less one.
PressesDecode ==
    /\ \A t \in WireAddr, port \in {0, 1}, marker \in {0, 128} :
         LET adr == EncodeAddress(t - 1)
             command(pressed) == TurnoutCommand(adr.msb, adr.lsb, marker + 8 * pressed + port)
         IN  /\ command(1) = {[turnout |-> t, diverging |-> port = 1]}
             /\ command(0) = {}
    /\ \A b, c \in 0 .. 191 : DecodeFunction(b) = DecodeFunction(c) => b = c

\* The position a turnout is reported in is the one that throws it there.  The
\* number is not: what is thrown under the number on the wire is the next turnout.
ReportsAreOneAhead ==
    \A t \in WireAddr, diverging \in BOOLEAN :
        LET p == TurnoutInfoPacket(t, diverging)
        IN  /\ TurnoutCommand(p[2], p[3], 8 + (p[4] - 1))
                 = {[turnout |-> t + 1, diverging |-> diverging]}
            /\ XorOf(p) = 0

(* Nothing of an address, a speed, a direction or a function is lost or    *)
(* changes place between the bridge and a throttle: the decoders undo the  *)
(* encoders, and every key and knob has its own meaning in each speed step *)
(* mode.  A turnout's position survives too; its number is encoded as the  *)
(* router has it and decoded as one more.                                  *)
NothingLost == StateSurvives /\ KnobIsMonotone /\ PressesDecode /\ ReportsAreOneAhead
=============================================================================
