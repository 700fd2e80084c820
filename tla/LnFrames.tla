------------------------------ MODULE LnFrames ------------------------------
(***************************************************************************)
(* Framing on the LocoNet bus: LnFrameParser, fed one byte at a time with  *)
(* frames, with what collisions, breaks and a restart of the bridge leave  *)
(* of frames, and with noise.  Byte values are the real ones.              *)
(***************************************************************************)
EXTENDS Naturals, Sequences, FiniteSets

CONSTANTS
    BusBytes,           \* byte values on the bus
    MaxFrameBytes,      \* LN_MAX_FRAME_BYTES
    MaxHeard            \* bound on the bytes heard after an opcode

IsOpcode(b) == b >= 128

\* The buffer holds every message of a fixed length; a byte count is no opcode.
ASSUME LnFramesAssumption ==
    /\ BusBytes \subseteq 0 .. 255
    /\ MaxFrameBytes \in 6 .. 127 /\ MaxHeard \in Nat

VARIABLES
    buffer,     \* buffer[0 .. index - 1]
    expected,   \* expected_len, 0 while the length is not known
    handed,     \* the frame the last byte completed, <<>> for none
    since       \* history: all bytes from the last opcode on, <<>> after a reset

parser == <<buffer, expected, handed, since>>

\* lnOpcodeFixedLength(): 0 means the byte count follows.
OpcodeFixedLength(b) == CASE b \in 128 .. 159 -> 2
                          [] b \in 160 .. 191 -> 4
                          [] b \in 192 .. 223 -> 6
                          [] OTHER -> 0

\* lnChecksumValid(): all bytes, the checksum included, XOR to 0xFF.
BitOf(b, i) == (b \div 2^i) % 2
ChecksumValid(s) ==
    /\ Len(s) >= 2
    /\ \A i \in 0 .. 7 : Cardinality({k \in DOMAIN s : BitOf(s[k], i) = 1}) % 2 = 1

-----------------------------------------------------------------------------
\* reset(); no frame is handed on.
Dropped == buffer' = <<>> /\ expected' = 0
Silent == handed' = <<>>
Noted(b) == since' = IF since = <<>> THEN <<>> ELSE Append(since, b)

(* A slip: an opcode in the middle of a message is taken for data.         *)
HearOpcodeBetween(b) ==
    /\ IsOpcode(b)
    /\ IF buffer = <<>> THEN buffer' = <<b>> /\ expected' = OpcodeFixedLength(b)
                        ELSE buffer' = Append(buffer, b) /\ UNCHANGED expected
    /\ Silent /\ since' = <<b>>

\* beginMessage(): an opcode starts a message wherever it comes.
HearOpcode(b) ==
    /\ IsOpcode(b)
    /\ buffer' = <<b>> /\ expected' = OpcodeFixedLength(b)
    /\ Silent /\ since' = <<b>>

Data(b) == ~IsOpcode(b) /\ Len(since) < MaxHeard /\ Noted(b)

HearStray(b) ==
    /\ buffer = <<>> /\ Data(b)
    /\ Silent /\ UNCHANGED <<buffer, expected>>

\* The second byte of a message of variable length is its byte count.
IsCount == expected = 0 /\ Len(buffer) = 1
LengthWith(b) == IF IsCount THEN b ELSE expected

HearBadCount(b) ==
    /\ IsCount /\ b \notin 3 .. MaxFrameBytes /\ Data(b)
    /\ Silent /\ Dropped

Continues(b) == buffer # <<>> /\ (IsCount => b \in 3 .. MaxFrameBytes) /\ Data(b)

HearMore(b) ==
    /\ Continues(b) /\ Len(buffer) + 1 # LengthWith(b)
    /\ buffer' = Append(buffer, b) /\ expected' = LengthWith(b)
    /\ Silent

HearLast(b) ==
    /\ Continues(b) /\ Len(buffer) + 1 = LengthWith(b)
    /\ handed' = IF ChecksumValid(Append(buffer, b)) THEN Append(buffer, b) ELSE <<>>
    /\ Dropped

\* tick(): no byte for PARTIAL_TIMEOUT_MS.
Pause == buffer # <<>> /\ Dropped /\ Silent /\ since' = <<>>

\* reset() by the interface: at its start, after a collision was drained and
\* after a disconnect, whose bytes are thrown away.
StartOver == Dropped /\ Silent /\ since' = <<>>

Hear(b) == HearOpcode(b) \/ HearStray(b) \/ HearBadCount(b) \/ HearMore(b) \/ HearLast(b)
Listen == (\E b \in BusBytes : Hear(b)) \/ Pause \/ StartOver

Quiet == buffer = <<>> /\ expected = 0 /\ handed = <<>> /\ since = <<>>
Receiver == Quiet /\ [][Listen]_parser

-----------------------------------------------------------------------------
\* What makes the bytes from an opcode on a frame, looked at all at once.
FrameLength(s) == IF OpcodeFixedLength(s[1]) # 0 THEN OpcodeFixedLength(s[1]) ELSE s[2]
WholeFrame(s) ==
    /\ Len(s) >= 2
    /\ FrameLength(s) \in 2 .. MaxFrameBytes
    /\ OpcodeFixedLength(s[1]) = 0 => FrameLength(s) >= 3
    /\ Len(s) = FrameLength(s)
    /\ ChecksumValid(s)

(* Whatever noise, half frames, stray bytes and pauses came before: the    *)
(* slots are given a frame exactly when the bytes since the last opcode    *)
(* are a whole one, at its last byte and as it was sent.  No frame is      *)
(* missed and none is made up, and feed() never writes past its buffer.    *)
HearsEveryFrame ==
    /\ handed = IF WholeFrame(since) THEN since ELSE <<>>
    /\ Len(buffer) < MaxFrameBytes
=============================================================================
