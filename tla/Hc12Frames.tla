----------------------------- MODULE Hc12Frames -----------------------------
(***************************************************************************)
(* The six-byte HC12 protocol over one connection after the other: the     *)
(* sliding window of HC12Link::checkForCommand() that looks for a command  *)
(* in whatever the peer sends, loop()'s answer to it, and the sliding      *)
(* window of wflink_link.py that looks for the answer.  A byte has         *)
(* ByteSize values (256 in the code).                                      *)
(***************************************************************************)
EXTENDS Integers, Sequences

CONSTANTS
  ByteSize,      \* values of a byte
  Exor(_, _),    \* bitwise exclusive or
  START_BYTE, DEVICE_ID, BROADCAST_ID, CMD_READ_ADC, CMD_READ_TEMP,
  Temperatures,  \* what the CPU may measure, in hundredths of a degree
  MaxBytes       \* bound: bytes a peer sends

Byte == 0..(ByteSize - 1)
Word == 0..(ByteSize * ByteSize - 1)

ASSUME ByteAssumption == ByteSize \in Nat \ {0, 1}
ASSUME XorAssumption  == \A a, b \in Byte : Exor(a, b) \in Byte

(* The window is cleared to zeros: no frame may start with one. *)
ASSUME CodeAssumption ==
  /\ START_BYTE \in Byte \ {0}
  /\ {DEVICE_ID, BROADCAST_ID, CMD_READ_ADC, CMD_READ_TEMP} \subseteq Byte
  /\ DEVICE_ID # BROADCAST_ID /\ CMD_READ_ADC # CMD_READ_TEMP

ASSUME TemperatureAssumption == Temperatures \subseteq {t \in Int : t < ByteSize * ByteSize}
ASSUME BytesAssumption       == MaxBytes \in Nat

HC12_FRAME_SIZE == 6

VARIABLES
  pc,       \* "read" (loop()'s window of a second), "answer", "closed"
  window,   \* HC12Link's buffer
  read,     \* history: what the sketch has read on this connection
  command,  \* the command it accepted
  sample,   \* the value it measured
  wire,     \* the response on its way
  asked,    \* the command the client waits for an answer to
  buffer,   \* the client's sliding window
  data      \* what the client took for the answer

vars == <<pc, window, read, command, sample, wire, asked, buffer, data>>

-----------------------------------------------------------------------------
Frame == [1..HC12_FRAME_SIZE -> Byte]

Cleared == [i \in 1..HC12_FRAME_SIZE |-> 0]

NoCommand == [cmd |-> -1, pin |-> -1, value |-> -1, broadcast |-> FALSE]
Nothing   == -1000000

(* The XOR of all bytes but the last; both ends compute it the same way. *)
Checksum(f) == Exor(Exor(Exor(Exor(Exor(0, f[1]), f[2]), f[3]), f[4]), f[5])

Shift(f, b) == [i \in 1..HC12_FRAME_SIZE |-> IF i < HC12_FRAME_SIZE THEN f[i + 1] ELSE b]

Valid(f) ==
  /\ f[1] = START_BYTE
  /\ f[2] \in {DEVICE_ID, BROADCAST_ID}
  /\ Checksum(f) = f[HC12_FRAME_SIZE]

Decoded(f) == [cmd |-> f[3], pin |-> f[4], value |-> f[5], broadcast |-> f[2] = BROADCAST_ID]

Init ==
  /\ pc = "read"
  /\ window = Cleared
  /\ read = <<>>
  /\ command = NoCommand
  /\ sample = Nothing
  /\ wire = <<>>
  /\ asked \in {CMD_READ_ADC, CMD_READ_TEMP}
  /\ buffer = <<>>
  /\ data = Nothing

clientVars == <<asked, buffer, data>>

(* Mutant: the window survives from one connection to the next. *)
LinkInitKeepsWindow == UNCHANGED window

(* HC12Link::init(), for every connection. *)
LinkInit == window' = Cleared

(* A peer connects and its first data arrives: loop() starts to serve it. *)
Accept ==
  /\ pc = "closed"
  /\ pc' = "read"
  /\ LinkInit
  /\ read' = <<>>
  /\ command' = NoCommand
  /\ sample' = Nothing
  /\ wire' = <<>>
  /\ asked' \in {CMD_READ_ADC, CMD_READ_TEMP}
  /\ buffer' = <<>>
  /\ data' = Nothing

(* One round of checkForCommand()'s loop; it returns at the first command. *)
CheckForCommand ==
  /\ pc = "read"
  /\ Len(read) < MaxBytes
  /\ \E b \in Byte :
       LET shifted == Shift(window, b)
       IN /\ read' = Append(read, b)
          /\ IF Valid(shifted)
             THEN command' = Decoded(shifted) /\ window' = Cleared /\ pc' = "answer"
             ELSE window' = shifted /\ UNCHANGED <<command, pc>>
  /\ UNCHANGED <<sample, wire, clientVars>>

(* readTempRaw(): rounding to uint16_t is undefined below zero. *)
TempRaw(t) == IF t >= 0 THEN {t} ELSE Word

(* Mutant: one byte too many is written. *)
ResponseOverrun(cmd, value) ==
  LET head == <<START_BYTE, DEVICE_ID, cmd, (value \div ByteSize) % ByteSize, value % ByteSize>>
  IN head \o <<Checksum(head), 0>>

(* Mutant: the low byte goes first. *)
ResponseLowFirst(cmd, value) ==
  LET head == <<START_BYTE, DEVICE_ID, cmd, value % ByteSize, (value \div ByteSize) % ByteSize>>
  IN Append(head, Checksum(head))

Response(cmd, value) ==
  LET head == <<START_BYTE, DEVICE_ID, cmd, (value \div ByteSize) % ByteSize, value % ByteSize>>
  IN Append(head, Checksum(head))

(* loop() measures and sendResponse()s; a broadcast and a command it does  *)
(* not support get no answer.                                              *)
Answer ==
  /\ pc = "answer"
  /\ pc' = "closed"
  /\ \/ /\ command.cmd = CMD_READ_ADC /\ ~command.broadcast
        /\ \E v \in Word : sample' = v /\ wire' = Response(CMD_READ_ADC, v)
     \/ /\ command.cmd = CMD_READ_TEMP /\ ~command.broadcast
        /\ \E t \in Temperatures : \E v \in TempRaw(t) :
             sample' = t /\ wire' = Response(CMD_READ_TEMP, v)
     \/ /\ command.broadcast \/ command.cmd \notin {CMD_READ_ADC, CMD_READ_TEMP}
        /\ UNCHANGED <<sample, wire>>
  /\ UNCHANGED <<window, read, command, clientVars>>

(* The second is over without a command. *)
WindowEnds ==
  /\ pc = "read"
  /\ pc' = "closed"
  /\ UNCHANGED <<window, read, command, sample, wire, clientVars>>

(* One recv(1) of _read_response(): the last six bytes, if they are a      *)
(* frame that echoes the command; the device id is not looked at.          *)
Receive ==
  LET got  == Append(buffer, Head(wire))
      last == IF Len(got) > HC12_FRAME_SIZE THEN Tail(got) ELSE got
  IN /\ wire # <<>>
     /\ data = Nothing
     /\ wire' = Tail(wire)
     /\ buffer' = last
     /\ data' = IF /\ Len(last) = HC12_FRAME_SIZE
                   /\ last[1] = START_BYTE
                   /\ Checksum(last) = last[HC12_FRAME_SIZE]
                   /\ last[3] = asked
                THEN last[4] * ByteSize + last[5]
                ELSE data
     /\ UNCHANGED <<pc, window, read, command, sample, asked>>

Next == Accept \/ CheckForCommand \/ Answer \/ WindowEnds \/ Receive

Spec == Init /\ [][Next]_vars

-----------------------------------------------------------------------------
(* Every variable has its type; the response and the client's window never *)
(* exceed a frame.                                                         *)
TypeOK ==
  /\ pc \in {"read", "answer", "closed"}
  /\ window \in Frame
  /\ read \in Seq(Byte) /\ Len(read) <= MaxBytes
  /\ command \in [cmd : Byte, pin : Byte, value : Byte, broadcast : BOOLEAN] \cup {NoCommand}
  /\ sample \in Word \cup Temperatures \cup {Nothing}
  /\ wire \in Seq(Byte) /\ Len(wire) + Len(buffer) <= HC12_FRAME_SIZE
  /\ asked \in {CMD_READ_ADC, CMD_READ_TEMP}
  /\ buffer \in Seq(Byte)
  /\ data \in Word \cup {Nothing}

(* The six bytes that follow the first k of what was read. *)
FrameAfter(k) == [i \in 1..HC12_FRAME_SIZE |-> read[k + i]]

(* A command is the first six consecutive bytes of its own connection that *)
(* make a frame for this device, whatever precedes them: none is skipped,  *)
(* none is made up from cleared bytes or from an earlier connection.       *)
FirstValidFrame ==
  LET before == Len(read) - HC12_FRAME_SIZE
  IN /\ command # NoCommand =>
          /\ before >= 0
          /\ /\ read[before + 1] = START_BYTE
             /\ read[before + 2] \in {DEVICE_ID, BROADCAST_ID}
             /\ read[Len(read)] = Checksum(FrameAfter(before))
          /\ command = Decoded(FrameAfter(before))
     /\ \A k \in 0..before :
          /\ read[k + 1] = START_BYTE
          /\ read[k + 2] \in {DEVICE_ID, BROADCAST_ID}
          /\ read[k + 6] = Checksum(FrameAfter(k))
          => k = before /\ command # NoCommand

(* What the client takes for an answer is what the board measured for the  *)
(* command it asked for, to the last bit: nothing is lost in splitting,    *)
(* framing and reassembling it - for a temperature that is not negative.   *)
AnswerDecodes ==
  data # Nothing /\ sample >= 0 => data = sample /\ command.cmd = asked
=============================================================================
