-------------------------- MODULE Hc12FramesProofs --------------------------
(***************************************************************************)
(* Proof about Hc12Frames, for bytes of any size and any checksum that     *)
(* stays within a byte: the command the window finds is the first frame in *)
(* the bytes of its own connection.                                        *)
(***************************************************************************)
EXTENDS Hc12Frames, SequenceTheorems, TLAPS

Reading ==
  /\ pc \in {"read", "answer", "closed"}
  /\ read \in Seq(Byte)
  /\ window \in Frame

(* While no command is found the window holds the last bytes read, and     *)
(* zeros where fewer than six have been.                                   *)
WindowHolds ==
  pc = "read" =>
    /\ command = NoCommand
    /\ \A i \in 1..HC12_FRAME_SIZE :
         window[i] = IF Len(read) + i > HC12_FRAME_SIZE
                     THEN read[Len(read) + i - HC12_FRAME_SIZE] ELSE 0

IInv == Reading /\ WindowHolds /\ FirstValidFrame

-----------------------------------------------------------------------------
LEMMA ShiftTyped ==
  ASSUME NEW f \in Frame, NEW b \in Byte
  PROVE  Shift(f, b) \in Frame
BY DEF Shift, Frame, HC12_FRAME_SIZE

LEMMA ClearedTyped == Cleared \in Frame
BY ByteAssumption DEF Cleared, Frame, Byte

(* A connection begins with an empty window and nothing read. *)
LEMMA FreshInv ==
  ASSUME pc = "read", read = <<>>, window = Cleared, command = NoCommand
  PROVE  IInv
<1>1. Reading
  BY ClearedTyped DEF Reading
<1>2. WindowHolds
  BY DEF WindowHolds, Cleared, HC12_FRAME_SIZE
<1>3. FirstValidFrame
  BY DEF FirstValidFrame, HC12_FRAME_SIZE
<1>q. QED BY <1>1, <1>2, <1>3 DEF IInv

LEMMA InitInv == Init => IInv
BY FreshInv DEF Init

(* The window slides on by one byte, or stops at the first frame. *)
LEMMA CheckInv ==
  ASSUME IInv, CheckForCommand
  PROVE  IInv'
<1> DEFINE n == Len(read)
<1>1. PICK b \in Byte :
        /\ read' = Append(read, b)
        /\ IF Valid(Shift(window, b))
           THEN command' = Decoded(Shift(window, b)) /\ window' = Cleared /\ pc' = "answer"
           ELSE window' = Shift(window, b) /\ UNCHANGED <<command, pc>>
  BY DEF CheckForCommand
<1>2. /\ pc = "read" /\ command = NoCommand
      /\ read \in Seq(Byte) /\ window \in Frame /\ n \in Nat
  BY DEF CheckForCommand, IInv, Reading, WindowHolds
<1> DEFINE s == Shift(window, b)
<1>3. /\ read' \in Seq(Byte) /\ Len(read') = n + 1
      /\ \A j \in 1..n : read'[j] = read[j]
      /\ read'[n + 1] = b
  BY <1>1, <1>2
<1>4. s \in Frame
  BY <1>2, ShiftTyped
<1>5. \A i \in 1..6 : s[i] = IF n + 1 + i > 6 THEN read'[n + 1 + i - 6] ELSE 0
  <2>1. TAKE i \in 1..6
  <2>2. CASE i = 6
    BY <1>2, <1>3, <2>2 DEF Shift, HC12_FRAME_SIZE
  <2>3. CASE i < 6
    <3>1. s[i] = window[i + 1]
      BY <2>1, <2>3 DEF Shift, HC12_FRAME_SIZE
    <3>2. window[i + 1] = IF n + (i + 1) > 6 THEN read[n + (i + 1) - 6] ELSE 0
      BY <1>2, <2>1, <2>3 DEF IInv, WindowHolds, HC12_FRAME_SIZE
    <3>3. n + (i + 1) > 6 => read'[n + (i + 1) - 6] = read[n + (i + 1) - 6]
      BY <1>2, <1>3, <2>1, <2>3
    <3>q. QED BY <1>2, <2>1, <3>1, <3>2, <3>3
  <2>q. QED BY <2>1, <2>2, <2>3
<1>6. ASSUME n >= 5
      PROVE  s = [i \in 1..6 |-> read'[(n - 5) + i]]
  <2>1. ASSUME NEW i \in 1..6
        PROVE  s[i] = read'[(n - 5) + i]
    <3>1. n + 1 + i > 6 /\ n + 1 + i - 6 = (n - 5) + i
      BY <1>2, <1>6
    <3>2. s[i] = IF n + 1 + i > 6 THEN read'[n + 1 + i - 6] ELSE 0
      BY <1>5
    <3> HIDE DEF s, n
    <3>q. QED BY <3>1, <3>2
  <2>q. QED BY <1>4, <2>1 DEF Frame, HC12_FRAME_SIZE
<1>7. n < 5 => ~Valid(s)
  BY <1>2, <1>5, CodeAssumption DEF Valid
<1>8. ASSUME NEW k \in 0..(n - 6)
      PROVE  /\ [i \in 1..6 |-> read'[k + i]] = [i \in 1..6 |-> read[k + i]]
             /\ read'[k + 1] = read[k + 1] /\ read'[k + 2] = read[k + 2] /\ read'[k + 6] = read[k + 6]
             /\ ~( /\ read[k + 1] = START_BYTE
                   /\ read[k + 2] \in {DEVICE_ID, BROADCAST_ID}
                   /\ read[k + 6] = Checksum([i \in 1..6 |-> read[k + i]]))
  <2>1. \A i \in 1..6 : read'[k + i] = read[k + i]
    BY <1>2, <1>3, <1>8
  <2>2. k \in 0..(Len(read) - HC12_FRAME_SIZE)
    BY <1>8 DEF HC12_FRAME_SIZE
  <2>3. [i \in 1..6 |-> read'[k + i]] = [i \in 1..6 |-> read[k + i]]
    BY <2>1
  <2>4. ~( /\ read[k + 1] = START_BYTE
           /\ read[k + 2] \in {DEVICE_ID, BROADCAST_ID}
           /\ read[k + 6] = Checksum([i \in 1..6 |-> read[k + i]]))
    BY <1>2, <2>2 DEF IInv, FirstValidFrame, FrameAfter, HC12_FRAME_SIZE
  <2>q. QED BY <2>1, <2>3, <2>4
<1>9. n >= 5 =>
        /\ s[1] = read'[(n - 5) + 1] /\ s[2] = read'[(n - 5) + 2] /\ s[6] = read'[(n - 5) + 6]
        /\ Valid(s) <=> /\ read'[(n - 5) + 1] = START_BYTE
                        /\ read'[(n - 5) + 2] \in {DEVICE_ID, BROADCAST_ID}
                        /\ read'[(n - 5) + 6] = Checksum([i \in 1..6 |-> read'[(n - 5) + i]])
  <2>1. ASSUME n >= 5
        PROVE  /\ s[1] = read'[(n - 5) + 1] /\ s[2] = read'[(n - 5) + 2] /\ s[6] = read'[(n - 5) + 6]
               /\ s = [i \in 1..6 |-> read'[(n - 5) + i]]
    <3>1. s = [i \in 1..6 |-> read'[(n - 5) + i]]
      BY <1>6, <2>1
    <3> HIDE DEF s
    <3>q. QED BY <3>1
  <2>2. Valid(s) <=> s[1] = START_BYTE /\ s[2] \in {DEVICE_ID, BROADCAST_ID} /\ Checksum(s) = s[6]
    BY DEF Valid, HC12_FRAME_SIZE
  <2> HIDE DEF s
  <2>q. QED BY <2>1, <2>2
<1>10. Decoded(s) # NoCommand
  <2>1. s[3] \in Byte
    BY <1>4 DEF Frame, HC12_FRAME_SIZE
  <2>2. s[3] # -1
    BY <2>1, ByteAssumption DEF Byte
  <2>q. QED BY <2>2 DEF Decoded, NoCommand
<1>11. Reading'
  BY <1>1, <1>2, <1>3, <1>4, ClearedTyped DEF Reading
<1>12. WindowHolds'
  BY <1>1, <1>2, <1>3, <1>5 DEF WindowHolds, HC12_FRAME_SIZE
<1>13. FirstValidFrame'
  <2>1. Len(read') - 6 = n - 5
    BY <1>2, <1>3
  <2>2. command' # NoCommand <=> Valid(s)
    BY <1>1, <1>2, <1>10
  <2>3. ASSUME Valid(s)
        PROVE  /\ n - 5 >= 0
               /\ /\ read'[(n - 5) + 1] = START_BYTE
                  /\ read'[(n - 5) + 2] \in {DEVICE_ID, BROADCAST_ID}
                  /\ read'[Len(read')] = Checksum([i \in 1..6 |-> read'[(n - 5) + i]])
               /\ command' = Decoded([i \in 1..6 |-> read'[(n - 5) + i]])
    <3>1. n >= 5
      BY <1>2, <1>7, <2>3
    <3>2. Len(read') = (n - 5) + 6
      BY <1>2, <1>3
    <3>3. command' = Decoded(s)
      BY <1>1, <2>3
    <3>4. s = [i \in 1..6 |-> read'[(n - 5) + i]]
      BY <1>6, <3>1
    <3>5. n - 5 >= 0
      BY <1>2, <3>1
    <3> HIDE DEF s, n
    <3>q. QED BY <1>9, <2>3, <3>1, <3>2, <3>3, <3>4, <3>5
  <2>4. ASSUME NEW k \in 0..(n - 5),
               read'[k + 1] = START_BYTE,
               read'[k + 2] \in {DEVICE_ID, BROADCAST_ID},
               read'[k + 6] = Checksum([i \in 1..6 |-> read'[k + i]])
        PROVE  k = n - 5 /\ Valid(s)
    <3>1. ~(k \in 0..(n - 6))
      BY <1>8, <2>4
    <3>2. k = n - 5 /\ n >= 5
      BY <1>2, <3>1
    <3>q. QED BY <1>9, <2>4, <3>2
  <2>q. QED BY <2>1, <2>2, <2>3, <2>4 DEF FirstValidFrame, FrameAfter, HC12_FRAME_SIZE
<1>q. QED BY <1>11, <1>12, <1>13 DEF IInv

(* The other steps read nothing. *)
LEMMA OthersInv ==
  ASSUME IInv, Answer \/ WindowEnds \/ Receive \/ UNCHANGED vars
  PROVE  IInv'
<1>1. UNCHANGED <<window, read, command>> /\ (pc' = "closed" \/ UNCHANGED pc)
  BY DEF Answer, WindowEnds, Receive, vars
<1>q. QED BY <1>1 DEF IInv, Reading, WindowHolds, FirstValidFrame, FrameAfter

(* A new connection starts afresh. *)
LEMMA AcceptInv ==
  ASSUME Accept
  PROVE  IInv'
<1>1. pc' = "read" /\ read' = <<>> /\ window' = Cleared /\ command' = NoCommand
  BY DEF Accept, LinkInit
<1>2. Reading'
  BY <1>1, ClearedTyped DEF Reading
<1>3. WindowHolds'
  BY <1>1 DEF WindowHolds, Cleared, HC12_FRAME_SIZE
<1>4. FirstValidFrame'
  BY <1>1 DEF FirstValidFrame, HC12_FRAME_SIZE
<1>q. QED BY <1>2, <1>3, <1>4 DEF IInv

LEMMA Invariance == Spec => []IInv
<1>1. IInv /\ [Next]_vars => IInv'
  BY CheckInv, OthersInv, AcceptInv DEF Next
<1>q. QED BY <1>1, InitInv, PTL DEF Spec

-----------------------------------------------------------------------------
(* An accepted command is the first valid frame among the bytes of its own *)
(* connection, for every byte size and every stream.                       *)
THEOREM FirstFrameFound == Spec => []FirstValidFrame
<1>1. IInv => FirstValidFrame
  BY DEF IInv
<1>q. QED BY <1>1, Invariance, PTL

-----------------------------------------------------------------------------
(* The remainder, as the integers define it. *)
LEMMA Remainder ==
  ASSUME NEW v \in Int, NEW n \in Int, n > 0
  PROVE  v % n = v - n * (v \div n)
OBVIOUS

(* A word is split into two bytes that give it back. *)
LEMMA SplitWord ==
  ASSUME NEW v \in Word
  PROVE  \E high, low \in Byte :
           high = (v \div ByteSize) % ByteSize /\ low = v % ByteSize /\ high * ByteSize + low = v
<1> DEFINE n == ByteSize
           q == v \div n
           r == v % n
<1>0. n \in Nat /\ n > 0 /\ v \in Nat /\ v < n * n
  BY ByteAssumption DEF Word
<1>1. q \in Nat /\ r \in 0..(n - 1) /\ r = v - n * q
  BY <1>0, Remainder
<1> HIDE DEF n, q, r
<1>2. n * q \in Int /\ n * q = q * n
  BY <1>0, <1>1
<1>3. v = q * n + r
  BY <1>0, <1>1, <1>2
<1>4. q >= n => q * n >= n * n
  BY <1>0, <1>1
<1>5. q < n
  <2>1. q * n \in Nat /\ n * n \in Nat
    BY <1>0, <1>1
  <2>q. QED BY <1>0, <1>1, <1>3, <1>4, <2>1
<1>6. q \in 0..(n - 1) /\ q % n = q
  BY <1>0, <1>1, <1>5
<1>q. QED BY <1>1, <1>3, <1>6 DEF n, q, r, Byte

(* Appending a byte changes none of the others. *)
LEMMA AppendByte ==
  ASSUME NEW s \in Seq(Byte), NEW b \in Byte
  PROVE  /\ Append(s, b) \in Seq(Byte) /\ Len(Append(s, b)) = Len(s) + 1
         /\ \A i \in 1..Len(s) : Append(s, b)[i] = s[i]
BY AppendProperties

(* The six bytes of a response. *)
LEMMA ResponseBytes ==
  ASSUME NEW cmd \in Byte, NEW v \in Word
  PROVE  /\ Response(cmd, v) \in Seq(Byte) /\ Len(Response(cmd, v)) = 6
         /\ Response(cmd, v)[3] = cmd
         /\ Response(cmd, v)[4] * ByteSize + Response(cmd, v)[5] = v
<1>1. PICK high \in Byte, low \in Byte :
        high = (v \div ByteSize) % ByteSize /\ low = v % ByteSize /\ high * ByteSize + low = v
  BY SplitWord
<1> DEFINE head == <<START_BYTE, DEVICE_ID, cmd, high, low>>
           last == Checksum(head)
<1>2. /\ head \in Seq(Byte) /\ Len(head) = 5
      /\ head[3] = cmd /\ head[4] = high /\ head[5] = low
  BY CodeAssumption
<1>3. last \in Byte
  <2>1. /\ 0 \in Byte /\ head[1] \in Byte /\ head[2] \in Byte
        /\ head[3] \in Byte /\ head[4] \in Byte /\ head[5] \in Byte
    BY CodeAssumption, ByteAssumption DEF Byte
  <2> HIDE DEF head
  <2>q. QED BY <2>1, XorAssumption DEF Checksum
<1>4. Response(cmd, v) = Append(head, last)
  BY <1>1 DEF Response
<1> HIDE DEF head, last
<1>5. /\ Append(head, last) \in Seq(Byte) /\ Len(Append(head, last)) = 6
      /\ \A i \in 1..5 : Append(head, last)[i] = head[i]
  <2>1. Len(Append(head, last)) = Len(head) + 1 /\ Append(head, last) \in Seq(Byte)
    BY <1>2, <1>3, AppendByte
  <2>2. \A i \in 1..Len(head) : Append(head, last)[i] = head[i]
    BY <1>2, <1>3, AppendByte
  <2>3. Len(head) + 1 = 6
    BY <1>2
  <2>q. QED BY <1>2, <2>1, <2>2, <2>3
<1>6. /\ Response(cmd, v)[3] = cmd /\ Response(cmd, v)[4] = high /\ Response(cmd, v)[5] = low
  BY <1>2, <1>4, <1>5
<1>q. QED BY <1>1, <1>4, <1>5, <1>6

(* What the client has and what is still on its way are the response to    *)
(* the accepted command, for the value that was measured.                  *)
OnItsWay ==
  /\ pc # "closed" => wire = <<>> /\ buffer = <<>> /\ data = Nothing
  /\ wire \in Seq(Byte) /\ buffer \in Seq(Byte)
  /\ wire # <<>> =>
       \E v \in Word :
         /\ command.cmd \in Byte
         /\ sample >= 0 => v = sample
         /\ Len(buffer) + Len(wire) = 6
         /\ \A i \in 1..Len(buffer) : buffer[i] = Response(command.cmd, v)[i]
         /\ \A i \in 1..Len(wire) : wire[i] = Response(command.cmd, v)[Len(buffer) + i]

AInv == OnItsWay /\ AnswerDecodes

(* The response is put on the wire as a whole. *)
LEMMA AnswerInv ==
  ASSUME AInv, Answer
  PROVE  AInv'
<1>1. /\ wire = <<>> /\ buffer = <<>> /\ data = Nothing
      /\ pc' = "closed" /\ buffer' = buffer /\ data' = data /\ command' = command
  BY DEF AInv, OnItsWay, Answer, clientVars
<1>2. AnswerDecodes'
  BY <1>1 DEF AnswerDecodes
<1>3. CASE UNCHANGED <<sample, wire>>
  BY <1>1, <1>2, <1>3 DEF AInv, OnItsWay
<1>4. ASSUME NEW v \in Word, command.cmd \in Byte,
             sample' >= 0 => v = sample', wire' = Response(command.cmd, v)
      PROVE  AInv'
  <2>1. wire' \in Seq(Byte) /\ Len(wire') = 6
    BY <1>4, ResponseBytes
  <2>2. buffer' = <<>> /\ Len(buffer') = 0 /\ command' = command
    BY <1>1
  <2>3. /\ Len(buffer') + Len(wire') = 6
        /\ \A i \in 1..Len(buffer') : buffer'[i] = Response(command'.cmd, v)[i]
        /\ \A i \in 1..Len(wire') : wire'[i] = Response(command'.cmd, v)[Len(buffer') + i]
    BY <1>4, <2>1, <2>2
  <2>q. QED BY <1>1, <1>2, <1>4, <2>1, <2>2, <2>3 DEF AInv, OnItsWay
<1>5. CASE /\ command.cmd = CMD_READ_ADC
           /\ \E v \in Word : sample' = v /\ wire' = Response(CMD_READ_ADC, v)
  BY <1>4, <1>5, CodeAssumption
<1>6. CASE /\ command.cmd = CMD_READ_TEMP
           /\ \E t \in Temperatures : \E v \in TempRaw(t) :
                sample' = t /\ wire' = Response(CMD_READ_TEMP, v)
  <2>1. PICK t \in Temperatures : \E v \in TempRaw(t) :
          sample' = t /\ wire' = Response(CMD_READ_TEMP, v)
    BY <1>6
  <2>2. PICK v \in TempRaw(t) : sample' = t /\ wire' = Response(CMD_READ_TEMP, v)
    BY <2>1
  <2>3. v \in Word /\ (t >= 0 => v = t)
    BY <2>2, TemperatureAssumption, ByteAssumption DEF TempRaw, Word
  <2>q. QED BY <1>4, <1>6, <2>2, <2>3, CodeAssumption
<1>q. QED BY <1>3, <1>5, <1>6 DEF Answer

(* The client's window never drops a byte of it, and decodes it whole. *)
LEMMA ReceiveInv ==
  ASSUME AInv, Receive
  PROVE  AInv'
<1> DEFINE got == Append(buffer, Head(wire))
<1>1. /\ wire # <<>> /\ wire \in Seq(Byte) /\ buffer \in Seq(Byte) /\ pc = "closed"
      /\ pc' = pc /\ command' = command /\ sample' = sample /\ asked' = asked
      /\ wire' = Tail(wire) /\ data = Nothing
  BY DEF Receive, AInv, OnItsWay
<1>2. PICK v \in Word :
        /\ command.cmd \in Byte
        /\ sample >= 0 => v = sample
        /\ Len(buffer) + Len(wire) = 6
        /\ \A i \in 1..Len(buffer) : buffer[i] = Response(command.cmd, v)[i]
        /\ \A i \in 1..Len(wire) : wire[i] = Response(command.cmd, v)[Len(buffer) + i]
  BY <1>1 DEF AInv, OnItsWay
<1> DEFINE r == Response(command.cmd, v)
<1>3. /\ Len(wire) \in Nat \ {0} /\ Len(buffer) \in Nat
      /\ Head(wire) = wire[1] /\ Head(wire) \in Byte
      /\ wire' \in Seq(Byte) /\ Len(wire') = Len(wire) - 1
      /\ \A i \in 1..Len(wire') : wire'[i] = wire[i + 1]
  BY <1>1
<1>4. /\ got \in Seq(Byte) /\ Len(got) = Len(buffer) + 1
      /\ \A i \in 1..Len(buffer) : got[i] = buffer[i]
      /\ got[Len(buffer) + 1] = wire[1]
  BY <1>1, <1>3
<1>5. Len(got) + Len(wire') = 6 /\ Len(got) <= 6
  BY <1>2, <1>3, <1>4
<1>6. \A i \in 1..Len(got) : got[i] = r[i]
  <2>1. wire[1] = r[Len(buffer) + 1]
    BY <1>2, <1>3
  <2> HIDE DEF got, r
  <2>2. ASSUME NEW i \in 1..Len(got) PROVE got[i] = r[i]
    <3>1. i \in 1..Len(buffer) \/ i = Len(buffer) + 1
      BY <1>3, <1>4
    <3>q. QED BY <1>2, <1>4, <2>1, <3>1 DEF r
  <2>q. QED BY <2>2
<1>7. \A i \in 1..Len(wire') : wire'[i] = r[Len(got) + i]
  <2> HIDE DEF got, r
  <2>1. ASSUME NEW i \in 1..Len(wire') PROVE wire'[i] = r[Len(got) + i]
    <3>1. i + 1 \in 1..Len(wire) /\ Len(buffer) + (i + 1) = Len(got) + i
      BY <1>3, <1>4
    <3>q. QED BY <1>2, <1>3, <3>1 DEF r
  <2>q. QED BY <2>1
<1>8. /\ buffer' = got
      /\ data' # Nothing => Len(got) = 6 /\ got[3] = asked /\ data' = got[4] * ByteSize + got[5]
  <2>1. ~(Len(got) > HC12_FRAME_SIZE)
    BY <1>4, <1>5 DEF HC12_FRAME_SIZE
  <2> HIDE DEF got
  <2>q. QED BY <1>1, <2>1 DEF Receive, HC12_FRAME_SIZE, got
<1>9. OnItsWay'
  <2> HIDE DEF got
  <2>q. QED BY <1>1, <1>2, <1>3, <1>4, <1>5, <1>6, <1>7, <1>8 DEF OnItsWay, r
<1>10. AnswerDecodes'
  <2>1. ASSUME data' # Nothing, sample >= 0 PROVE data' = sample /\ command.cmd = asked
    <3>1. Len(got) = 6 /\ got[3] = asked /\ data' = got[4] * ByteSize + got[5]
      BY <1>8, <2>1
    <3>2. got[3] = r[3] /\ got[4] = r[4] /\ got[5] = r[5]
      BY <1>6, <3>1
    <3>3. r[3] = command.cmd /\ r[4] * ByteSize + r[5] = v
      BY <1>2, ResponseBytes
    <3> HIDE DEF got, r
    <3>q. QED BY <1>2, <2>1, <3>1, <3>2, <3>3
  <2>q. QED BY <1>1, <2>1 DEF AnswerDecodes
<1>q. QED BY <1>9, <1>10 DEF AInv

(* No other step touches the response. *)
LEMMA NextAnswer == AInv /\ [Next]_vars => AInv'
<1> SUFFICES ASSUME AInv, [Next]_vars PROVE AInv'
  OBVIOUS
<1>1. CASE Accept
  BY <1>1 DEF Accept, AInv, OnItsWay, AnswerDecodes
<1>2. CASE CheckForCommand
  <2>1. /\ wire = <<>> /\ buffer = <<>> /\ data = Nothing
        /\ UNCHANGED <<sample, wire, buffer, data>>
    BY <1>2 DEF CheckForCommand, AInv, OnItsWay, clientVars
  <2>q. QED BY <2>1 DEF AInv, OnItsWay, AnswerDecodes
<1>3. CASE WindowEnds
  <2>1. /\ wire = <<>> /\ buffer = <<>> /\ data = Nothing
        /\ UNCHANGED <<sample, wire, buffer, data>>
    BY <1>3 DEF WindowEnds, AInv, OnItsWay, clientVars
  <2>q. QED BY <2>1 DEF AInv, OnItsWay, AnswerDecodes
<1>4. CASE UNCHANGED vars
  BY <1>4 DEF vars, AInv, OnItsWay, AnswerDecodes
<1>q. QED BY <1>1, <1>2, <1>3, <1>4, AnswerInv, ReceiveInv DEF Next

(* What the client decodes is the value that was measured for the command  *)
(* it asked for, for bytes of any size; the rounding of a temperature that *)
(* is not negative is exact.                                               *)
THEOREM AnswersDecode == Spec => []AnswerDecodes
<1>1. Init => AInv
  BY DEF Init, AInv, OnItsWay, AnswerDecodes
<1>2. AInv => AnswerDecodes
  BY DEF AInv
<1>q. QED BY <1>1, <1>2, NextAnswer, PTL DEF Spec

-----------------------------------------------------------------------------
(* Types: the client's window needs no more than a frame because nothing   *)
(* is in it when a response is put on the wire.                            *)
TInv ==
  /\ TypeOK
  /\ pc # "closed" => wire = <<>> /\ buffer = <<>>

(* Two bytes make a word. *)
LEMMA JoinedWord ==
  ASSUME NEW high \in Byte, NEW low \in Byte
  PROVE  high * ByteSize + low \in Word
<1>1. ByteSize \in Nat /\ high \in Nat /\ low \in Nat /\ high <= ByteSize - 1 /\ low <= ByteSize - 1
  BY ByteAssumption DEF Byte
<1>2. high * ByteSize <= (ByteSize - 1) * ByteSize
  BY <1>1
<1>3. (ByteSize - 1) * ByteSize = ByteSize * ByteSize - ByteSize
  BY <1>1
<1>4. high * ByteSize \in Nat /\ ByteSize * ByteSize \in Nat
  BY <1>1
<1>q. QED BY <1>1, <1>2, <1>3, <1>4 DEF Word

LEMMA CheckTyped ==
  ASSUME TInv, CheckForCommand
  PROVE  TInv'
<1>1. PICK b \in Byte :
        /\ read' = Append(read, b)
        /\ \/ /\ command' = Decoded(Shift(window, b)) /\ window' = Cleared /\ pc' = "answer"
           \/ window' = Shift(window, b) /\ UNCHANGED <<command, pc>>
  BY DEF CheckForCommand
<1>2. Shift(window, b) \in Frame
  BY ShiftTyped DEF TInv, TypeOK
<1>3. window' \in Frame /\ pc' \in {"read", "answer"}
  BY <1>1, <1>2, ClearedTyped DEF CheckForCommand
<1>4. command' \in [cmd : Byte, pin : Byte, value : Byte, broadcast : BOOLEAN] \cup {NoCommand}
  <2>1. Decoded(Shift(window, b)) \in [cmd : Byte, pin : Byte, value : Byte, broadcast : BOOLEAN]
    BY <1>2 DEF Decoded, Frame, HC12_FRAME_SIZE
  <2>q. QED BY <1>1, <2>1 DEF TInv, TypeOK
<1>5. read' \in Seq(Byte) /\ Len(read') <= MaxBytes
  <2>1. read \in Seq(Byte) /\ Len(read) \in Nat /\ Len(read) < MaxBytes
    BY DEF TInv, TypeOK, CheckForCommand
  <2>2. read' \in Seq(Byte) /\ Len(read') = Len(read) + 1
    BY <1>1, <2>1, AppendByte
  <2>q. QED BY <2>1, <2>2, BytesAssumption
<1>6. UNCHANGED <<sample, wire, asked, buffer, data>> /\ pc = "read"
  BY DEF CheckForCommand, clientVars
<1>q. QED BY <1>3, <1>4, <1>5, <1>6 DEF TInv, TypeOK

LEMMA AnswerTyped ==
  ASSUME TInv, Answer
  PROVE  TInv'
<1>1. /\ wire = <<>> /\ buffer = <<>> /\ pc' = "closed"
      /\ UNCHANGED <<window, read, command, asked, buffer, data>>
  BY DEF TInv, Answer, clientVars
<1>2. ASSUME NEW cmd \in Byte, NEW v \in Word, wire' = Response(cmd, v)
      PROVE  wire' \in Seq(Byte) /\ Len(wire') + Len(buffer') <= HC12_FRAME_SIZE
  <2>1. wire' \in Seq(Byte) /\ Len(wire') = 6
    BY <1>2, ResponseBytes
  <2>2. Len(buffer') = 0
    BY <1>1
  <2>q. QED BY <2>1, <2>2 DEF HC12_FRAME_SIZE
<1>3. CASE UNCHANGED <<sample, wire>>
  BY <1>1, <1>3 DEF TInv, TypeOK
<1>4. CASE \E v \in Word : sample' = v /\ wire' = Response(CMD_READ_ADC, v)
  BY <1>1, <1>2, <1>4, CodeAssumption DEF TInv, TypeOK
<1>5. CASE \E t \in Temperatures : \E v \in TempRaw(t) :
             sample' = t /\ wire' = Response(CMD_READ_TEMP, v)
  <2>1. PICK t \in Temperatures : \E v \in TempRaw(t) :
          sample' = t /\ wire' = Response(CMD_READ_TEMP, v)
    BY <1>5
  <2>2. PICK v \in TempRaw(t) : sample' = t /\ wire' = Response(CMD_READ_TEMP, v)
    BY <2>1
  <2>3. v \in Word
    BY TemperatureAssumption, ByteAssumption DEF TempRaw, Word
  <2>4. wire' \in Seq(Byte) /\ Len(wire') + Len(buffer') <= HC12_FRAME_SIZE
    BY <1>2, <2>2, <2>3, CodeAssumption
  <2>q. QED BY <1>1, <2>2, <2>4 DEF TInv, TypeOK
<1>q. QED BY <1>3, <1>4, <1>5 DEF Answer

LEMMA ReceiveTyped ==
  ASSUME TInv, Receive
  PROVE  TInv'
<1> DEFINE got == Append(buffer, Head(wire))
<1>1. /\ wire # <<>> /\ wire \in Seq(Byte) /\ buffer \in Seq(Byte) /\ pc = "closed"
      /\ Len(wire) + Len(buffer) <= 6
      /\ UNCHANGED <<pc, window, read, command, sample, asked>>
      /\ wire' = Tail(wire)
  BY DEF Receive, TInv, TypeOK, HC12_FRAME_SIZE
<1>2. /\ Len(wire) \in Nat \ {0} /\ Len(buffer) \in Nat /\ Head(wire) \in Byte
      /\ wire' \in Seq(Byte) /\ Len(wire') = Len(wire) - 1
  BY <1>1
<1>3. got \in Seq(Byte) /\ Len(got) = Len(buffer) + 1
  BY <1>1, <1>2, AppendByte
<1> HIDE DEF got
<1>4. Len(got) <= 6 /\ Len(wire') + Len(got) <= 6
  BY <1>1, <1>2, <1>3
<1>5. /\ buffer' = got
      /\ data' = IF /\ Len(got) = 6
                    /\ got[1] = START_BYTE
                    /\ Checksum(got) = got[6]
                    /\ got[3] = asked
                 THEN got[4] * ByteSize + got[5]
                 ELSE data
  <2>1. ~(Len(got) > HC12_FRAME_SIZE)
    BY <1>3, <1>4 DEF HC12_FRAME_SIZE
  <2>q. QED BY <2>1 DEF Receive, HC12_FRAME_SIZE, got
<1>6. data' \in Word \cup {Nothing}
  <2>1. CASE data' = data
    BY <2>1 DEF TInv, TypeOK
  <2>2. CASE Len(got) = 6 /\ data' = got[4] * ByteSize + got[5]
    <3>1. got[4] \in Byte /\ got[5] \in Byte
      <4>1. got \in Seq(Byte)
        BY <1>3
      <4>2. 4 \in 1..Len(got) /\ 5 \in 1..Len(got)
        BY <2>2
      <4>q. QED BY <4>1, <4>2, ElementOfSeq
    <3>q. QED BY <2>2, <3>1, JoinedWord
  <2>q. QED BY <1>5, <2>1, <2>2
<1>q. QED BY <1>1, <1>2, <1>3, <1>4, <1>5, <1>6 DEF TInv, TypeOK, HC12_FRAME_SIZE

(* Every variable keeps its type, and neither the response nor the         *)
(* client's window is ever longer than a frame.                            *)
THEOREM TypeCorrect == Spec => []TypeOK
<1>1. Init => TInv
  BY ClearedTyped, BytesAssumption DEF Init, TInv, TypeOK, HC12_FRAME_SIZE
<1>2. TInv /\ [Next]_vars => TInv'
  <2> SUFFICES ASSUME TInv, [Next]_vars PROVE TInv'
    OBVIOUS
  <2>1. CASE Accept
    BY <2>1, ClearedTyped, BytesAssumption DEF Accept, LinkInit, TInv, TypeOK, HC12_FRAME_SIZE
  <2>2. CASE WindowEnds \/ UNCHANGED vars
    BY <2>2 DEF WindowEnds, clientVars, vars, TInv, TypeOK
  <2>q. QED BY <2>1, <2>2, CheckTyped, AnswerTyped, ReceiveTyped DEF Next
<1>3. TInv => TypeOK
  BY DEF TInv
<1>q. QED BY <1>1, <1>2, <1>3, PTL DEF Spec
=============================================================================
