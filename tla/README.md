# LuxFlash in TLA+

LuxFlash is a light sensor: an RP2040 board with an ESP8285 AT modem on a UART.
A script (`light_test.py`) asks the board over TCP for an ADC value and for the
CPU temperature and saves both to a database. Once per boot the board also
looks for new firmware on an HTTP server and, if it verifies, installs it.

This directory models what is hard in it: a hand-written parser of a byte
stream that other code throws pieces of away, blocking AT commands that share
the UART with the requests they delay, retries on both sides, and an update
that must survive corruption, half-published files and power losses.

## The system: parts, state, interaction

| Part | State | Operations | Correct when |
|---|---|---|---|
| `Esp8285Server` (`Esp8285Server.cpp/.h`) | the parser (`g_state`, `g_matchPos`, `g_incomingLinkId`, `g_payloadLen`, `g_payloadRemaining`), the served connection (`Esp8285ServerClient`) | `begin`, `poll`/`feedByte`, `read`, `write`, `flush`, `closeClient` | no index or counter leaves its range; every whole frame is found; a connection is never given another one's data |
| `Esp8285WiFi` (`Esp8285WiFi.cpp/.h`) | `_joined`, the UART | `begin`, `joinAP`, `isJoined`, `sendCommand` | a command's result is the modem's; the modem is ready for the next one |
| `main.cpp` | `serverRunning`, `lastReconnectAttempt`, the served connection | `setup`, `loop`, `maintainWifiConnection`, `startServer`, `readTempRaw` | every connection is given up eventually; the server is up when the WiFi is |
| `HC12Link` | a six-byte window | `checkForCommand`, `sendResponse` | a command is taken once, whatever garbage precedes it |
| `wflink_link.py`, `light_test.py` | the attempt, the socket, the values so far | `read_adc`, `read_temp`, `log_to_database` | a value is saved as what it is; retries outlast what the board does |
| `WiFlashOta` (`WiFlashOta.cpp/.h`) | the locals of one check; `firmware.bin`, `current.md5` and the boot loader's command on flash | `wiflashDownloadAndApply` and its helpers | only a verified image is handed over, a published image runs, a check ends |
| `WiFlashApp` | - | `wiflashAppSetup` | one check per boot |
| `Esp8285Client` | an `+IPD` parser, a line buffer, RX and TX buffers | `connect`, `read`, `write`, `flush`, `stop`, ... | bytes arrive in order or the loss is noticed |
| `light_measures.php` | none | one `SELECT` | (not modelled) |

`loop()` calls `maintainWifiConnection()` and `poll()` in turn; both read the
same UART. Requests and AT responses arrive on it mixed. Before every command,
`sendCommand()` and `flush()` discard what is waiting, and while they wait for
their response they consume what arrives. The AT modem itself (ESP-AT), the
boot loader and the publishing side are not in the repository; they are modelled
from what the code in `src/` sends to them and expects of them, and are marked
external in the map.

## Modules

| Module | Models | Composes |
|---|---|---|
| `FrameServer` | abstract: the server at the level of whole `+IPD` frames | |
| `Esp8285Server` | `Esp8285Server.cpp` byte by byte, in the order `loop()` calls it | shown to implement `FrameServer` |
| `LightQuery` | a query end to end: `light_test.py` processes, the modem, the AT layer, `loop()` | uses the actions of `FrameServer` |
| `Boot` | `setup()`, `WiFlashApp`, `startServer()` and the upkeep of the WiFi and the server, command by command | |
| `Hc12Frames` | the six-byte frames: the board's window, its answer, the script's window | |
| `ByteQueue` | abstract: a receive queue that loses bytes only when it is full | |
| `Esp8285Client` | `Esp8285Client.cpp` byte by byte, used as `fetchSome()` uses it | shown to implement `ByteQueue` |
| `WiFlashOta` | one update check per boot, the publisher, the boot loader, faults | |
| `MC...` | instances for TLC | |
| `Esp8285ServerProofs`, `Esp8285ServerSyncProofs`, `Esp8285ClientProofs`, `Esp8285ClientStreamProofs`, `LightQueryProofs`, `BootProofs`, `Hc12FramesProofs`, `WiFlashOtaProofs` | theorems and proofs | |

Definitions whose comment begins with "Mutant" are not part of a model: they
are wrong variants of the definition that follows them, kept to show that the
properties can fail.

### Esp8285Server

`ipd` holds the five parser variables, `client` the connection object.
`FeedByte` is one round of `poll()`; its disjuncts are the cases of
`feedByte()`. `Read`, `Write`, `Flush`, `CloseClient` are the operations of the
connection, and `phase` is the place in `loop()` that decides which may come
next. `wire` is what the modem has still to deliver of its message `msg`. An AT
command (`Eaten`) leaves an arbitrary suffix of this or a later message: that is
exactly what a discard at an arbitrary moment can do. Two history variables
limit what is claimed: `whole` - the parser, outside a payload, is fed `msg` from
its first byte; `clean` - that was so for the frame that elected the served
connection.

* `InBounds`: array accesses, `_txLen`, and no unsigned decrement of zero.
* `PayloadOwned`: payloads are counted only while somebody is served and stored
  only if they are his. Without it the AT commands of the WiFi check could cut a
  payload the parser is counting.
* `InSync`: after any garbage a whole frame is recognised, with the right length
  and link id.
* `RequestFromStart`: what the sketch reads of a connection elected by a whole
  frame is what that connection sent, from the first byte on, without a gap.
* `ImplementsFrameServer`: refinement of `FrameServer`, with the parser's
  header states mapped to "no frame".

### LightQuery

One "byte" per request: the frame-level server with one-element payloads. A
header reaches the board in two pieces, `+IPD,<id>` and `,<length>:`, and the
parser keeps the first one (`half`) over the AT commands of a WiFi check; only
the next piece, or `closeClient()`, takes it away. The response
text is reduced to which searches it satisfies. Every request has a NUL in its
VALUE byte, and `strstr()` stops at it: `at.masked`. `modem.job` is what the
modem does; a line that comes while it waits for the data of a CIPSEND is
that data (`SendLine`). Processes follow `light_test.py`: attempts, timeouts,
the echo test, giving up without an ADC value, saving without a temperature.

`setting` is the environment, fixed for a behaviour: `timely` - nobody times out
while what he waits for can still come (the usual case: the timeouts of seconds
are long compared with the modem); otherwise any wait ends at any time, and
replies escape the discards. `tears` - a check of the WiFi connection may begin
when the parser has read half a header. `refuses` - the modem may answer ERROR
to a command that configures or joins. `ticks` - how many checks there may be,
each at any time `loop()` gets to it; `attempts` per query. Which property is
claimed where:

| Property | Environments |
|---|---|
| `NeverWedged` | all |
| `ModemReady` | timely; headers torn or not, refusals or not |
| `OwnAnswers` | timely, no header torn. If one is torn, an answer may reach the wrong process: `AnswersTheAsker` in place of `OwnAnswers` in the configuration of `query_two` is violated |
| `BothSaved` | timely, one process, no refusals, at most one check, headers torn or not. It promises the light reading, and the temperature too unless the check happened |

`BothSaved` promises no more because no more holds. The AT+CIPCLOSE of the
previous answer may kill the first attempt of the second query, and that of the
killed attempt the second; a check then costs the third, by tearing its header,
hiding its request, or reconnecting - misled by a request that hid the answer of
AT+CWJAP? - which drops every link. Then the row is saved without a temperature,
as the script intends. A second check can cost the light reading as well.

What is coarser than the code. The two pieces of a header are cut where a half
header leads to another link id. Cuts inside the id or the length (a link 10, a
length 66, an id never read) need the bytes, and are in `Esp8285Server`. A
timely discard leaves nothing in the UART: a frame still arriving then is the
same as one passed on just after. What arrives while a command waits is consumed
piece by piece, and `sendCommand()` may return between two pieces of a frame
(`NothingArrived`), so commands tear headers at either end.

### Boot

`pc` is the AT command the sketch is at and the function on whose behalf; `at`
says whether it is to be sent, sent, or what it was answered. The modem is not
restarted with the board, carries a command out or refuses it whenever it likes,
drops a line that reaches it while it is busy, and loses and regains the access
point by itself (`Radio`). A command that returned by timeout may be answered
while the next one waits, and passes for its answer. `env` fixes what kind of
modem it is: `survives`, it keeps CIPMUX=1 and its server when it joins again
(the comments of the code leave that open); `crossing`, a late answer may also
reach the sketch just as the next line reaches the modem.

* `OtaOnSingleConnection`: `Esp8285Client` parses `+IPD,<length>:` without a
  link id, so the update check must not run on a modem in the other mode - which
  is the mode a restarted board finds it in.
* `ServerIsUp`: `serverRunning` is not wrong about a modem that survives.
* `ServerComesUp`, `ServerComesBack` (violated).

The two safety properties exclude `crossing`: a late OK that arrives after the discard of
`sendCommand()` while the line is accepted cannot be told from an answer in
time, so neither can hold there. `ServerComesUp` is a claim about the same
modems.

### Hc12Frames

One connection after the other; the peer sends any bytes, `CheckForCommand` is
one round of the window's loop, `Answer` is `loop()`'s switch with
`sendResponse()`, `Receive` one `recv(1)` of the script. A byte has `ByteSize`
values and the checksum is a constant operator, so that the proof covers 256
and XOR and TLC takes two bits. `TempRaw` of a negative temperature is any word:
the conversion of a negative `float` to `uint16_t` is undefined.

* `FirstValidFrame`: the accepted command is the first frame in the bytes of its
  own connection - none is skipped, none is completed from an earlier
  connection or from the cleared window.
* `AnswerDecodes`: what the script decodes is what the board measured for the
  command it asked for (temperatures that are not negative).
  Below zero the conversion of a `float` to `uint16_t` is undefined and any word
  may be decoded; nothing is promised.

### Esp8285Client

`ipd`, `line`, `rx`, `tx`, `connected` are the members of the object; `FeedByte`
is one byte of `pollIncoming()`, its disjuncts the cases of
`processIncomingByte()`. `pc` is where `fetchSome()` and `HTTPClient` are:
writing the request, `available()`/`read()`, or the `connected()` after an empty
`available()`. Every AT exchange (`Swallow`, `Connect`, `Stop`) throws away what
arrives in it, all of it or up to where the exchange ends.

`modem` is what AT+CIPSEND leaves behind. After its prompt the modem takes the
next n bytes for data, and `cipSendChunk()` may not have seen that prompt: it
came after the timeout, or a NUL of the response hid it. Then the next AT
command line is part of the request (`Exchange`, `After`, `Passed`), and the
commands of `stop()` and `connect()` are taken for data too (`Interrupted`). Or
a `>` of the response was taken for the prompt: what is written before the real
one is lost, and the modem is left waiting. `prompted` is a history variable:
nothing of that kind happened on this connection. The server sends its response in frames of any of the given sizes
and closes at any time. `clean` is a history variable: nothing of this
connection's stream was thrown away, damaged or dropped by a full buffer.

* `StreamExact`: while clean, what is unread is exactly what the server sent
  after what was read - across compactions, partial reads and reconnections of a
  torn connection.
* `ClosedIsSeen`: while clean, the client thinks itself connected until it has
  read the modem's `CLOSED` line and no longer. The response of the instance is,
  to the byte, that line.
* `NothingLeftBehind`: a download ends on a closed connection only with
  everything read that the server sent.
* `RequestInOrder`: whatever prompts are missed, mistaken or late, what the
  server gets of a request is in order and no part of it twice - though AT
  commands may stand in it.
* `RequestInBlocks`: while every prompt is seen, nothing but the request gets to
  the server, and only whole buffers of it are missing, since nobody looks at
  the result of `cipSendChunk()`.
* `FetchEnds`, `ImplementsByteQueue`.

Bounds: one frame arrives in one exchange; a prompt that is too late makes the
connection one that is not clean; `TX_BUF_SIZE <= TX_CHUNK_MAX`, as in the code,
so one buffer is one AT+CIPSEND. `_lineOverflowed` is modelled, but on a clean
connection the line buffer never overflows: it matters only after a loss, where
`ClosedIsSeen` claims nothing. What remains there is `InBounds` and `FetchEnds`.

### WiFlashOta

`pc` goes through the steps of `wiflashDownloadAndApply()` in the code's order;
`ram` holds its locals and is lost on a restart; `staging`, `marker`, `otaCmd`,
`running` are flash. The server's four files are replaced one at a time. A block
is its content and whether it was corrupted in a way CRC32 sees or not. A block
whose pieces come from two versions of the file fails its CRC. `getSize()` of -1
becomes 2^32 - 1, for which the computed number of blocks is 0 (`NoLength`).
`faults` is the set of things that may go wrong, fixed for a behaviour.

* `PendingIsVerified`: a stored command always has its verified file, up to the
  end of the copy, through any number of power losses.
* `RunsPublished`: the application is a complete published image.
* `CheckEnds`; `Converges`: without faults the last image runs at last.

## Runs and bounds

| Run | Bounds | Shows |
|---|---|---|
| `server_cut` | buffers of 2, counters modulo 2 and 7, three messages: a one-byte frame, a six-byte payload that looks like a header, a status line | bounds, ownership, resynchronisation, no mixing, refinement under arbitrary cuts |
| `server_splice` | as `server_cut` | **violation** of `SetUpForItsData` |
| `query_one` | one process, two link ids, one WiFi check: timely with three attempts, headers torn and no refusals; or untimely with one attempt | the values are saved; a served connection is given up |
| `query_two` | two processes (symmetric), two link ids: timely with three attempts and a WiFi check, with refusals or with torn headers; or untimely with one attempt each | answers go home unless a header is torn; the modem is ready |
| `query_close`, `query_masked` | one process, timely; without and with a WiFi check | **violations** of `CloseIsHarmless`, `LiveQuery` |
| `client_fetch` | a `>` and the `CLOSED` line as response, frames of 4 and 5 bytes, a request of 3, AT commands of which 1 or 3 bytes reach a waiting modem, TX buffer of 2, RX buffer of 3, line buffer of 7, lengths modulo 10 | streams, closing, requests, bounds, refinement, the end of a download |
| `boot_server` | the code's three attempts, two restarts, all four kinds of modem | modes, `serverRunning`, the server comes up |
| `boot_stale` | a modem that loses its mode, no restart | **violation** of `ServerComesBack` |
| `hc12_stream` | bytes of two bits, eight bytes per connection, any number of connections, a negative temperature among five | the first valid frame, the decoded answer |
| `ota_faults` | three images that share blocks and differ in length, two tries per block, all faults or none | verified, complete images; a check ends; the last image runs |
| `ota_marker` | two images, power losses | **violation** of `UpToDateMeansRunning` |

Why these are enough. The parsers' control depends on a counter being zero, one
or more and on a buffer being full or not: two or three cells reach every
branch, compaction of a full buffer and the loss of a byte included. A modulus
just above the longest payload lets a counter wrap if anything is wrong with it.
The line buffer of seven is the shortest that can hold `CLOSED` and its NUL; the
response of nine bytes is longer than it and, cut into frames of four and five
in both orders, leaves every part of the line before and after a header. Its
first byte can be taken for a prompt. The request of three goes out as a full
buffer and a rest; a command of one byte leaves a modem that waits for two still
waiting, one of three fills it.

Two link ids are the least for which a link is reused while another is taken,
two processes the least for which a header can be completed by somebody else's.
Three attempts are `RETRY_COUNT`. One check is what `BothSaved` outlasts; the
other properties of `LightQuery` are proved for any number of checks, links and
processes. `NeverWedged` with one check has every command of the sketch in its
behaviours, and what a check leaves behind - half a header, a modem out of
step - when the next connection is served. Two restarts let the board start
twice on a modem in the wrong mode. Eight bytes hold a frame with two bytes of garbage before it, or three interleaved candidates. Three
images, the third a prefix-mix of the others, allow each file of a check to be
of another version. `MaxRestarts` bounds the restarts, `setting.ticks` the WiFi
checks, `setting.attempts` the attempts, `CmdSizes` the part of a command that
reaches a modem waiting for data, `MaxBytes`
the bytes of a peer, `RetryCount` and `ServerTries` are the code's own bounds,
`N` bounds publications, `MaxBlockRetries` is the code's constant, smaller.

`CHECK_DEADLOCK FALSE` is set for the runs of `LightQuery` (the scripts end) and
for `server_splice`, which ends at its violation. Nothing else ever stops, and
the other runs check for deadlock.

### Fairness

`LightQuery`: `Board`, `Modem`, each link and each process are weakly fair: the
board runs one loop without blocking calls other than waits with deadlines, a
modem answers, TCP delivers or fails, a script runs. `CheckWifi` is not fair:
nothing may depend on the five-second timer.

`Esp8285Client`: the caller, the parser and the reader are weakly fair - they
are one thread without a wait of their own. `Stalled` is strongly fair: it is a
comparison with a clock that the loop makes in every round in which nothing
arrives, and rounds in which something arrives only lead it back there. The
server and the modem are not fair at all.

`Boot`: `Send`, `Sketch` and `Modem` are weakly fair for the same reasons.
In addition each command is strongly fair to be carried out and heard in time
while it is being waited for: the code calls the modem's refusals "transient" and retries for
that reason, and no number of retries outlasts a modem that always refuses.
`Radio` is free; `ServerComesUp` is about access points that stay in the end.

`WiFlashOta`: `Update` is weakly fair (the board is powered and every wait in
the code has a timeout), `Reboot` because an update is only looked for at boot,
so convergence needs restarts; `Publish` and `Upload` because a publication that
was begun is finished. `PowerLoss` and the faults are never forced.

## What the violations show

* `SetUpForItsData` - A header whose tail an AT command threw away stays in the parser,
  since only `closeClient()` resets it. The tail of another connection's header
  completes it and that connection's data is stored under the first link id. For
  the system (`LightQuery`, `tears`) this means: the second process's request is
  served under the first one's id, and the answer, whose echo fits, is taken by
  the first process for its own.
* `CloseIsHarmless` - the board closes the link id after every answer. The script
  has closed its own end already and may have opened its next connection, on the
  same id: the design document calls the command harmless. Two of the three
  attempts of the temperature query can be lost to it alone.
* `LiveQuery` - a request that arrives during `AT+CWJAP?` hides the response
  (NUL and `strstr`): a joined modem looks disconnected and every link is dropped
  by the reconnect.
* `UpToDateMeansRunning` - the version marker is written before the commit. If the
  power fails in between, or the commit does, the board believes it runs what it
  never installed, until another version is published. The order in the code
  protects against a needless download, at this price.
* `ServerComesBack` - `maintainWifiConnection()` starts the server again after a
  reconnect of its own, since the mode may not survive one. A modem that rejoins
  by itself between two checks looks stable: `isJoined()` is true, `serverRunning`
  still is, and a server that was lost with the mode stays lost.

## Proofs

All proofs are checked by TLAPS and hold for every value of the constants under
the named assumptions in the modules (non-empty buffers and moduli, images that
are non-empty sequences, at least one version and one try, a start byte that is
not zero, a checksum that stays within a byte, a modem that sends well-formed
messages, an outbound frame whose length, of at most two digits, fits the
`uint32_t` that counts it).

`Esp8285ServerProofs`: `IInv` is `TypeOK /\ InBounds /\ PayloadOwned`. None is
inductive alone: that the decrement does not wrap needs `remaining > 0` in the
payload states, ownership needs a typed link id. One lemma per group of
`feedByte()` cases shows what it keeps; `NextInv` has one step per action. From
it follow `TypeCorrect`, `BoundsHold`, `PayloadsOwned`, and `Implements`: every
step is a step of `FrameServer` or leaves its view alone (`StepImplements`).

`Esp8285ServerSyncProofs` proves `InSync` (`InStep`). `FramesAssumption` says
what the modem sends: status lines without a colon, and frames whose header is
`+IPD,`, digits that add up to the link id, a comma, digits that add up to the
length, and a colon. TLC checks it on the messages of the runs. The invariant
`Tracks` says that while a message is fed whole, the parser's state is a
function of the number of bytes read (`At`). It holds at the first byte whatever
searching state the parser is in, because a `+` restarts the search from each of
them (`FirstByte`); `FrameByte` carries it from one byte to the next, with one
case per part of the header. Without it `InSync` is not inductive: it says
nothing about the parser before the colon.

The same module proves `RequestFromStart` (`RequestsFromTheirStart`) with the
invariant `FromStart`: while nothing of the served connection was missed, some
frame of that connection explains the receive buffer (`Repeats`) - the buffer
is that frame's payload, as many times as the frame came and as far as it fits,
and the countdown says how much of the last one is still to come. A colon either elects the connection
with an empty buffer, starts the payload of the served connection after a whole
one (`CountsAll`), or belongs to another link and leaves the buffer alone. The
theorem assumes `OneFrameEach`: a message stream in which a connection's
payload comes in one frame, as in the run that checks the property (a request is
six bytes, and the scripts send it in one piece). With two different frames for
one id the buffer would be an interleaving of both, and the property, which
compares it with one request, would not be the right one.

`Esp8285ClientProofs`: `IInv` is `TypeOK /\ InBounds`, which need each other in
the same way, split into what concerns the object and the rest so that an action
answers only for its half. The refinement rests on two lemmas about the linear
buffer: compacting does not change what is unread (`UnreadCompacted`), and
storing a byte is `Put` whether or not the buffer had to be compacted for it
(`StoredIsPut`). Every action's lemma names its step of `ByteQueue`. For
the request the invariant adds where its bytes are: the buffered ones are
consecutive and start at a multiple of the buffer's size, the unwritten ones
follow them, and what the server has got, and then what the modem holds, is in
order and earlier. While every prompt is seen, the modem holds nothing and the
server has nothing but the request. Results: `TypeCorrect`, `BoundsHold`,
`Implements`, `RequestOrdered` (whatever prompts are missed), `RequestWhole`.

`Esp8285ClientStreamProofs` adds what the client makes of a connection on which
no byte was lost. None of the three properties is inductive: they do not say
where in a message the parser is. `InSync` does, for as long as the connection
is clean:

* `Place` - the parser is between two messages, or in a header, a payload or the
  closing line, and in each case its whole state (the header match, the length
  read so far, the countdown, the line) is a function of how much of that
  message it has read; the rest of the message is what is in the UART (the model
  puts the next one there when it is empty). One lemma per part of a message carries it over
  one byte (`HeaderStep`, `PayloadStep`, `ClosingStep`, `BetweenStep`), whatever
  the payload bytes look like: inside a payload nothing is compared.
* `connected` holds exactly while the link is up or something is still in the
  UART: the closing line is the last message, and its last byte the one that
  disconnects.
* `Streamed` - what the caller read, then what is unread and the payload in
  the UART, are the response up to what the server has sent. Receiving a byte moves the boundary between
  these parts (`PayloadStep`), the modem's next frame extends both sides
  (`FrameBytes`).

Results: `StreamIsExact`, `ClosedWhenSeen`, `AllTaken`, for every response and
every size of the frames and buffers.

`LightQueryProofs`: `TypeInv` adds to the types what the steps rely on, that the
program counter, the command in progress and the served connection go together
(`Serving`). `OwnAnswers` and `ModemReady` say what holds while nobody gives up
early, and neither is inductive: a request may wait behind others in the UART,
its link may be closed by an AT+CIPCLOSE, and the process may be gone. The
invariant `TimelyInv` has `Sync`, in every timely environment; and, if no header
is torn, `Good`, which follows a connection from `Connect` to its answer and
is the conjunction of the parts below `Sync`:

* `Sync` - the modem is at the command the board waits for, or idle, and is idle
  once it has replied; `ModemReady` follows from it. The one exception is a
  prompt the board does not see: the modem waits for data, and takes the next
  command line for it, which only AT+CIPCLOSE can be.
* `Pairs` - every header in the UART is followed by its length and its request
  (`Framed`), and the modem still holds that connection on that link, with a
  process that waits, unless the board is in a `sendCommand()` that will eat the
  piece before it returns (`Doomed`). This is where the flushes of the AT layer
  matter: `CloseLink` and `Join` free links whose requests are on their way.
* `HalfOK` - half a header in the parser is followed by its length and by such a
  request. A check that begins with half a header read breaks this, and only
  this, which is why `OwnAnswers` needs that none does.
* `FrameOK` and `Served` carry the same through the parser and the receive
  buffer until the modem has the answer to send.
* `Once` - a connection is on one link and its request in one place; a request
  the modem has not passed on is nowhere yet; nothing of a connection exists
  before its process has opened it.
* `Inboxes` - what a process has got answers its present attempt.

`StepGood` has one lemma per action (`OnceBoard`, `OnceFrees`, `PairsTaken`,
`PairsSaid`, `KeptGood` and `MovesOnGood` are what they share). TLC agreed with
each part on the two-process instance before it was proved. Results:
`TypeCorrect`, `OwnAnswersHold`, `ModemReadyHolds`.

`BootProofs`: the argument is that a response can only be stale if the modem
dropped the line it is taken for, and that after any response the modem is idle
(`Answered`). Hence a command that follows a positive response is really taken
(`FollowsOK`), which is why `begin()` looking at the result of AT+CIPMUX=0, and
`Esp8285Server::begin()` at that of AT+CIPMUX=1, matters. `SingleMode` and
`ServerThere` carry the mode through the commands; `NoReset` says that nothing
that takes the server away is under way while `serverRunning`. Results:
`TypeCorrect`, `OtaMode`, `ServerTruth`, the last two without `crossing`.

`Hc12FramesProofs`: `WindowHolds` - the window is the last six bytes read, with
zeros before the first - gives both directions of `FirstValidFrame`: a window
that is a frame cannot contain a cleared byte at its start, since the start byte is not
zero, and a frame that was read went through the window. For `AnswerDecodes` the
client's window and the bytes on their way are together the response to the
accepted command (`OnItsWay`), and splitting a word into bytes loses nothing
(`SplitWord`). Results: `TypeCorrect`, `FirstFrameFound`, `AnswersDecode`.

`WiFlashOtaProofs`: the argument follows the update. The file has the same
contents as what went into the MD5 (`Copied`); after step 6 these are the
announced image (`Md5Verified`); after step 6b the file itself is some published
image, and having equal contents it is the announced one although the signature
was fetched separately (`FileVerified`, lemma `SameImage`); the marker is
written for it (`MarkerSaved`); a command exists only from the commit to the
end of the copy, and nobody writes the file meanwhile (`CommandHolds`). Hence
`PendingVerified`, and with `FlashHolds` `RunsPublishedImage`.

Only model-checked: liveness (`NeverWedged`, `BothSaved`, `CheckEnds`,
`Converges`, `FetchEnds`, `ServerComesUp`), because fairness and ENABLED are out
of this prover's reach. Every invariant and every action property of the passing
runs is stated by a theorem.

## Not modelled

* Clients that connect to the board and never send. `Esp8285Server.h` accepts the
  risk, no code deals with them, and what the modem does about them is not in
  the repository.
* CRC32, MD5, SHA-256 and RSA as computations: they are taken to tell files
  apart (CRC32: except for the corruption called "collides").
* The block arithmetic on `size_t`: a file is its list of blocks, except for
  the wrap of a missing length.
* HTTP: `HTTPClient` is a library; `Esp8285Client` sees it write a request and
  read single bytes, pieces, or give up.
* The text of status lines other than `CLOSED` in `Esp8285Client`: the ends of AT
  responses and line ends are there, other lines behave like them. `FeedLine`
  does accept what the code accepts and the comment at
  `Esp8285Client.cpp:209-211` excludes ("EXACTLY"), a line with a CR inside or a
  NUL after `CLOSED`; no run lets the modem send such a line.
* Durations: a timer is a choice between "not yet" and "over".
* The LED, printing, `light_measures.php`, version and key headers, build files:
  no behaviour.

## Plan

`Boot` and `LightQuery` composed: queries during a restart of the server.
