# A TLA+ model of the Windows gamepad receiver

The program receives controller states from a phone over UDP and shows them to
games as a virtual Xbox 360 controller.  This directory models its core in TLA+,
checks it with TLC and proves its main properties with TLAPS.  Paths such as
`UdpReceiver.cpp:113` are under `src/src/`, `README.md:11` is `src/README.md`.

## 1. The system

| Part | State | Operations | Talks to |
| --- | --- | --- | --- |
| `ControllerProcessor` | latest state, last sequence number, first-packet and failsafe flags, time of the last accepted packet | `processPacket`, `checkFailsafe`, `resetToNeutral`, `getLatestState` | counts in `Statistics`; called by the receiver thread, read by the UI |
| `Statistics` | eight atomic counters, two time points | `on...`, `tickOneSecond`, `getSnapshot`, `reset` | written by the receiver thread, read by the UI without a lock |
| `UdpReceiver` | state, running flag, socket, WSA reference, client address, thread | `start`, `stop`, `receiverLoop` | owner thread and receiver thread share all of it; calls processor and gamepad |
| `VirtualGamepad` (`MockGamepad`, `ViGEmGamepad`) | status, last report, driver handles | `initialize`, `connect`, `update`, `reset`, `disconnect` | called by the receiver thread and by `ConnectionManager` |
| `ConnectionManager` | owns the four above | `start`, `stop` | called by `wWinMain` and `MainWindow` |
| `PacketDecoder`, `GamepadMapper` | none | pure functions | receiver thread, gamepad |
| `MainWindow`, `SystemTray` | button label, QR cache, tray icon | message handlers | UI thread; calls `ConnectionManager`, polls everything |
| `QrCode` | Galois tables, filled at the first use | `encode` | `MainWindow` |
| `Logger` | level | `log` | everybody |
| sender (`TestSender`, the phone) | sequence counter | HELLO, stream of states | the network |

What is hard, and what makes each part correct:

* **The network** loses, duplicates, delays and reorders; sequence numbers have
  32 bits and wrap.  Correct: the newest state wins, and a late packet never
  brings back an input that the watchdog released.
* **The watchdog** runs in the receiver thread between two `recvfrom` calls and
  is silenced by a flag.  Correct: held controls are released within a bound,
  and never stay held under a set flag.
* **Two threads** share the receiver without a lock.  Correct: `stop()` always
  comes back, leaves nothing behind, and nothing touches the gamepad after it.
* **Failures** in `start()` and in the driver.  Correct: what was acquired is
  released; a report that failed is not forgotten.
* **Bytes and bits** between the phone and the game: byte order, signs, two sets of
  masks, scaled triggers.  Correct: games see what the player holds, and only
  messages of the protocol are taken for messages.
* **The QR encoder** draws patterns, data, masks and format over each other.
  Correct: a scanner reads the text, and can repair a damaged picture.
* **The UI** reads counters, state and address piecemeal.  Correct: what it
  shows together was true together, or differs in a known way.

`PROJECT.json` lists every hazard at its line, with the property that covers it
or the reason why none does.

## 2. The modules

```
Statistics   ControllerState      PacketDecoder
     \        /        |                |
 ControllerProcessor   |          GamepadMapper
     |    |     \      VirtualGamepad    |           NewestInput (abstract)
     |    |      \       /               |                 ^
     |    |    UdpReceiver --------------|-- implements ---|--> ReceiverStates (abstract)
     |    |         |                    |                 |        |  used by
 PacketStream ------|--------------------|-- implements ---+        v
          |   ConnectionManager          |                      MainWindow
          |                              |
          +-------- InputPath -----------+

 ViGEmGamepad (on its own: the driver behind VirtualGamepad)
 ReedSolomon <- QrCode <- QrReader (the encoder, and the standard it is read by)
```

`X` and `XProofs` belong together, and the proofs about `UdpReceiver` are in
`ConnectionManagerProofs`; `PacketStreamProofs` and
`ConnectionManagerProofs` extend `ControllerProcessorProofs`, and `InputPathProofs`
extends it together with `PacketDecoderProofs`.  `InputPathMC` and `QrReaderMC` give
the constants their values for TLC.

* **Statistics**: one value of the counters as a record, one operator per
  method.  A handler composes them in the order of its calls.  `CounterModulus`
  is the counter's width.
* **ControllerState**: a state is a sequence number and an input; sticks,
  triggers, buttons and d-pad are one value because all of them are copied,
  compared with neutral and reset together.
* **ControllerProcessor**: one action per call, and per return path of
  `processPacket`.  The steady clock is the variable `elapsed`, the ticks since
  `m_lastValidTime`; it stops at `MaxElapsed`, beyond which the code cannot tell
  times apart.  `resetToNeutral` has no caller and is an action of this module
  only.
* **NewestInput**: what the receiver promises.  `newest` is the newest packet that
  arrived, by the order of sending, `content` what it held, and `input`, what is on
  show, is that content, or neutral since the watchdog fired.  A newer packet is
  shown in the step in which it arrives.
* **PacketStream**: a sender, a set of packets in flight and the processor.
  Packets carry the 32-bit number the code sees and an unbounded one it does not
  see, by which the history variables `newest` and `first` judge it; `content` is the
  input that was sent with the newest one.
* **VirtualGamepad**: what games see.  `DriverMayReject` distinguishes the mock,
  which always succeeds, from a driver that may turn reports down; a failing
  `connect()`, whose result nobody looks at, is such a driver.  The history `refused`
  names the calls it turned down since it last took a report.  `disconnect()` may
  take what was shown with it, as the driver does, or leave it, as the mock does.
* **UdpReceiver**: `thread` and `owner` are the places where the two threads are.
  A step runs to the next access to shared state: loop condition, `recvfrom`,
  watchdog, gamepad reset, state, address, processor, gamepad update on one side;
  exchange, close, join, cleanup, open on the other.  Closing the socket and
  setting `m_socket` to `INVALID_SOCKET` is one step, because `recvfrom` fails
  alike on both.  `start()` goes through `WSAStartup`, `socket` and `bind`, each with
  its failure (`Startup`, `StartupFails`, ..., `BindFails`); a failing path returns what
  the calls before it acquired, and is one step, because no thread runs then.
* **ConnectionManager**: connect, then start; stop, then reset, then disconnect,
  around the receiver.  `start` is only called on a stopped receiver, as
  `MainWindow.cpp:114` guards it; the tray's start command, which has no such
  guard, is never reached (`WM_COMMAND` returns before it).
* **ReceiverStates**: what those who look at `m_state` may rely on.  `UdpReceiver`
  and `ConnectionManager` implement it; `MainWindow` uses it for the receiver.
* **ViGEmGamepad**: client, target and library against the bus of an external
  driver, with every failing path of `initialize()` and `connect()`, called as the
  constructor, `start()` and `stop()` of `ConnectionManager` call them.  A report
  is only "holds a control" or "neutral".
* **MainWindow**: one action per message: the button, the port field, the tray's
  commands, minimise, restore, close, paint.  All of them run on the thread that
  owns the receiver, so that `start()` and `stop()` are one step each.  `WM_DESTROY`
  (`Destroy`) only takes the icon away and posts `WM_QUIT`; the receiver runs on until
  `loop` has ended and `wWinMain` destroys the manager (`LoopEnds`).  The icon is there
  or not from the beginning, because `create()` does not look at the result of `add()`.
  The QR code is told by the address and port it encodes.

* **PacketDecoder**: a datagram is the sequence of its bytes.  The reading
  operators are those of `PacketDecoder.h`; `IsState`, `IsHandshake` and
  `DecodedState` are the results of `decode`; `StatePacket` and `Handshake` are what
  `TestSender.cpp` and `sendHandshakeResponse` write.  The width of a byte is the
  constant `ByteModulus`, 256 in the program, and all other widths follow from it.
* **GamepadMapper**: `mapToXInput` and the masks on both sides of it.
* **InputPath**: one round of the receiver's loop around these functions and the
  processor: watchdog, decode, the cases of the switch, the gamepad's update.  The
  environment picks controls (`Controls`) or a request and a sequence number, or a
  datagram of somebody else (`Foreign`).  The history variables `meant` and `heard`
  remember what the sender meant, for the properties to compare with the report
  and the answer.
* **ReedSolomon**, **QrCode**: `QrGen::encode` stage by stage.  The matrix is two sets
  of modules, the dark ones and the function ones; a stage is an action, so that
  what one draws and the next overwrites can be seen.  The tables of powers and
  logarithms are state, as the statics of the code are.
* **QrReader**: how a phone reads a picture, after ISO/IEC 18004 and not after the
  code: finder patterns, format by its BCH code, masks, order of the modules,
  blocks, text, and multiplication in the field by shifts instead of tables.

### Abstractions

* Time is counted in ticks of 100 ms and passes only while every thread sleeps
  (`Sleep`): the body of the loop takes a small part of a tick.
* In `UdpReceiver`, datagrams are what `PacketDecoder::decode` makes of them;
  "invalid" stands for all results the loop ignores, the unexpected ACK included.
  Their bytes, and the responses, are the subject of `InputPath`, whose receiver in
  turn runs all the time and has a driver that takes every report.
* The client's port, the log and the status callback (never set) change nothing
  that is modelled.
* The timestamp of a state is sent as zero, as `TestSender` does, and not decoded:
  nothing reads it.  The client's id is dropped, as the code drops it.  `invertY` is
  `false` in every call and left out.
* Lower-case letters, which `charVal` takes for upper-case ones, are left out: the
  texts are addresses.
* The nine exports of `ViGEmClient.dll` are all there or one that `initialize()`
  asks for is missing; a controller stays on the bus until it is removed or its
  client is disconnected.  That is the driver's part and taken from its use.
* `QrGen::encode` throws exactly on the text of an unknown address: every other
  text of the panel is digits, dots and a colon and short enough.
* `recvfrom` may fail at any time (`Receive` with `Nothing`): on Windows an ICMP
  answer or a datagram over 256 bytes is such a failure.
* A packet is sent only while fewer than 2^31 packets separate it from those in
  flight and from the newest delivered (`Window`).  At 120 packets a second that
  is 207 days; without it no 32-bit comparison can be right.

## 3. What is checked

| Run | Bounds | Shows |
| --- | --- | --- |
| `input` | bytes modulo 16, six sequence numbers, 24 sets of controls, foreign datagrams made by spoiling right ones | games see the buttons, sticks and triggers of the accepted packet; the failsafe flag implies a neutral state; the copies of the sequence number agree; only a newer packet ends the failsafe; requests are answered with their own number; foreign datagrams change nothing |
| `stream` | 4 packets, numbers modulo 6 from any start, window 3, two non-neutral inputs | refinement of `NewestInput` under loss, duplication, reordering and wrap: the newest packet's content is shown, or neutral; every sequence number is counted once |
| `receiver` | one client, numbers modulo 4, one input, timeouts 0 and 1 | after every call thread, socket, WSA reference and state agree; "CONNECTED" has an address; accepted states are counted as update or error; `ReceiverStates` is implemented; every call returns; a phone that falls silent is noticed |
| `manager` | 3 and 5 ticks (300 and 500 ms), two non-neutral inputs, a driver that may turn any report down | unless a neutral report was turned down, held controls are released within 800 ms and gone on a stopped receiver; the thread has a gamepad and its owner does not call it meanwhile; unless a report was turned down, the gamepad shows the latest state; only a state just accepted presses a button |
| `vigem` | three handles, any call may fail | handles are live when used; reports go to a plugged controller; after stop nothing is held; the mock takes over a clean bus |
| `window` | two addresses, ports modulo 3 | over a running receiver the button says stop; closing the window stops the receiver; no outdated QR code is painted |
| `stream_restart` | as `stream`, numbers modulo 16 | **violated**: a reopened sender's packets are dropped |
| `release_delay` | as `manager`, every report taken | **violated**: controls are held longer than 300 ms |
| `two_controllers` | three handles, no call fails | **violated**: games see two controllers |
| `no_controller` | three handles, no call fails | **violated**: no controller after stop and start |
| `qr` | seven texts of the program, four longer ones (30, 61, 90 and 361 characters) | a standard reader reads the text; its nth data module shows the nth bit under the mask; every block is a codeword; finders, timing, alignment and dark module stand; the cheapest mask is kept |
| `qr_format` | as `qr` | **violated**: the two copies of the format differ |

Why the bounds suffice.  Four packets with a window of three and six numbers
wrap from every start, overtake each other and leave gaps of every size the
window allows; two inputs besides neutral tell an older packet's content from a
newer one's. Counters modulo 2 wrap within a run of `receiver`, those modulo
12 of `stream` count every gap. In `input` a byte has four bits, so that a
16-bit field has 256 values and sequence numbers wrap at 65536; the controls
hold each button alone and all of them, the axes at their ends and around zero,
triggers at both sides of an eight-bit step, and bits that no mask names; the
sequence numbers lie at both sides of the wrap and of half of it. The theorems
are about the same definitions with bytes of eight bits. In `manager` and
`input` counters are modulo 1, because nothing but a counter depends on one, and
in `manager` the timeouts are the program's own in ticks. In `receiver` times do
not matter, and no property depends on the input. In `vigem` `connect()`
allocates at most twice before the library is gone, so three handles leave a
choice at every step. In `window` two addresses tell a change of network from
its return, and three ports with numbers up to four typed cover the cast, zero
and the default. In `qr` the texts are of even and odd length, the shortest and
longest the program makes (9 and 21 characters, on both sides of the limit of
version 1), an unknown address, which throws, the longest that versions 3 and 4
hold, the latter in two blocks, and one that no version takes. The theorems
below drop these bounds.

**Fairness.**  `UdpReceiver` assumes that the operating system runs a thread that
is ready: weak fairness of the receiver thread and of the owner inside a call.
`recvfrom` is a step of the thread because it has a timeout and fails on a closed
socket.  Nothing is assumed of the network, and nobody has to call anything.
`SilenceIsNoticed` needs the clock as well: `SF_vars(Sleep)` says that time passes while
the threads sleep again and again, which is strong fairness because a thread that
works disables it (a datagram may end each sleep at once).  Without it datagrams
could arrive for ever in no time.  `MainWindow` has `WF_vars(LoopEnds)`, for
`ClosingStopsReceiver`: the message loop comes to the `WM_QUIT` that waits in its queue
and the functions after it return (`stop()` does, by `CallsReturn`).  Nobody has to
close the window.  The other properties are safety properties.

**Deadlock** is checked in every run but those of `ViGEmGamepad`, which ends when the
mock takes its place, and of `MainWindow`, which ends after it is closed.

### Findings

Each of these is a run that TLC finds violated.

1. `ControllerProcessor.cpp:33` against `README.md:39` ("newest-state wins"): the
   last sequence number outlives its sender; neither HELLO nor the failsafe nor
   stop and start forgets it.  A sender that begins again at 0
   (`TestSender.cpp:60`) is ignored until it has caught up.
2. `UdpReceiver.cpp:40` against `README.md:11` ("after 300ms"): the watchdog
   sleeps in a 500 ms `recvfrom`; the bound is 800 ms.
3. `ConnectionManager.cpp:33` against `README.md:108` ("create a virtual Xbox 360
   controller"): `initialize()` has connected already; the second `connect()` loses
   client and target of the first, and games see two controllers.
4. `ViGEmGamepad.cpp:134` against `README.md:3`: `disconnect()` unloads the library
   that only `initialize()` loads, so after one stop and start there is no
   controller, and nothing says so but the backend line.
5. `QrCode.h:154` against the comment four lines above ("both canonical positions"):
   the first copy of the format is written backwards, so that only the second one
   carries the word of level M and the mask.  The reversed word lies within the
   three bits that the code corrects of another mask's or level's word, so that a
   reader of the first copy is led astray.  `ScannerReadsText` reads the second.

Seen in the models, but too plain for a run of their own:

* `UdpReceiver.cpp:114` against `README.md:11` ("no stuck buttons"): the result of
  the watchdog's neutral report is dropped and the report never repeated.  A control
  then stays down until the driver takes another report.  `HeldInputIsRecent` says
  that nothing else has this effect: without its condition on `pad.refused` TLC
  refutes it.
* `ControllerProcessor.cpp:39` against the comment one line above: a gap counts as
  lost at once, also if the missing packet is only late.
* `MainWindow.cpp:115` against the comment at line 56 ("Toggle Start/Stop button"):
  state `Error` is final, while the button alternates its label.  TLC refutes
  `StartButtonStarts` when it is added to `MainWindow.cfg`.
* `MainWindow.cpp:460` against the comment at line 291 ("Regenerate QR if IP/port
  changed or not yet generated"): a failed encoding clears the picture and keeps the
  text, so that text is never drawn again.  TLC refutes `QrIsRegenerated` likewise.
* `UdpReceiver.cpp:161`: after the failsafe has fired, or before the first packet, a
  lone HELLO sets `Connected` for good, because the watchdog acts once and only after
  an accepted packet; `SilenceIsNoticed` is about a held input for that reason.
* `QrCode.h:85`: `ALPHA_MAX` lets through texts that the blocks do not hold (version
  3: 70 characters, room for 61), and their bits would be written past the end of
  `rawBits`.  Versions from 7 on have no version information, and version 10 needs a
  length of 11 bits; and the alignment patterns of versions from 7 on that are centred
  on the timing lines are left out, because `QrCode.h:318` finds their centres taken
  (with a text of 170 characters TLC refutes `FunctionPatternsStand`).  No text of the
  program has more than 21 characters.
* `MainWindow.cpp:127`: `WM_COMMAND` returns before the tray's commands (lines 155
  to 173) are handled; none of the menu's four entries does anything.
* `MainWindow.cpp:63` against the comment at line 143 ("Minimize to tray"): the
  window is hidden whether there is an icon in the tray or not.  Without one nothing
  restores it, and the receiver runs behind it with no button that stops it.  TLC
  refutes `HiddenWindowHasIcon` when it is added to `MainWindow.cfg`.

## 4. What is proved

All proofs hold for every value of the constants under the named assumptions
(`CounterModulusAssumption`, `StateAssumption`, `ProcessorAssumption`,
`StreamAssumption`, `ByteAssumption`, `InputPathAssumption`, `ReceiverAssumption`, `HandlesAssumption`,
`WindowAssumption`, `TextAssumption`): positive widths, neutral is an input,
the clock's bound exceeds the failsafe timeout, the receive timeout is positive,
a byte has four or eight bits, foreign datagrams have the bytes of no message
(`IsForeign`), what the player can hold is named by the masks and
fits into the fields of the packet (the spare bits of its button word are those that no
mask names), `NoIp` is no client's address, null is no handle, no text is no text, what
is encoded is a sequence of characters.

* **ControllerProcessor.**  Type correctness, by one lemma per operation
  (`ProcessPacketType`, `ReleaseInputType`, `TimePassesType`) and the arithmetic
  lemmas `CountUpType` and `SeqDiffType`.  `FailsafeMeansNeutral` and
  `SequenceCopiesAgree` are inductive given the types.  `StalePacketNeverRevives`
  follows because a step that clears the flag is `AcceptNewer`.
* **PacketDecoder.**  `StateRoundTrip` and `HandshakeRoundTrip`: what the decoder reads
  out of a datagram is what the sender packed, for every value of every field and
  both widths of a byte.  The proof appends one field after the other and carries
  along where the ones before lie; the fields themselves are the arithmetic of
  quotients and remainders.  `DecodedStateType`: the fields keep their widths for
  any bytes at all.
* **InputPath.**  The processor's invariants hold inside the loop, by the same step
  lemmas (`ProcessorStepType`, `FailsafeStep`, `SequenceCopiesStep`,
  `FailsafeEndsWithNewer`) as on their own.  `TriggersKeepTheirTravel` needs `ReportInv`,
  that the report is the mapping of what `meant` packs, except between the accepted
  packet and the update, when the latest state is; the rest is `TriggerStep`, that
  the quotient of the scaled trigger is the one of the property.  `ReportShowsControls`
  follows from the same `ReportInv`: the sender's button word is a sum of masks, bit
  after bit (`Digit`, `ButtonDigits`), so that the mapper presses exactly what was held
  (`ButtonsArrive`); `ReportOfControls` adds the sticks and XInput's names.
  `ResponseAnswersRequest` needs `ResponseInv`, that in the watchdog's phase the
  response belongs to what was heard.  `ForeignIsIgnored` is about the
  decoder's checks.  A datagram is foreign if its size and first four bytes are not
  those of a state, a HELLO or a heartbeat (`IsForeign`, written after the layout of the
  protocol and not after the decoder); `ForeignIsNoMessage` shows that such a datagram
  never passes the checks, because what passes them begins with the bytes of a header
  (`CheckedHeader`, `MagicBytes`).  With a decoder that ignored size, magic, version or
  type, this lemma would not hold.
* **PacketStream implements NewestInput** (`ImplementsNewestInput`).  The
  invariant `StreamInv` says of every packet in flight and of the last accepted
  one that it is `Recent`: its distance from the sender's position, counted
  without wrap, is below the window and equals the distance counted modulo
  `SeqModulus`.  Two recent packets then have a signed difference equal to their
  distance (`SeqDiffIsDistance`), so the processor accepts a packet exactly if it
  is newer (`AcceptedIsNewer`), and stores its content, which is a step of
  `NewestInput`; all other steps stutter or release.  Sending keeps packets recent because of `Window`
  (`SentIsRecent`).  With the same lemma `SequenceNumbersCounted` adds up
  received and lost packets modulo the counter's width.
* **UdpReceiver.**  `Typed` and `Shared` are inductive together.  `Shared` says, for each
  point of `start()` and `stop()`, who holds socket, WSA reference and thread, and
  `RunsAllOrNothing` is its projection to the points at rest.  The steps that keep it
  are those of the receiver alone, with `start()` on a running receiver among them, so
  that the five properties of the run hold for any order of calls.  `ConnectedHasClient`
  needs the thread's position between address and state (`ClientInv`), and
  `AcceptedStatesReachGamepad` the arithmetic of wrapping counters.
  `ReceiverImplementsStates` needs `Shared` at each write of `m_state`: the thread only
  writes while it lives, and then the receiver runs or is being stopped.
* **ConnectionManager** (same module: its steps are the receiver's and five of its own,
  `Surroundings`, so that each lemma about the receiver is used twice).  `Typed` and
  `Protocol` are inductive together; `Protocol` is `Shared` with the gamepad and the
  order of the calls.  `RunsAllOrNothing` and `ThreadHasGamepad`
  are its projections to the points at rest.  For `HeldInputIsRecent` the
  strengthening `HeldInv` adds that held controls whose release was not turned
  down are at most `FailsafeTimeout` old when the thread leaves the watchdog,
  plus `waited` while it sleeps; that they equal the latest state; and that on a
  stopped receiver they exist only between join and reset.  Nothing is assumed of the
  driver: `PadSendShows` says what is left of a report that it turned down, and that
  is all the properties except.  `OnlyNewStatesPress` follows from the same invariant,
  because all calls but `update()` release (`OthersRelease`).
* **The processor behind the threads.**  `ControllerProcessor`'s theorems assume one
  call after the other.  `ProcessorInv` carries them into `UdpReceiver`, where a state
  is processed, shown and counted in three steps with the owner in between, and into
  `ConnectionManager`, where the processor outlives the threads: no step of the two
  but the thread's own touches what the processor's invariants speak of
  (`processorView`, `SurroundingsKeepProcessor`), and the thread's steps are calls of
  the processor (`ProcessorCalls`).
* **ViGEmGamepad.**  `GamepadInv` adds to the properties what `connect()` has
  acquired when it has come to a point (`Progress`), and that until `initialize()`
  has returned the object's own handles are all there is (`FirstConnect`): the
  properties alone do not say why the destructor leaves nothing behind, nor why a
  half connection is never used.
* **MainWindow.**  `PictureOfText`, that the cached picture is that of the cached
  text or missing, is what makes the early return of `regenerateQr` sound; with it
  `PaintedQrIsCurrent` is inductive.  `RunningOffersStop` is inductive given the types; it
  says what a window offers that one gets to, and `HiddenWindowHasIcon`, which would say
  that one does, is refuted, see above.

* **QrCode.**  `Staged` says of every stage that encode() draws inside the symbol of the
  smallest version the text fits, and that nothing is drawn or tried before its turn.
  `CheapestMaskWins` follows by `MaskInv`: of the masks tried so far the first of the
  lowest penalty is kept.  Its first step needs `PenaltyBound`, that a candidate's
  penalty is always below the `INT_MAX` that `bestPen` begins with: each rule
  counts places on the sheet of rows and columns (`SheetCounts`), for which the
  modules must lie in the symbol (`CandidateInGrid`, `ZigzagInGrid`).
  `FunctionPatternsStand` follows by `PatternInv`, which follows the drawing stage by
  stage: the areas keep apart (`PatternsApart`), only one alignment centre is free
  (`FreeCentres`), the format meets the patterns only in the dark module
  (`FormatApart`), data and masks stay off function modules
  (`CandidateKeepsPatterns`); `PatternsShown` compares the result with the
  scanner's pictures, module by module.  It holds for all texts but those that need
  version 7 to 10 (164 to 360 characters), for which it is false, see above.
  `ScannerReadsBits`, for the same texts, joins what encode() does and what the
  standard asks for: both leave the same modules to the data (`FunctionModules`), both
  go through them in the same order (`ScanOrder`, `ScanComplete`), so that a free
  module has the same number for both (`NumberIsPlace`), both mean the same masks
  (`MasksOfStandard`), and the format's second copy reads back its word
  (`FormatReadBack`).  `DataInv` keeps what `PlaceData` placed until the last mask is
  tried.  With it, `ScannerReadsText` and `BlocksAreCodewords` only leave open what the
  stages before the drawing make of a text.

Only model-checked: `CallsReturn`, `SilenceIsNoticed` and `ClosingStopsReceiver` (liveness);
`ScannerReadsText` and `BlocksAreCodewords`, which say what folds over the data compute
for every text: that needs an induction over the text and over the field's tables,
which the provers at hand cannot do; and the violated properties.

## 5. Not modelled

* **Statistics snapshot**: `getSnapshot` reads counter after counter while the
  receiver counts.  Every load is relaxed and the numbers are only shown; nothing
  in the repository says that two of them belong together, so that an interleaved
  reader would have nothing to satisfy.
* **ConnectionManager with ViGEmGamepad** in the place of `VirtualGamepad`.  Each is
  checked against what the other does with it: `ConnectionManager` with a driver
  that may or may not reject reports, `ViGEmGamepad` with the calls in the manager's
  order.  `ViGEmGamepad` takes its calls for undivided; that they never overlap,
  although no lock guards its handles, is `ThreadHasGamepad`.  The two findings about
  the driver say that after the first stop it turns every report down, which
  `VirtualGamepad` allows it to.
* **UdpReceiver with the bytes of InputPath**: `UdpReceiver` has the threads and the
  classes of datagrams, `InputPath` the bytes in a single thread; the decoder has no
  state they could share.
* `reset()` and `onRttMeasured` of `Statistics` and `updateTooltip` of `SystemTray` have
  no caller; `resetToNeutral` of the processor has none either and is an action of
  `ProcessorSpec` alone.

* Left out for good: `Logger` and all drawing (output only), argument parsing, the
  unit tests (read as documentation), vendored packages.
