# wbc-utils in TLA+

wbc-utils is what a pilot of a model aircraft adds to a *wifibroadcast* video
link: a telemetry converter in the air, an on-screen display (OSD) and a video
player on the ground, and the scripts that start, stop and switch them.  This
directory holds a specification of its stateful parts, the TLC runs that check
it on small instances, and the theorems TLAPS proves about it for all of them.

Contents: [the system](#the-system) · [the modules](#the-modules) ·
[the runs](#the-runs) · [disagreements](#where-code-and-documents-disagree) ·
[fairness](#fairness) · [what is proved](#what-is-proved) ·
[what is not modelled](#what-is-not-modelled) · [what is left](#what-is-left)

## The system

```
 aircraft                                   |  ground
 Naza --serial--> naza_telemetry / teensy --+--radio--> rx --pipe--> OSD ----> screen
        bytes      frames -> MAVLink        |            |            ^
 camera ------------------------------------+--radio--> rx --pipe--> hello_video
                                            |            |  shared memory
                                            |            +----------> OSD (rx status)
 switch --> tx-ap-switch.sh --> services    |  keys --FIFO--> OSD;  keys --systemctl--> services
```

| part | state it keeps | operations | how it interacts | module |
|---|---|---|---|---|
| **Home point** (`mavlink/osd/mavlink_parse.c`, same in `osd_android_json`) | `telemetry_data_t`: position, home position, two flags, stability counter | message cases of `mavlink_parse_buffer`, `setHomeVars`, command `h` | messages from the parser, commands from the FIFO, read by `render` | `HomePosition` |
| **OSD loop** (`mavlink/osd/main.c`) | the read buffer, `new_data`, the FIFO, the picture | `handle_toggles`, `select`, `read`, parse, `render` | pipe from `rx`, FIFO from shell or key watcher | `OsdLoop` |
| **Receiver status** (`render_rx_status`) | last counters, last time, rates | once per second of drawing | shared memory written by `rx` | `RxStatus` |
| **Latency meter** (`telemetry.c`) | offset, average, sample count | `set_tx_time`, `calc_latency`, `t` | the call is commented out | – |
| **MAVLink parser** (`mavlink_helpers.h`) | channel status and buffer | `mavlink_parse_char` per byte | feeds the OSD | `MavlinkParser`, `MavlinkStream` |
| **MAVLink messages** (`protocol.h`, `common/` and seven more dialects) | the message buffers of a sender and a receiver | pack, finalize, send, decode | between converter, encoder and OSD | `MavlinkEncoding` |
| **Naza decoder** (`NazaDecoderLib.cc`) | `seq`, checksums, payload, decoded values | `decode` per byte | feeds the converter | `NazaDecoder`, `NazaStream` |
| **Naza converter** (`naza_telemetry/main.cc`) | the byte, times of the last heartbeat and compass message | one turn per `read` | MAVLink to the radio | `NazaTelemetry` |
| **Teensy encoder** (`teensy_encoder.ino`) | three times | one loop per poll | MAVLink to the radio | – |
| **Video player** (`hello_video/video.c`) | decoder buffers, an `alarm` | read, decode, tear down | killed by SIGALRM, restarted by systemd | `RxService` |
| **Services** (`rx.sh`, `wbcrxd.service`), **key watcher** (`watch_keys.sh`) | processes and pipes | start, stop, restart | pipes, signals | `RxService` |
| **Access point switch** (`switch-apn`) | `lastval`, the interfaces file, three services | poll, flip | GPIO, systemctl | `ApSwitch` |
| **Spectral scan** (`hist2d.py`, `ss2d`) | histogram file | load, bin, decay, save | `fft2txt`, gnuplot | – |

What is hard here:

* *Interleaving.*  The operator's commands reach the OSD between any two steps
  of the search for the home point and change its fields.  The receiver counts on
  while its counters are read.  Anybody may run the switching script beside the
  daemon that runs it.
* *Ordering.*  The home point is computed after the last message of a buffer
  and before the picture; three message types write the same altitude.
* *Damaged and lost bytes.*  Both byte parsers are fed from lines that lose and
  damage bytes, and have to find back to the frames.
* *Timeouts, ends and deaths.*  `select` with 2.5 s, `alarm` with 10 s and 1 s,
  a wall clock that is set back, pipes that end, processes that die one at a time,
  power that fails in the middle of a switch, receivers that start again at 0.
* *Layout.*  The generated headers repeat each offset in five places, three kinds
  of hosts take three different ways through them, and all buffers are reused.

`PROJECT.json` lists each of these at its line, with the property that covers it
or the reason why none does.

What makes each part correct: the home altitude comes from a stable window and
home point and flags agree; the picture keeps up with the state and shows one
consistent state; no packet is in two rates and a silent adapter turns red; a
frame is delivered once, whole and unchanged, and damage costs only a bounded
number of frames; what is decoded is what was packed; heartbeats keep coming; the
video comes back, with one OSD; a switch ends with the services of one mode.

## The modules

| module | what it is | code |
|---|---|---|
| `HomeLock` | abstract: what the pilot is promised about the home point | – |
| `HomePosition` | the home point: three message handlers, `setHomeVars`, `h` | `mavlink_parse.c`, `main.c` |
| `OsdLoop` | `main()` around an instance of `HomePosition`, with link, FIFO and picture | `main.c`, `mavlink_parse.c`, `render.c` |
| `RxStatus` | the status panel beside a receiver that counts and restarts | `render.c`, `telemetry.c` |
| `MavlinkReceiver` | abstract: a receiver of MAVLink frames | – |
| `MavlinkParser` | the byte state machine of `mavlink_parse_char()` | `mavlink_helpers.h` |
| `MavlinkStream` | the parser at the end of a line between it and a sender | `mavlink_helpers.h`, `checksum.h` |
| `MavlinkWire` | how values get into a payload and out of it, on three kinds of hosts | `protocol.h`, `mavlink_msg_*.h` |
| `MavlinkCommon`, `MavlinkDialects` | the layout of every message and the table of seeds of every dialect | `mavlink_msg_*.h`, `common.h` … |
| `MavlinkEncoding` | a sender and a receiver built with those headers | `mavlink_helpers.h` |
| `FrameReceiver` | abstract: a receiver of Naza frames, with closed-form checksums | – |
| `NazaDecoder` | the byte state machine of `decode()` | `NazaDecoderLib.cc` |
| `NazaStream` | the decoder at the end of a line that loses, damages and adds bytes | `main.cc`, the line |
| `NazaTelemetry` | the converter's loop around the decoder, with its clock | `main.cc` |
| `RxService` | systemd, `rx.sh`, its two pipelines, the player's alarms, keys | `rx.sh`, `wbcrxd.service`, `video.c`, `watch_keys.sh` |
| `ApSwitch` | the polling daemon and any number of runs of the switching script | `switch-apn` |
| `…_proofs` | theorems about the module of that name; `MavlinkStream_proofs` also those about the parser by itself, `Naza_proofs` those about decoder, line and converter | |
| `MC…` | the constants of the small instances | |

Definitions named as *mutants* are plausible bugs of the definition that follows
them.  Each property is known to fail for the mutant `PROJECT.json` names.

### HomePosition

The variables have the names of the fields of `telemetry_data_t`.  `GpsRawInt`
and `AltitudeReport` are the cases of the message switch that write modelled
fields.  `SetHomeVars` is the call at the end of every `mavlink_parse_buffer()`;
its disjuncts are the paths through the function.  The path "altitude not set
and counter full" has no disjunct: `FlagsAgree`, which is proved, says that it
is never taken.  `ResetHome` is `h`.  `heard` is a history variable: what the
latest calls saw.  The module by itself has more orders than the program: it
allows `h` between a message and the `SetHomeVars` that always follows it.  What
holds of it holds of the program all the same, by `ImplementsHomePosition`; what
is found to go wrong is found in `OsdLoop`.

Abstractions: coordinates and altitudes are small integers (the code has
`float`, whose rounding is not modelled); `Tolerance` stands for 0.5 m in their
unit; the distance is taken in the city-block metric, since what matters is
between which points it is taken; `home_direction` goes the way of
`home_distance` and is left out.  The fields of the other messages are copied
straight into the picture and are left out.

### OsdLoop

`pc` names the three places where the loop can be interleaved: before
`handle_toggles`, at `select`, and inside `mavlink_parse_buffer`.  A buffer is
the number of messages it completes (`left`), each handled by one step.  The
partial message a buffer ends with belongs to the parser, not to this module.

* `n` is a `size_t` in `main()`: an error or the end of `read()` is a buffer
  without messages, and neither of the two tests after `read()` ends the loop.
* `handle_toggles` reads ten bytes, five commands of the form `echo x`, and looks
  at the first character; the others are lost.
* `Render` makes the picture that of the present state; `dirty` says whether
  something the picture is made from has changed since.  `captured` says whether `h`
  was obeyed when there was a location.  Both are history variables.
* Of what is modelled, `osd_android_json` differs in its `render()` only, which shows the
  receiver status without looking at the toggle: to it the toggle in `Drawn` is
  one value more than its picture depends on.

The environment: `Arrive` and `Hangup` are the receiver's, `Command` is the
operator's.  A FIFO that was a regular file before, or is missing, is not
modelled.

### RxStatus

`render_rx_status()` reads each counter twice, for the difference and for the
reference of the next one; each of these four reads is a step of its own, with
`Receive` and `Restart` of the receiver in between.  What is local to the code's
loop is 0 outside it.  A rate is known by the packets it is computed from, and
`shown` adds them up.  `restarted` and `torn` name the two situations in which a
health is computed from numbers that do not belong together: a restart in the
window, and a packet between the stores of the damaged and the total counter.

Abstractions: time is `overdue`, whether more than a second has passed; the
`float` differences are exact, as they are below 2^24 packets; the first window
covers everything since the receiver started, as in the code.

### MavlinkParser, MavlinkReceiver, MavlinkStream

One action per state of `mavlink_parse_char()`; the epilogue behind the `switch`
is part of each (`Incomplete`, and `Checksum2` for the one that completes).
`Reject` looks at the byte again if it is a start sign.  The X.25 sum is three
constant operators.  `packet_idx` and `len` have the type of a byte, the success
counter wraps at `Counts`.  `MavlinkReceiver` describes the same stream without a
state machine; `Received` reads the beginning of the frame off the parser's state.

`MavlinkStream` adds a sender that numbers its frames and a line that may lose,
damage or add bytes.  Without a sender the line carries every stream of bytes.
`intact`, `settled` and `short` are histories of what happened to the frame.

### MavlinkWire, MavlinkCommon, MavlinkDialects, MavlinkEncoding

A message is a layout: the fields in the order of its struct, each with its type
and the offset that its stores, its getters and its info give it.  There is one
definition per header file, for 122 messages.  A byte of a payload is not a number
but its origin: field, element, weight and packing, so that a stale byte, a byte of
a neighbour and a swapped byte all differ from the right one.  The three kinds of
hosts swap every value, copy it, or copy the struct as a whole.

`MavlinkEncoding` packs into one buffer that keeps what earlier messages left
(`Pack`), or sends without one (`Send`); the receiver keeps its buffer, too
(`Parse`), and accepts a frame if its own seed for the identifier is in the sum.
Constants that the headers store into fields (`mavlink_version`) are values like
others.

### NazaDecoder, FrameReceiver, NazaStream

One action per branch of the `if` chain of `decode()`.  The branch taken last is
`Reject`: it drops the byte, also if it is `0x55`.  What `decode()` makes of a
complete message (XOR mask, fields, fix, heading) is not modelled.
`FrameReceiver` describes the same stream without a state machine: a byte either
continues a beginning of a frame or drops it; the checksums are sums over
the whole body.  Checksums are not part of the mapping where they are not yet
received, so the running sums have to be right by themselves.

`NazaStream` adds the sender and the line.  A frame is `intact` if the decoder
was idle when it began and nothing happened to it since.

### NazaTelemetry

The loop of `main()` in three steps: `Read` or `ReadNothing`, `Check` of the
heartbeat, `DecodeByte` with an instance of the decoder's actions.  `buf` keeps its
byte when `read()` brings none.  The clock is known by its distance from
`lastsent` and `lastcompass`, with no more than is needed to compare them;
`SetClockBack` makes both negative.

### RxService

A process is whether it lives; a pipe is the number of packets in it.  The player
is `starting`, `hung` in its set-up, `reading`, `decoding`, or `stuck` after a read.
Its set-up, with the wait for a first buffer, is one step that succeeds
(`PlayerStarts`), fails and ends the process (`PlayerFails`), or never returns
(`PlayerHangs`).  The first `alarm` comes after it, so nothing ends a `hung` player
but the keys.  A process that
writes into a pipe without a reader dies of SIGPIPE, which is what
`IgnoreSIGPIPE=false` is there for.  When the script ends, systemd kills what is
left of its control group (`LeftOver`) and starts it again.  `pkill rx` at the end
of `rx.sh` matches `rx.sh` as well, and its subshell.

Abstractions: a packet that waits for room in a pipe counts as not arrived; a call
that fails in the loop counts as one that hangs, since the alarm of one second ends
both; the alarm goes off in the states it guards (`Guarded`), not at a time.

### ApSwitch

`Script` is the list of commands of the script for each parameter; a run is at one
line of it.  `Effect` is what a command does: `ifup` reads the interfaces file, and
leaves an interface alone that is up.  The daemon's own runs are those of `Poll`.
A power failure ends everything; at boot the interface comes up as the file says
and every combination of services may be running, because what is enabled is not
in the repository.

## The runs

| run | question | instance | states |
|---|---|---|---|
| `home_position` | every order of messages, calls and resets | 2 × 2 coordinates, altitudes 0 1 2 4 with tolerance 1, fixes 0 3 4, 3 stable calls | 159 744 |
| `osd_loop` | safety and liveness of the loop and its picture | 2 × 2 coordinates, altitudes 0 2, 2 stable calls, one message per buffer, one command waiting | 361 728 |
| `rx_status` | the panel beside a counting, restarting receiver | two adapters, 1 and 2 packets, one restart | 590 856 |
| `mavlink_stream` | the parser on a disturbed line, or on any bytes | bytes modulo 3, four messages of 0 to 2 bytes, four frames, two disturbances | 2 673 678 |
| `mavlink_encoding` | every message between dialects and hosts | all eight dialects with all messages, buffers of 264 bytes, two packings | 93 103 |
| `naza_stream` | Naza frames on a disturbed line, or any bytes | bytes modulo 5, two messages of 1 and 2 bytes, buffer 2 | 397 550 |
| `naza_telemetry` | the converter on any input with any end | bytes modulo 3, one GPS and one compass message, a second of two ticks, clock set back once | 147 229 |
| `rx_service` | deaths, hangs, silence and keys | pipes of 2, two crashes or failing set-ups, three keys | 5 148 |
| `ap_switch` | flips by daemon and hand, power failures | two shells with two runs, two movements of the switch, one reboot | 259 142 |

The three runs that expect a violation are under
[disagreements](#where-code-and-documents-disagree).

Why these bounds are enough:

* *Home point.*  Altitudes 0 and 1 are within the tolerance of each other, 0 and 2
  are not, 1 and 2 are again, and 4 is near none: an outlier, an alternation and a
  slow climb all occur.  Three calls are the fewest in which a climb in tolerable
  steps leaves the window (the mutant `AltitudeHeldDrifts` shows it).  Two
  coordinate values tell latitude from longitude and a home from a position.  Fix
  type 4 is one more that is not 3.
* *OSD loop.*  It adds the order of steps to what `home_position` covers, so one
  message per buffer and two altitudes do.  A buffer of several messages and
  several commands in the FIFO are in the proofs, which hold for all bounds.
  The altitudes 0 and 2 are out of each other's tolerance, and the reference starts
  at 0: for an aircraft that is steady at 2 it has to move, and the mutant
  `AltitudeMovedKeepsReference` would find no home altitude for it.  An altitude that
  varies within the tolerance is in the instance of `home_position` only.
* *Status panel.*  With two adapters the second is only sampled in the loop that
  has sampled the first; two packets are one in each of two windows; one restart
  makes a counter go back.
* *Frames.*  In both byte protocols the bytes that introduce a frame occur in
  payloads, lengths, ids and checksums, so frames nest inside frames; the longest
  message fills the buffer; sums wrap.  A Naza line is disturbed any number of
  times; a MAVLink line twice in four frames, which is enough for one false frame
  to swallow the beginning of the next, and, without a sender, all the time.
* *Messages.*  The real layouts and seeds; two packings are what a stale byte needs.
* *Converter.*  A second of two ticks has a state before, at and after it.
* *Services.*  Two crashes end both receivers, or one and a set-up; three keys stop,
  start and kill; the pipes fill up at two.
* *Switch.*  Two shells beside the daemon make three runs at the same time, and one
  run may overtake another anywhere.

The properties:

* `CounterIsWindow`, `FlagsAgree`: the counter counts a stable window; flags and
  counter agree.
* `LocksFromStableWindow`: the altitude is locked only from such a window.
* `ImplementsHomeLock`: the home point moves only by two automatic locks, each
  once, and by the operator, always to where the aircraft is.
* `ImplementsHomePosition`: the loop is a `HomePosition`.
* `DistanceIsOfThisPicture`: the distance in a picture belongs to its position.
* `PictureKeepsUp`: the picture catches up while messages complete or the link is
  silent.  `AltitudeGetsLocked`: an aircraft that is steady, at any altitude, gets
  its home altitude.
* `NothingCountedTwice`, `HealthIsARatio`, `SampledTogether`: rates and health are
  computed from numbers that belong together, but for the two situations named
  above.  `SilenceTurnsRed`: an adapter that receives nothing any more is shown so.
* `WritesInBuffer`, `WholePayload`, `WholeMessage`: the payload arrays are
  respected; a returned message was received as a whole.
* `ImplementsFrameReceiver`, `ImplementsReceiver`: the state machines receive frames.
* `IntactFrameIsReturned` (of both streams): an intact frame is returned with its
  last byte.
* `Resynchronises`: after any disturbance the Naza decoder returns messages again.
  It is about frames without a first header byte inside.  Without that condition
  it is false: a decoder that takes such a byte for a header can fall into step
  with equal frames and miss all of them.
* `SettlesWithinOneFrame`, `OneByteCostsOneMessage`: the MAVLink parser, which does
  look at a rejected byte again, is in step again within the bytes of one longest
  frame, and one lost byte costs one message.
* `NothingStaleIsSent`, `DecodedAsPacked`: whatever was in the buffers, and
  whichever hosts meet.  `SeedsTellMessagesApart`, `KnownIsAccepted`: between
  dialects that use an identifier for different messages, and for all that a
  dialect defines itself.
* `HeartbeatsKeepComing`: while bytes keep coming and for ever after their end.
  `OneMessageAfterTheEnd`: of the byte that is decoded for ever.
* `VideoComesBack`: the service recovers from everything but a player that hangs
  before its first alarm.  `OneOsd`: it does not leave an OSD behind.
* `SameFlipsAgree`: runs with one parameter agree, in any interleaving.
  `NeverTogether`: once a run has come to its end, runs one at a time never have both
  services up, in no order of modes.  `FollowsSwitch`: the machine follows the switch, as far as `lastval=1`
  at the start lets it.

## Where code and documents disagree

Each has a run in which TLC finds the behaviour.

| run | the document | the code |
|---|---|---|
| `keeps_latitude` | `lat` is the "Latitude" (`mavlink_msg_gps_raw_int.h:8`) | `td->latitude = lng`, `td->longitude = lat` |
| `capture_sticks` | `h`: "handy for capturing your take-off point" (`osd/README.md:16`) | the search goes on and overwrites the point |
| `picture_freezes` | "displays mavlink telemetry and rx status during flight" (`README.md:28`) | after the end of the link it never draws again |

`capture_sticks` is checked on the loop, where `setHomeVars()` follows the messages
of every buffer: in its trace the location has been locked and pictures drawn before
`h`, and the altitude lock of a later buffer moves the captured point.
`picture_freezes` looks only at executions in which no byte is left to read: with
a silent link the timeout of `select` redraws, with a dead one it cannot.

Read in the code, without a run of their own:

* "must be stable for 25\*120ms = 3s" (`mavlink_parse.c:36`): it counts buffers
  read, with or without an altitude in them.
* `d` "will toggle the display of rxstatus" (`osd/README.md:14`, and
  `osd_android_json/README.md:14`): of several commands in one read only the first is
  obeyed; in the JSON variant the toggle is stored and never read.
* "rx.sh will start the mavlink osd" (`startup_scripts/README.md:7`): not if it
  records.
* Against a stuck decoder "an alarm signal was added to the render loop"
  (`hello_video/README.md:7`): it is first set before the first read, so a player
  that is stuck in its set-up stays; `VideoComesBack` has to assume that none is.
* `packet_rx_drop_count` is the "Number of packet drops" and `current_rx_seq` the
  "Sequence number of last packet received" (`mavlink_types.h:149`, `:152`): the
  status that `mavlink_parse_char()` hands out has 1 or 0 for an error at the last
  byte in the one, and the number after it in the other.
* Fix type 4 of a DGPS fix (`NazaDecoderLib.cc:115`) is more than a "3D fix" in
  `mavlink_msg_gps_raw_int.h:15`, and no fix at all in `mavlink_parse.c:24`.

## Fairness

Each assumption is weak fairness of something that runs by itself:

* `OsdLoop`: the process as a whole, `WF_vars(Osd)`.  All its waits are bounded
  (`select` by 2.5 s, the FIFO is opened with `O_NONBLOCK`), so it is always able to
  take a step and the scheduler runs it.
* `RxStatus`: the drawing of pictures with the panel, and time.
* `NazaTelemetry`: the two steps of the loop that do not wait, `ReadNothing` once the
  input has ended, since `read()` does not wait then, and time.  The clock is set
  back finitely often; the heartbeats would stay away if it were for ever.
* `RxService`: the script, systemd, each process, each alarm that is armed, and
  packets while the link is up.  Receivers crash and set-ups fail finitely often; a
  set-up that fails each time leaves no picture to come back.
* `ApSwitch`: the daemon's loop, and the commands of each run of the script.

Nothing is assumed of the operator, the link, the switch or the receiver of
`RxStatus`.  What a liveness property needs of them is its hypothesis: that
messages complete, that the altitude is steady, that the link is up, nobody
stops the service and the player gets through its set-up, that the switch rests.  `NazaStream` assumes no fairness at all,
its property has the hypothesis that frames keep coming; the properties of
`MavlinkStream` count bytes instead.

## What is proved

For all constants that satisfy the named assumptions of the modules:

* `HomePosition_proofs`: `Typing`, `StableWindow`, `FlagsFollowCounter`, `AltitudeLockIsStable`,
  `Refinement` (of `HomeLock`).
  The inductive invariant is `TypeOK /\ CounterIsWindow /\ FlagsAgree`.  The
  window alone is not enough for the lock: that the last call completes
  *StableCalls* counts needs the flag and the counter to agree.  `WindowGrows` is
  the heart of it: a held altitude enters a window that is shifted by one.
* `OsdLoop_proofs`: `Refinement` (of `HomePosition`), `Typing`, `PictureIsConsistent`.
  The consistency of the picture uses `FlagsAgree` of `HomePosition`, carried over
  by the refinement: were the altitude set and the location not, `setHomeVars`
  would not measure.
* `RxStatus_proofs`: `CountedOnce`, `Health`, `Sampled`.
  `CountedOnce` rests on a balance: what is shown and what the next window will
  hold is never more than what was received; a restart only lowers it.  `Health`
  relates the two references to the counters at every `pc`.
* `RxService_proofs`: `AtMostOneOsd`.  The invariant follows the subshell that
  starts the OSD: while it sleeps there is none, and a second subshell needs a new
  run of the script, before which the control group is killed.
* `MavlinkStream_proofs`: `Typing`, `BufferSafety`, `Wholeness`, `FramesAreReceived`
  (the refinement of `MavlinkReceiver`), `IntactFrames`, `Resynchronised`,
  `LostByte`, for every checksum and width, every set of messages whose fields and
  lengths are bytes (`MessagesAssumption`), any number of frames and disturbances.
  The argument has four layers, each an invariant on top of the one before:
  1. `IInv`: the index is the length once the payload is complete, and below it
     before.
  2. `RInv` adds `SumOK`: the parser's checksum is the sum over the bytes it holds.
     The sum of the receiver is a recursive function over a whole frame; `Induction`
     shows that it exists and `RunningGrows` that one more byte is one more
     `Accumulate`, which is what the parser does.
  3. `LineInv` relates line and parser.  `Synced` says that the parser holds exactly
     what is not pending of the latest frame; `NextArrives` keeps it so and gives
     `IntactFrames`.
  4. `Settling`: in a row of plain frames the parser is `Synced`, waits for the next
     start sign, or has held a false frame since the row began, so that it holds more
     bytes than have arrived.  No frame is longer than `Enough`, hence `Resynchronised`.
     `OneShort`: of a frame that lost a byte the parser holds all but that byte; the
     next start sign either completes it, and a message has been returned, or is
     looked at again and begins the next frame.
* `MavlinkEncoding_proofs`: `RoundTrip`, `Decoding`, `Freshness`, `Accepting`,
  for every well-formed layout and every set of dialects.
  `Accepting` has the hypothesis `OwnSeeds`, that each table has the seeds of its own
  messages.  It is a fact about the tables of the repository and not an assumption of
  the module: `mavlink_encoding` shows it for each message, in that it is accepted.
  The heart is `PackedByte`: on each of the three kinds of hosts the byte at an
  offset is the same byte of the same field.  That the layouts of the repository
  are well formed is the assumption TLC evaluates in `mavlink_encoding`.
* `Naza_proofs`: `Typing`, `BufferSafety`, `WholeMessages`, `FramesAreReceived` (the
  refinement of `FrameReceiver`), `IntactFrames`, `EndOfInput`, for every table of
  lengths that fit the buffer, every header and width.
  The invariant adds to the types that the length is the one of the id from the
  fourth byte on, that the payload is complete once the checksums are expected
  (`IInv`), and that `cs1` and `cs2` are the checksums of the bytes covered so far
  (`SumsOK`).  The receiver's checksums are closed forms, the second one a sum with
  weights; `Checksums` shows that a further byte changes them as `updateCS()` does,
  with the arithmetic modulo the width it takes.  `InStep` is the relation between
  line and decoder.
  For `EndOfInput`: of equal bytes the decoder gets past the header at most once;
  the invariant says that once a message has been counted the decoder waits for a
  header.
* `ApSwitch_proofs`: `Agreeing`, `NotTogether`, for any number of shells.
  `Agreeing` needs for each unit the last command of the script about it: the unit is
  right once one of the runs has passed that command and none is before it.
  `NotTogether` carries this over to the run after them.

The checksums of both receivers are recursive functions over frames of any length.
The library's induction theorems have an operator parameter, which the provers cannot
take; `Induction` says the same with a set in its place, and follows from the natural
numbers being well-founded.  TLC has checked each strengthened invariant on the
instance of its run before it was proved.

Every safety property of the passing runs is a theorem, but for
`SeedsTellMessagesApart`: for any tables it would be no more than the assumption
`SeedsAssumption`, and what it says is that the tables of the repository satisfy it,
which TLC evaluates.  Checked by TLC only, too: the
liveness properties (`PictureKeepsUp`, `AltitudeGetsLocked`, `SilenceTurnsRed`,
`Resynchronises`, `HeartbeatsKeepComing`, `VideoComesBack`, `FollowsSwitch`), whose
proofs need `ENABLED`, which the backends do not have; and that the tables of
the repository satisfy `OwnSeeds`, `KnownAssumption` and `SeedsAssumption`, which is
a finite evaluation.

## What is not modelled

* The generated self tests (`testsuite.h`), the protocol-buffer classes of pixhawk
  and the convenience senders over a UART: none of the programs here uses them.
* What `NazaDecoderLib` makes of a complete payload: masks, scaling, compass
  calibration and headings are arithmetic of floating point and `atan2`.
* The latency meter: its only call is commented out (`mavlink_parse.c:290`).
* The Teensy encoder: its message flow is that of `NazaTelemetry`; what it adds, how
  long `pulseIn()` blocks against how many bytes the serial port keeps, depends on
  the Arduino core, which is not in the repository.
* `hist2d.py`: one sequential computation in floating point.
* `tx.sh`: its unit is not in the repository.  Keys 8 and 9 of `watch_keys.sh` call a
  script that is not, either.
* The drawing: where an instrument is and how it looks.
* `wifibroadcast` itself (`rx`, `tx`), OpenMAX, systemd, `ifupdown`: they are not in
  this repository and appear as environment actions, or by their effect.
* Kernel configurations, patches, build and calibration scripts: no state of
  their own.
* Floating-point rounding of positions, distances and rates, and counters beyond
  2^24 packets.

## What is left

1. `NazaMessage`: fix type and flags of a GPS message as operators, and composed with
   `OsdLoop` what becomes of a DGPS fix on its way to the home point.
2. `TeensyEncoder`, if the Arduino core's buffer and timeouts are taken as constants:
   which frames of the Naza survive the reading of the PWM inputs.

