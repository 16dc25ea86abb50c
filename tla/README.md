# Formal models of the satellite network communication stack

TLA+ models of a wind turbine that is monitored and steered through a LEO satellite,
checked with TLC and, for the safety properties, proved with TLAPS. Paths such as
`protocol/reliability.py` are relative to `src/`.

## 1. The system

| Component | State it keeps | Operations | Works with |
|---|---|---|---|
| Selective Repeat ARQ (`protocol/reliability.py` 110-242) | `_next_seq`, `_send_base`, `_send_buf`, `_ack_received`; `_recv_base`, `_recv_buf`, `_delivered`; a lock per side | `send`, `process_ack`, `retransmit_expired`, `receive` | a UDP path; a timer thread and a receive thread of its user |
| Stop-and-Wait ARQ (same file, 24-103) | `_seq`, `_ack_event`, `_last_ack` | `send_reliable` (blocking), `notify_ack` (receiver thread) | a UDP path and a peer that answers |
| LEO relay (`satellite/leo_relay.py`) | two queues with the times of arrival, `_running` | receive loop, two drain threads, `stop` | turbine and ground over UDP; `LEOChannel` |
| Channel model (`protocol/channel_model.py`) | orbital clock, weather, `_tx_count`, `_lost_count` | `transmit`, `get_stats` | called by both drain threads at once |
| Actuator controller (`turbine/actuator_controller.py`) | `ActuatorState` under a lock, `_rate_table` under another, `_seq` under none | accept loop, a handler thread per connection, physics thread | ground station over TCP |
| Handshake (`protocol/handshake.py`) | the attempt and session of `connect`; the context the responder's caller keeps | `connect`, `handle_discover`, `handle_agree` | UDP, both ends |
| Discovery and negotiation (`discovery/`) | `_pending`, `_peers`, `_seq` | `announce`, a handler per message type | UDP broadcast and unicast |
| Ground station (`ground/control_station.py`) | `_tcp_conn`, `_seq`, latest telemetry | UDP receive loop, TCP connect and receive loops, `send_*` | actuator (TCP), relay (UDP) |
| Sensor emulator (`turbine/sensor_emulator.py`) | turbine model, `_seq` | send loop, heartbeat, receive loop | relay (UDP) |
| Security gate (`bonus/security.py`) | `_seen`, `_last_yaw`, `_last_pitch`, `_hist`, a lock each | `check_frame`: rate, replay, anomaly | in front of command handling |
| Video stream (`bonus/video_stream.py`) | fragment buffers, bit-rate level | sender loop, `receive` | UDP frames |
| Frame codec, message types, interop, logger, config, demo | none | pure functions, constants, start-up | everything |

Telemetry goes from the sensor emulator through the relay to the ground
station; commands go by TCP from the ground station to the actuator controller.
The relay delays, drops and damages frames; the ARQ classes are there to make up
for it; handshake and discovery set up sessions.

### What is hard about it, and what makes each part correct

* **Selective Repeat.** Loss, repetition and reordering at once; two windows that
  see each other only through frames and ACKs; numbers that wrap; giving up.
  Correct: what is delivered is a prefix of what was sent, an ACK means the
  payload is held, no fresh frame is outside the receive window, at most a window
  is outstanding, nothing stays in limbo.
* **Stop-and-Wait.** Two threads share `_last_ack` and `_ack_event` with no common
  lock, and the event is cleared *after* the frame has gone out. Correct: no reply
  is taken for another number's, a call returns, True means the peer has it.
* **Relay and channel.** The orbit is looked at twice, the age once; two threads
  share counters. Correct: order, no repetition, no frame lost uncounted, no frame
  for ever in the queue, stale frames discarded.
* **Actuator.** An emergency stop competes with commands of other connections and
  with the physics thread, and is queued behind slow commands of its own. Correct:
  a stop is final and takes effect, no command is answered twice or in another's
  place, whatever write gives up, the rate limit does not stand in its way, the nacelle
  turns the right way.
* **Handshake and discovery.** One-shot receives that consume whatever comes, an ACK
  that bears no session, a new session id for every repeated DISCOVER, peers
  registered without a look at what is pending, a receive thread that an `OSError`
  ends. Correct: both ends agree on the session and its terms, an exchange that is over
  does not come back, nodes that go on announcing meet.
* **Ground station and framing.** A write that stops half-way, a reader that never
  looks for the frame mark again, reconnects, `stop()` in the midst of a connect.
  Correct: the commands read are commands sent, once, in order, and none whose send
  has failed; a stopped station keeps no connection.
* **Telemetry.** Physics tick and snapshot take the lock one after the other, and a
  stop may come between; batches repeat what was sent before. Correct: the stop is
  seen, the station's view does not go back in time.
* **Security gate.** Three detectors with a lock each, several threads, copies of one
  frame at once, values remembered though refused. Correct: one copy passes, the rate
  holds in every second, a refusal for the rate does not spoil the retry.
* **Video.** Fragments in any order and number, late copies after the frame is gone.
  Correct: what is delivered was sent, and copies alone deliver nothing again.

`PROJECT.json` lists each such hazard at its line with the property that covers it.

## 2. The modules

| Module | Models | Kind |
|---|---|---|
| `OrderedStream` | what both ARQ schemes promise | abstract specification |
| `SelectiveRepeat` | `SelectiveRepeatARQ`, the path, the caller's ACKs | component; refines `OrderedStream` |
| `CallLog` | the results of `send_reliable` and the frames the peer took | state and what it promises |
| `StopAndWait` | `StopAndWaitARQ`, its two threads, path, peer | component, on `CallLog` |
| `LossyChannels` | what the relay promises of each direction | abstract specification |
| `LeoRelay` | `LEORelay` with `LEOChannel` and `OrbitalClock` | component; refines `LossyChannels` |
| `Actuator` | `ActuatorState`, the handlers' commands and answers, the physics thread | component |
| `Capabilities` | `_negotiate_caps` and `negotiate_capabilities` | pure functions, used by the next two |
| `Handshake` | `HandshakeInitiator`, `HandshakeResponder`, the path | component |
| `Registry` | the peer tables of the discovery service | state and what it promises |
| `Discovery` | one `DiscoveryService` per node, the path | component, on `Registry` |
| `CommandLog` | the calls of the ground station, the connections, the commands executed | state and what it promises |
| `CommandStream` | TCP side of `GroundControlStation`, TCP, accept loop and framing of `ActuatorController` | composition of the two ends, on `CommandLog` |
| `Telemetry` | `TurbineModel` and `SensorEmulator`, the relay, UDP handlers of `GroundControlStation` | composition of the two ends |
| `GateLog` | the verdicts of the security gate | state and what it promises |
| `SecurityGate` | `SecurityGate`, `RateLimiter`, `ReplayDetector`, `AnomalyDetector` | component, on `GateLog` |
| `VideoLog` | the fragments that arrive, the receiver's buffer, the frames delivered | state and what it promises |
| `VideoStream` | `VideoStreamSender`, `VideoStreamReceiver`, the path | component, on `VideoLog` |
| `SelectiveRepeatProofs`, `StopAndWaitProofs`, `LeoRelayProofs`, `ActuatorProofs`, `CommandStreamProofs` | - | theorems about the module of that name |
| `SessionProofs` | - | theorems about `Handshake` and `Discovery`, and about `MCSessions` |
| `BonusProofs` | - | theorems about `SecurityGate` and `VideoStream`, the two parts of `bonus/` |
| `MessageProofs` | - | theorems about `Telemetry`, and about `MCMessages` |
| `MCLeoRelay`, `MCActuator` | - | instances for TLC |
| `MCSelectiveRepeat`, `MCStopAndWait`, `MCHandshake`, `MCDiscovery`, `MCSecurityGate` | - | documented claims the code does not keep, as the one for the age limit in `MCLeoRelay` |
| `MCReliability`, `MCSessions`, `MCMessages` | - | instances of two, two and four modules side by side |

`MCReliability` runs `SelectiveRepeat` and `StopAndWait`, `MCSessions` runs `Handshake`
and `Discovery`, and `MCMessages` runs `CommandStream`, `Telemetry`, `SecurityGate` and
`VideoStream`. The modules of such an instance share no state (in the code they meet
only through messages), so their product would show nothing that each alone does not:
the variable `part`, chosen at the start, says which one a behaviour follows, and the
others keep their initial state.

How the parts meet: each direction of `LeoRelay` is a channel of `LossyChannels`, which
is what `Telemetry` takes its `path` to be; `CommandStream` carries the commands that
arrive in `Actuator` as the frames of a connection; `SelectiveRepeat` and `StopAndWait`
stand on a path as lossy as the one of `Handshake`, `Discovery` and `VideoStream`.

The definitions named `Mutant...` are wrong versions of the definition of that name,
kept to show that a property notices: none is used in a specification.

### SelectiveRepeat

Each method runs under one lock and is one action: `Send`, `ProcessAck`,
`RetransmitExpired`, `Receive`. The payload of the k-th accepted send is k, so a
wrong payload or place shows. The loops that slide a window are one step with
`IsRun`, which says how far the loop gets (every number passed was in the set, the
first one left was not); that form can be proved about without recursion. Time is
abstracted: any set of buffered frames may be the one that expired. The path is the
sets `frames` and `acks`; taking an element leaves it there (repetition), any
element may be taken (reordering), `Lose` removes one. A damaged frame fails the
CRC and is a lost one. The code that calls `receive` is not in the repository's
class; the model takes it to acknowledge every frame it was given, as the class's
comment "ACKs each individually" says and as a sender needs after a lost ACK.

### StopAndWait

`send_reliable` is cut at each access to shared state: `SendTo`, `ClearEvent`,
`WaitReturns`/`WaitTimesOut`, `ReadAck`; `notify_ack` is `NotifyAssign` then
`NotifySet`. So an ACK may come before the event is cleared, or `_last_ack` may be
overwritten between the event and its reading. The peer answers with an ACK or a
NACK; both are outside the class.

### LeoRelay

One process per direction. The drain thread's places are `get`, `wait` (blackout),
`count`, `check` and `air` (inside `transmit`), `done`. A tick is coarse compared to
a thread's step: it passes when no drain thread has something to do at once, with
one exception, as the satellite may set between the thread's look at the orbit
(line 147) and that of `transmit` (channel_model.py 208). `stop()` may come at any
step. `log`, `out`, `sendErrors` and `handed` record history. `ShortTicks` says that
the tick is fine enough for the code's figures: shorter than a pass (600 s) and no
longer than the age limit (120 s). Without it a frame that is fresh as the satellite
sets would be too old a tick later, which the code's figures rule out.

### Actuator

One process per connection: `Dispatch` (rate limit, begin of the delay), `Execute`
(the locked update), `Reply` (outside the lock), and `Tick`, the physics thread,
which is also the clock of the delays and the rate window. Angles are integers on a
circle of `Circle` units. A peer may leave at any moment: what was read is still
executed and the answer is lost. A peer that stays may not read: then `sendall` gives up
after the five seconds of the socket's time-out, in the middle of a frame or before it,
`_tx` swallows that, and the handler goes on. So every frame to a client may be written
whole or not (`Write`), answers and STATUS frames alike; `answers` has the answers
written whole and `cut` counts, up to `MaxCuts`, what was not. What a client does that
reads on after a cut frame, out of step, is not modelled (`CommandStream` has that for
the other direction). A STATUS is no more than a frame that may be cut: `Heartbeat` is
the one of an idle connection, the others go out in `Reply`. The five seconds are not
counted: `Reply` may come any time after `Execute`, as a slow write would have it.
The rate table holds ages; `Aged` adds a tick to each
and keeps those within the second, which is what `_rate_ok` keeps when it is next
called: the ages of a list never increase from one entry to the next, so it is the end
of the list that stays. A frame and the answer to it bear the number of
the frame on its connection, so that `OneAnswerEach` can tell the answers apart.

### Capabilities

A dictionary is a function from keys to sets: a list is the set of its items, any other
value the singleton of it. The two intersections of the repository differ, and so do
the two operators: `NegotiateCaps` keeps a list with nothing in common as an agreed
capability, and a switch both have off; `NegotiateCapabilities` leaves both out.

### Handshake

`connect` is cut where it sends and where it waits; each wait takes one datagram, and a
datagram of another type, a damaged one and a time-out all are `NoAnswer`. A datagram
taken stays in `toResponder` or `toInitiator` (repetition), any may be taken
(reordering), `Lose` removes one. `connect` may be called again on the same socket and
find what was meant for an earlier call. The responder's caller, which is not in the
class, keeps the last context `handle_discover` returned and hands it to
`handle_agree`. An `OSError` of the responder's `sendto` shows as a loss. Session ids
are distinct numbers in the model; the code makes them by hashing the two names and
the time.

### Discovery

Every handler runs on the node's one receive thread, so it is one action. A datagram is
consumed when it is taken, or stays to come once more (bounded by `MaxRepeats`). The ACK
that ends an exchange is sent and taken like any datagram, and `LogOnly` is what becomes
of it: `_recv_loop` has no branch for it. `SendRaises` is the `OSError` nobody catches:
the thread ends, the announce loop goes on. A session is the record of its maker, the
peer and a number, so that a registry entry shows where it comes from. `_caps` never
changes. `Registry` holds the part of the state that the promises to the users of
`get_peers` are about, with those promises, and `Discovery` extends it.

### CommandStream

A frame is three units: mark and type, length, payload and CRC. `sendall` may write any
number of them before it gives up, TCP may hand them over in any portions. If the reader
is out of step it finds another unit where the length should be: `bogus` says which
frame end that unit spells, shorter or longer than a frame. `parse_frame` accepts just a
whole frame of one command (chance agreements of the CRC are ignored). The connect loop
is `Dial`, `Connect` or `DialFails`, `ReadEnds`, with `stop()` possible between any two:
it closes the connection it sees, and one that comes after it is left to the receive
loop's own look at `_running` (`ReadOver`); the controller's side is `Accept`, `Recv`,
`TakeFrame`, `HandlerEnds` per connection. What the station does with answers is logging
and is left out. The promises are stated of the calls and of what is on the connections,
in `CommandLog`, which `CommandStream` extends.

### Telemetry

The send loop is `ModelTick`, `Snapshot`, `SendReadings`, as the first two take the
model's lock separately; the commands of the receive loop come between any of them. How
far yaw and pitch get in a tick, and whether there is power, is left open. The path
loses frames and keeps their order, as the channels do that `LeoRelay` implements. A
frame is the sequence of its readings.

### SecurityGate

A thread brings a frame through the parts in `Order`; each part is an action, being
under its own lock, and other threads go between. A tick is long compared to a call, so
that the time does not change within one. What `_check_angle` refuses, it records. The
times of a source are in order, so that what `is_allowed` keeps of them (`Recent`) is the
list without a prefix. The verdicts and what is promised of them are in `GateLog`, which
`SecurityGate` extends.

### VideoStream

The number of fragments of a frame is any up to `MaxFrags` (it depends on the bit rate
alone). Any fragment of a frame sent may arrive at any time, again and again. What is
promised of the frames delivered is in `VideoLog`, which `VideoStream` extends.

## 3. What is checked

| Run | Instance | Result |
|---|---|---|
| `arq` | selective repeat: SeqMod 8, Window 2, 1 retry, 4 sends; stop-and-wait: SeqMod 4, 2 attempts, 3 calls | all properties hold (407,734 states) |
| `sr_wrap` | SeqMod 4, Window 2, 7 sends | `WindowBound` fails |
| `sr_stall` | SeqMod 4, Window 2, 2 sends, fair path | `WindowReopens` fails |
| `saw_reuse` | SeqMod 4, 2 attempts, 2 calls | `SuccessMeansReceived` fails |
| `relay` | orbit 5 ticks, pass 2, age limit 1, 3 frames | all properties hold (90,605 states) |
| `relay_stale` | the same, 2 frames | `FreshWhenForwarded` fails |
| `actuator` | 2 connections, 3 commands, 1 frame cut short, circle of 4 | all properties hold (641,460 states) |
| `sessions` | handshake: 2 attempts, 2 calls, 3 sessions; discovery: 2 nodes, 2 offers each way, a loss, a repetition, a fault | all properties hold (293,599 states) |
| `registry` | the same discovery, one dictionary | `RegisteredOnBothSides` fails |
| `messages` | commands: 2 connections, 3 commands; telemetry: 3 readings, batches of 2, 2 commands; gate: 2 threads, 3 checks, 3 ticks; video: 2 frames of up to 3 fragments, 6 arrivals | all properties hold (1,150,715 states) |
| `handshake_ack` | 2 attempts, 2 calls, 3 sessions | `SharedSession` fails |
| `gate_jump` | 1 thread, 3 checks, 3 ticks | `ChangeWithinLimit` fails |

What they show:

* `arq`, selective repeat: on one lap of the numbers the pair implements `OrderedStream`
  under every loss, repetition and reordering (`StreamSafety`); an ACK is truthful
  (`AckedWasReceived`); the windows fit (`FreshFramesFit`); no more than a window is out
  (`WindowBound`); each payload is delivered unless the sender gave up on it or an
  earlier one (`DeliveredOrAbandoned`). With 4 sends and a window of 2 the window slides
  a full length past itself, frames arrive early, late and twice, and retries run out at
  every place of the window.
* `arq`, stop-and-wait: whatever the two threads and the path do, a number is passed
  only when the peer has taken a frame of it, True can be trusted until a call fails,
  order is kept up to there, every call returns. Three calls with two attempts let a
  reply of each call meet the two later ones.
* `relay`: each direction implements a channel that may lose a frame and does nothing
  else to it (`ChannelSafety`); the shared counters add up (`StatsAddUp`); each frame
  leaves (`EveryFrameLeaves`). A blackout of 3 ticks outlasts the age limit of 1, so
  frames expire in the queue, in hand, and pass in time; three frames let one be in hand
  and two wait in one direction, or both directions be busy. A frame that passes too old
  was in hand through the blackout, is the first of its direction in the pass, and is no
  more than a blackout too old (`StaleAtMostOne`).
* `actuator`: two connections and three commands let a stop race, follow and precede
  commands of either, an out-of-range one and a frame that gets no answer included;
  three frames on one connection are what it takes to exceed a limit of 2 in a window of
  2 ticks. A client that stays connected gets no answer twice, none out of order and
  each of them, but for frames cut short, of which one is enough to show that a later
  command's answer does not take the place of the lost one (`OneAnswerEach`).
  `RateSlack` (limit times delay covers the window) is what the code's figures satisfy:
  5 times 0.5 s against 1 s.
* `sessions`: the responder establishes no session the initiator has not agreed to
  (`EstablishedWasAgreed`) and on the terms the initiator worked out (`SameTerms`); if
  `connect` returns another one, a late ACK of an earlier call is the only reason
  (`WrongOnlyByLateAck`). A node registers a peer on mutual terms that are not empty
  (`RegisteredTerms`), and, unless a datagram comes twice, under a session that is
  pending, so that an exchange that is over is not registered again (`RegisteredOnce`);
  the repetition makes the exception happen. Two nodes with something in common find
  each other unless one stops or its receive thread ends (`AllMeet`). Two calls of two
  attempts let each frame of the first call meet the second; the dictionaries have
  something, an empty list only, and nothing in common.
* `messages`: no command is executed twice or, on one connection, out of order
  (`OnceInOrder`), none whose send returned False (`FailedNeverExecuted`), and until a
  write is cut short the stream is read frame by frame (`InStepUntilTorn`). Three
  commands are one cut short, one that is swallowed and one after; two connections are
  one reconnect; of the two frame ends a reader out of step can find, the one spelled by
  a frame's first unit is too long and that of its last too short (the theorems hold for
  any). Once the station is stopped it gives up its connection for good, also the one
  `stop()` did not see because `_tcp_connect` was in the midst of making it
  (`StopGivesUp`). After an emergency stop only the first reading may still show power,
  and the nacelle stays (`StopShows`); the station's latest reading never gets older
  (`LatestNeverGoesBack`). Of the copies of a frame one is accepted per window
  (`AcceptedOnce`), a second never sees more than the limit (`RateBudget`), a frame
  refused for its rate may come again (`RateRefusalMayRetry`). Video frames are put
  together as they were sent (`DeliveredIsSent`) and again only if every fragment came
  again (`AgainOnlyIfAllAgain`): six arrivals are a frame of three fragments twice.

### Disagreements between documentation and code

* **`sr_wrap`**: `_window_has_space` subtracts the numbers without modulus. After
  `_next_seq` wraps, the window never looks full: more than "a window of
  SR_WINDOW_SIZE outstanding frames".
* **`sr_stall`**: a frame dropped after its retries keeps `_send_base` for ever, so
  in the end `send` returns None always.
* **`saw_reuse`**: after giving up, the number is used again for the next payload; a
  late ACK makes that call return True.
* **`relay_stale`**: the age is tested before the wait for the next pass, so one
  frame per direction goes out however old.
* **`handshake_ack`**: an ACK bears no session id and `connect` takes the first that
  comes: the late ACK of a call that gave up ends the next one, which returns a session
  the responder never established.
* **`registry`**: DISCOVER, NEGOTIATE, AGREE and ACK are drawn with "[session
  established, peers registered]" below them (`README.md` 277-289), and both sides are
  said to use one session id (448-450). `_recv_loop` has no branch for the ACK: of one
  exchange only the end that made the session registers its peer. The other end registers
  later, in an exchange of its own and under its own session (`OnlyOfferedIsRegistered`
  below is the reason: a node registers only what it has itself offered). `AllMeet` is
  what is left of the claim.
* **`gate_jump`**: the anomaly detector records also an angle it refuses, so the same
  angle passes the second time, however far from the last accepted one.

### Bounds

Named in the modules: `MaxSends`, `MaxCalls`, `MaxFrames`, `MaxCmds`, `MaxConns`,
`MaxConnects`, `MaxSessions`, `MaxOffers`, `MaxReadings`, `MaxOrders`, `MaxChecks`,
`MaxTime`, `MaxVideos`, `MaxArrivals` bound the length of a behaviour, `MaxLosses`,
`MaxRepeats` and `MaxFaults` what befalls it in `Discovery`, `MaxCuts` the frames cut
short to clients still there in `Actuator`, `PitchAsked`, `Bogus`, `YawAngles` and
`PitchAngles` the inputs, `AgeCap` the ages of frames (above any age `TypeOK` allows, so
it is never reached). Nothing else is bounded but by the code's own constants, which are
small in the instances. `NoWrap` in `SelectiveRepeat` and `StopAndWait` says that a
behaviour stays on one lap of the sequence numbers; `sr_wrap` is the instance beyond it.

### Fairness

* `SelectiveRepeat`: weak fairness of the timer, the thread the docstring of
  `retransmit_expired` asks for. Nothing is assumed of the path, except in `sr_stall`,
  where a path that is fair makes the finding stronger.
* `StopAndWait`: weak fairness of the sending thread; its wait has a time-out.
* `LeoRelay`: weak fairness of each drain thread and of the tick.
* `Actuator`: weak fairness of each handler and of the physics thread, daemon threads
  that never block but in sleeps, in reads of their own socket and in writes that give up
  after five seconds.
* `CommandStream`: weak fairness of the receive loop's end, which looks at `_running` at
  least every two seconds, and of the end of a connect, which has a time-out of five.
  Nothing is assumed of sends, of the path or of the controller.
* `Discovery`: weak fairness of each node's announce loop, which only sleeps between two
  rounds, and of its receive thread, which takes what is in the socket's buffer. The path
  loses a bounded number of datagrams, since one that loses all leaves nobody to meet.
* `Handshake`, `Telemetry`, `SecurityGate`, `VideoStream`: none, as only
  safety is stated of them.

Deadlock is switched off where the instance really ends: when all sends or calls are
used up and the path is empty, and after `stop()`. `Actuator` never stops.

## 4. What is proved

Each theorem holds for all values of the constants that satisfy the assumptions its
module names (`SRConstants`, `SAWConstants`, `RelayConstants` and `ShortTicks`,
`ActuatorConstants` and `RateSlack`, `HandshakeConstants`, `DiscoveryConstants`,
`StreamConstants`, `TelemetryConstants`, `GateConstants`, `VideoConstants`), which the
runs evaluate for their instances; those of `StopAndWait`, `Discovery`, `CommandStream`,
`Telemetry`, `SecurityGate` and `VideoStream` are definitions that the theorems assume
by name, as their modules are instantiated.

| Module | Theorem | Statement | Further assumption |
|---|---|---|---|
| `SelectiveRepeatProofs` | `TypeCorrect` | `Spec => []TypeOK` | none |
| | `AckedIsReceived` | `Spec => []AckedWasReceived` | `NoWrap` |
| | `WindowsFit` | `Spec => []FreshFramesFit` | `NoWrap` |
| | `WindowBounded` | `Spec => []WindowBound` | `NoWrap` |
| | `ImplementsStream` | `Spec => StreamSafety` | `NoWrap` |
| `StopAndWaitProofs` | `TypeCorrect` | `Spec => []TypeOK` | none |
| | `PassedIsReceived` | `Spec => []PassedWasReceived` | none |
| | `TrueUntilFailure` | `Spec => []TrustworthyUntilFailure` | `NoWrap` |
| | `OrderUntilFailure` | `Spec => []OrderedUnlessFailed` | `NoWrap` |
| `LeoRelayProofs` | `TypeCorrect` | `Spec => []TypeOK` | `ShortTicks` |
| | `CountersAddUp` | `Spec => []StatsAddUp` | none |
| | `FramesInOrder` | `Spec => []InOrderOnce` | none |
| | `ImplementsChannels` | `Spec => ChannelSafety` | none |
| | `OneStaleFrame` | `Spec => []StaleAtMostOne` | `ShortTicks` |
| `ActuatorProofs` | `TypeCorrect` | `Spec => []TypeOK` | `RateSlack` |
| | `StopIsNeverUndone` | `Spec => StopIsFinal` | none |
| | `DelayKeepsRate` | `Spec => []NeverRateLimited` | `RateSlack` |
| | `AnsweredOnce` | `Spec => []OneAnswerEach` | `RateSlack` |
| | `NeverTurnsAway` | `Spec => YawApproaches` | none |
| `CommandStreamProofs` | `CommandsOnceInOrder` | `Spec => []OnceInOrder` | none |
| | `FailedStaysUnexecuted` | `Spec => []FailedNeverExecuted` | none |
| | `InStep` | `Spec => []InStepUntilTorn` | none |
| | `StreamTypes` | `Spec => []TypeOK` | none |
| `SessionProofs` | `TypeCorrect` | `Spec => []TypeOK` (handshake) | none |
| | `OnlyAgreedIsEstablished` | `Spec => []EstablishedWasAgreed` | none |
| | `WrongByLateAckOnly` | `Spec => []WrongOnlyByLateAck` | none |
| | `TermsAgree` | `Spec => []SameTerms` | none |
| | `DiscoveryTypeCorrect` | `D!Spec => []D!TypeOK` | none |
| | `OnlyOfferedIsRegistered` | `D!Spec => []RegisteredWasOffered` | none |
| | `TermsAreMutual` | `D!Spec => []RegisteredTerms` | none |
| | `RegisteredOnlyOnce` | `D!Spec => RegisteredOnce` | none |
| | `SessionsTyped` | `MCSpec => []TypesOK` | none |
| | `SessionsSafe` | `MCSpec => []`(the four invariants of `sessions`, and `RegisteredWasOffered`) | none |
| `MessageProofs` | `StopIsSeen` | `Spec => []StopShows` | none |
| | `LatestIsNewest` | `Spec => LatestNeverGoesBack` | none |
| | `TelemetryTypes` | `Spec => []TypeOK` | none |
| | `MessagesTyped` | `MCSpec => []TypesOK` | none |
| | `MessagesSafe` | `MCSpec => []`(the nine invariants of `messages`) | none |
| | `MessagesKeepLatest` | `MCSpec => LatestNeverGoesBack` | none |
| `BonusProofs` | `OneAcceptedPerWindow` | `Spec => []AcceptedOnce` (gate) | none |
| | `RefusedForRateMayRetry` | `Spec => []RateRefusalMayRetry` | none |
| | `SourceKeepsRate` | `Spec => []RateBudget` | none |
| | `GateTypes` | `Spec => []TypeOK` | none |
| | `OnlyWholeFramesDelivered` | `V!Spec => []DeliveredIsSent` | none |
| | `DeliveredAgainOnlyWhole` | `V!Spec => []AgainOnlyIfAllAgain` | none |
| | `VideoTypes` | `V!Spec => []V!TypeOK` | none |

`D` and `V` are `Discovery` and `VideoStream`, over the variables the promises are stated
of; `MCSpec` is the specification the runs `sessions` and `messages` check. What those MC
modules choose for TLC (dictionaries, frames, angles) are constants too, which their
`.cfg` files give a value, so that the theorems hold for any choice.

### SelectiveRepeatProofs

`TypeOK` is inductive as it stands (`TypeStep`). The others are not: that a frame fits
the receive window depends on how far the sender's window has moved, which depends on
ACKs being truthful, which depends in turn on frames fitting. The inductive invariant
`IInv` ties the parts together: `nextSeq` is the count of sends and
`sendBase <= recvBase <= sent` with `sent - sendBase <= Window` (`Bases`); a frame under
number s bears payload s and was sent (`FramesInv`, `SendBufInv`); what the receiver
buffers lies strictly between `recvBase` and `sent` (`RecvBufInv`); what is ACKed is
delivered or buffered, and the slide stopped at a number not ACKed (`AckInv`);
`delivered` is 0, 1, 2, ... up to `recvBase` (`DeliveredInv`). `InitInv`, then one lemma
per action (`SendInv`, `ProcessAckInv`, `RetransmitInv`, `ReceiveInv`, `LoseInv`), then
`StepInv` and `Invariance`. `NoWrap` (`MaxSends + Window <= SeqMod`) is needed: beyond
one lap the window test of the code is wrong, as `sr_wrap` shows. On one lap `Fits`
keeps every number in use below the modulus, `WrapSmall` and `RunBelow` remove the
reduction, and `RunBelow` shows that a slide never runs past what was sent.
`ImplementsStream` maps
`Send` to `Submit`, a delivering `Receive` to `HandOver`, everything else to a stutter.

### StopAndWaitProofs

`TypeInv` adds to the types that every call but the running one has an outcome. On every
lap, an ACK on its way or noted in `lastAck` is of a number the peer has taken
(`AckInv`), which is all `PassedIsReceived` needs: it does not matter when the other
thread wrote `lastAck`. What True means needs more (`TrustInv`): while no call has failed
the number in use is the count of the calls (`SeqInv`), so a frame of that number bears
that call's payload (`FrameInv`); `saw_reuse` is what happens after a failure.

### LeoRelayProofs

`Shape` holds the types the arguments need. For the counters one lemma says it all
(`OneThread`): a step of one drain thread changes the number of its frames on the air by
as much as it changes transmissions less outcomes, and leaves the other thread's alone.
For the order, `OrderInv` says that of each direction what is out, what is in hand and
what is queued are, in this sequence, increasing numbers of frames of that direction.

For the ages, `TimeInv` ties them to the phase of the orbit. While the satellite is up a
tick passes only when both threads have nothing to do, so nothing queued or in hand has
any age; as it sets, one tick passes over what is on its way to `transmit`
(`PlaceInv`); while it is down the queues age with the phase (`QueueAge`), and what waits
in a hand was within the limit when it was taken and has aged no longer than the
blackout (`HandAge`). When it rises, no frame has been given to the channel in that pass,
so the one too old is the first (`AgeInv`). `TickAge` has a case for each of the three
parts of the orbit. For the types, `CountInv` says that the frames counted by `transmit`
with those still to come, and those handed over with those still waiting, are no more
than have arrived; the bounds of all counters follow from it and `StatsAddUp`.

`ImplementsChannels` maps what is in a thread's hand, followed by what is in its queue,
to the messages under way (`Underway`), and the numbers in `log` that go that way to
those entered (`Entered`). An arrival enters at the end (`ArriveEnters`); taking a frame
out of the queue leaves the sequence as it is, unless the frame has expired
(`GetKeepsOrLoses`); every way of a frame out of the hand takes off the first message,
lost (`FinishLoses`) or delivered (`ForwardDeliversOrLoses`); a tick changes ages only
(`TickRests`). That a thread's hand is empty at just the places where it should be is
`HandsInv`, and `OrderInv` says that no frame has the number of an empty hand. The order
of `delivered`, which `FramesInOrder` states outright, is thus the order of entering.

### ActuatorProofs

`StopInv`: during a stop the pitch target is the feathered position, and pitch and target
are in range. From it, no command of any connection moves a target and no tick moves the
blades back.

`AgeInv` is the argument of the rate limit: the i-th of n timestamps of a connection is as
old as the n - i + 1 delays slept since, less what is left of the running one, and none
is older than the window. An idle handler with a full table would have a first timestamp
of `RateLimit * Delay` ticks or more, which is the whole window (`RateSlack`, and
`BelowLimit`): the table is never full, so no verdict is "rate_limit" (`VerdictInv`). That
`Aged` takes off a prefix needs a least position that is young enough; it is got from the
natural numbers being well-founded rather than by induction.

`TalkInv` puts the frames of a connection in a row: those handled, the one in hand, those
in the inbox, numbered by their places in `log` (`FramesInv`); the answers are those of
handled frames that ask for one, in that order, and of all of them while no frame to
that client was cut short (`AnswersInv`); the stop a handler is about to answer is engaged
(`StopsInv`). `NeverTurnsAway` is
arithmetic on the circle: after a move of at most the way left, on the shorter side, the
distance is less by that much. `TypeCorrect` adds that all frames sent are at most
`MaxCmds` (`QueueInv`), and the frames cut short at most `MaxCuts` (`CutInv`), by counting
pairs of a connection and a place.

### CommandStreamProofs

`Stream(c)`, what was read but not taken with what is under way, is the sequence the proof
looks at: `Recv` leaves it as it is, `TakeFrame` takes a stretch off its front, a send
appends units (`StreamRecv` and the lemmas beside it). `ConnInv` says that the
connections made are the first numbers, so that a new one has an empty stream. `UnitInv`:
the units are in the order written, and each was written; `ExecInv`: what was executed was
sent whole, and what is still on its connection comes later. So a frame taken, being the
units of one command from the first to the last, is of a command sent whole and not yet
executed, however far the reader was out of step before. `StepInv`, while nothing was cut
short: the stream holds exactly the units of the commands that wait, and with each unit
its whole frame (`Whole`), so that the first frame in it is one of them. With the flags
(`FlagInv`) these make `StreamInv`, which implies the types (`TypesHold`).

### SessionProofs

In `Handshake` the properties rest on what may be on the path: a NEGOTIATE bears a real
session (`OffersInv`), an AGREE one the initiator agreed to (`AgreesInv`), an ACK means
that some session is established (`AcksInv`), and the context holds the responder's own
terms (`CtxInv`), which `NegotiateCapsSymmetric` equates with the initiator's. In
`Discovery`, `NetInv` says of every datagram that the session in it was made by the node
that offered it, for the node it was offered to, and that an AGREE goes between nodes
with something in common; neither loss nor repetition can change that. `OnceInv` is for
`RegisteredOnlyOnce`: while nothing has come twice, a session under way is pending at
its maker and in one datagram only, so that the AGREE that ends its exchange is the last
of it. `SessionsInv` puts the invariants side by side: a step of `MCSpec` is one of
either part and leaves the variables of the other alone.

### MessageProofs

`StopInv`: since the first reading that reports the stop the stop is set, the nacelle has
not moved, the blades have not gone back, and no snapshot is due without a tick that has
taken the power away. `OrderInv`: the frames on the path are in the order of their newest
readings, the station's latest is no newer than any of them, and what is about to be sent
is no older; a loss takes a frame out without reordering the rest. For the types,
`BatchInv` says that a batch is full at most when it is about to be sent, so that
`SendReadings` never finds one longer than `BatchSize` and never sends an empty one.

`MessagesInv` is the conjunction of the invariants of the four parts, those of commands,
gate and video being cited from instances of their own proof modules (`CP`, `BP`).
`SameCommands`, `SameGate`, `SameVideo` and `SameLogs` say that the instances
`MCMessages` makes are the same specifications; `OneMoves` that a step of `MCSpec` is a
step of one part and a stutter of the other three.

### BonusProofs

The gate. `PassedInv`: what has got past the replay detector and is still being checked is
remembered since now, no other thread holds a copy that has, and the last accepted copy is
older than the window; `LogInv`: what was accepted is remembered for as long as the window
lasts. `RetryInv`: whatever is remembered came to its end when it was noted, or is on its
way at this very time (`SeenInv`), and so it was with what was refused for it
(`RefusedInv`); a tick comes only when no thread is within a call. `RateInv`: of each
source, the frames accepted since any moment of the window and those let in but not
decided are no more than the times in its list since that moment (`BalanceInv`), of which
there are at most `RateMax` (`AllowedInv`); that the detector drops just the times before
the window (`RecentIs`) holds because they are in order, so that those it keeps are the
end of the list (`FirstOnes`).

The video. `PartInv`: what is in the buffer of a frame are indexes of it, each once, and
not all. When the last one comes, as many different indexes as the frame has fragments
are all of them (`AllThere`, by counting), so the frame put together has every chunk
in its place (`DeliveredIsSent`). `CopiesInv`: of every fragment as many copies have come
as the frame was delivered, and one more if it is in the buffer.

For the types of the gate, `MemoryInv` adds that what is remembered is of frames there
are and of times that have been; the length of a source's list is `AllowedInv`. For those
of the video, `ArrivalsInv` adds the bound of the model.

### Only model-checked

Liveness (`DeliveredOrAbandoned`, `EveryCallReturns`, `EveryFrameLeaves`,
`StopFeathers`, `StopGivesUp`, `AllMeet`) is beyond the prover and is checked on the
instances. Every invariant and every action property of a passing run is a theorem. The
seven statements under *Disagreements* are false, and TLC's counterexamples are all
there is to say of them.

## 5. Not modelled, and the plan

Left out for good:

* the byte layout of `frame.py` and collisions of its CRC (the modules use that damage
  is noticed and that a frame tells its length), and `message_types.py`;
* `interop.py`: it builds and validates an announcement and keeps no state;
* the pre-shared-key functions of `security.py`, which keep none either, and the lists of
  alerts;
* the numbers of STATUS frames (actuator), of readings and heartbeats (sensor) and of
  announcements (discovery): they are taken from an unlocked counter, and nobody looks at
  them; with them go what a STATUS frame says, the sensor's heartbeat, and the station's
  logging of answers, so also how it reads on after an answer was cut short;
* the choice of the video bit rate, the figures of weather, Doppler and latency: they
  change sizes and probabilities, not possibilities;
* the logger, the configuration, the command line and the demo script.

Hazards without a property are listed in `PROJECT.json` with the reason: most are growth
without a limit (queues in a blackout, negotiations never agreed, video frames never
completed). That the numbers of some frames are taken without a lock is not listed, as
nobody reads them.

What could be added: the laps after the first of `SelectiveRepeat` and `StopAndWait`,
where what holds is weaker, and one specification of a whole session, in which the frames
that `CommandStream` executes are those `Actuator` is sent.
