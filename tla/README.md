# Verification of GestoTrack

GestoTrack recognises hand gestures with two HC-SR04 distance sensors on an
STM32L475 board and tells a Raspberry Pi about them over Wi-Fi, which switches
an LED, sounds a buzzer or blinks. This directory has TLA+ models of its parts,
the TLC configurations that check them, and TLAPS proofs of every safety property
that the runs check, for all values of the constants.
Paths are relative to the repository; definitions keep the source's names.

## The system: inventory

| part | source | state | operations | interacts with |
|---|---|---|---|---|
| sample queue | `HC_SR04_Ultrasonic_Library/MyQueue.h` | array, `front`, `back`, `valid` | `push`, `reset`, `size`, `[]` | pushed by an interrupt, read and reset by `main` |
| sensor driver | `ultrasonic.{h,cpp}` | timer, `start`, `end`, `_distance`, `done`, attached handlers, Timeout | `_startTrig`, `_startT`, `_updateDist` (interrupts); `startUpdates`, `pauseUpdates`, `checkDistance`, `getChanges`, `reset` (main) | `done` and the queue are shared between both sides, nothing is masked |
| gesture recogniser | `main.cpp`, `SocketDemo::run` | `state`, `lastTime`, windows | one loop iteration | reads both sensors, sends to the Pi |
| Pi server | `rpi/server.py` | outputs, position in its loop, TCP buffer | `recv` loop, sleeps, Ctrl-C | TCP stream from the board |
| socket table | `COMPONENT_ism43362/ISM43362Interface.cpp` | `_ids`, `_socket_obj`, `_cbs`, socket structs | `socket_*`, reader thread | called by mbed's sockets and its own thread, under `_mutex` |
| module driver | `COMPONENT_ism43362/ISM43362/ISM43362.cpp` | `_active_id` | `open`, `close`, `send`, `check_recv_status`, `connect`, `disconnect`, `dhcp`, `getIPAddress`, `scan` | AT commands to the Wi-Fi module |
| AT parser, SPI transport | `ATParser/`, `BufferedSpi/`, `Buffer/` | ring buffers, data-ready flag | `send`, `recv`, `read`, `write` | SPI bus, data-ready interrupt |
| network connection | `ISM43362Interface.cpp`, `ISM43362.cpp` | `_connect_status`, `_conn_stat`, credentials, what `C1`-`C3` left in the module | `set_credentials`, `connect`, `disconnect`, `attach`, `update_conn_state_cb` | called by any thread, under `_mutex` call by call; status callback |
| demo set-up | `main.cpp` 60-162 | none after it | straight-line | Wi-Fi, DNS |

What is hard about it:

* the echo interrupt pushes into a queue that `main` scans with plain loads,
  computing `size()` from two of them, and resets with two plain stores;
* the window slides under the recogniser, and a mark depends on the mark before
  it, so whether an old detection counts again is a matter of many samples;
* a time-out, a third detection and a blocking send race each other over one
  `int` stamp of a 64-bit clock, which is uninitialised at first;
* TCP keeps no message borders while the Pi sleeps up to two seconds a message;
* the driver spins on a pin and on a flag that an interrupt resets, gives up after
  a time-out, and may find the answer to the last command when it awaits the
  answer to the next;
* application threads and the reader thread share a table of sockets whose
  exchange with the module may fail at every command, before or after the
  module has acted;
* credentials are set by one call and used by another, `connect` with an SSID is
  both, and a `connect` that fails half-way leaves values in the module.

What makes each part correct: the queue is the last `W` samples, whatever
preempts what; a distance is the width of its pulse; every step of a gesture
comes from a new detection and every gesture ends and is reported once; the
light is as the messages meant it and the buzzer stops; a command is
executed at most once and an answer taken for its own command's only; the reader
thread never follows a dangling pointer and nobody misses a wake-up; what is
joined is one network, the one asked for, and the status told of it is true.

## Modules

| module | models | notes |
|---|---|---|
| `SlidingWindow` | abstract: the last `W` samples | what `MyQueue` promises |
| `MyQueue` | `MyQueue.h`, one step per operation | refines `SlidingWindow` |
| `SensorScan` | the queue under interrupts | extends `MyQueue`; `main`'s `getChanges` and `reset` split at every memory access |
| `SensorScanProofs` | | TLAPS: invariant and refinement of `MyQueue`, for all `N`, `W`, `Values`; under interrupts, with one sample per call, sound queue, sound accesses and the refinement again |
| `Ultrasonic` | one sensor's driver | interrupts are atomic, `main`'s calls split |
| `UltrasonicProofs` | | TLAPS: silent pauses, no measurement flagged away, true widths, for all ranges of the timer |
| `Changes` | `getChanges` and the merge loop as functions | `MarkedByRuns` is the reference definition |
| `ChangesCheck` | every window, sample by sample | |
| `Gesture` | abstract: the README's gestures | a path of detections, reported once when it ends |
| `Stopwatch` | `getUsTime() - lastTime` | includes the uninitialised stamp and the overrun of `int` |
| `UsClock` | the 64-bit clock and its truncation to `int` | proved to implement `Stopwatch` |
| `Recognizer` | `SocketDemo::run`'s state machine, one action per branch | refines `Gesture` |
| `RecognizerProofs` | | TLAPS: types, true stamps and time-outs, refinement of `Gesture`; `UsClock` implements `Stopwatch` |
| `GestoTrack` | recogniser + both windows + change detection | the program on the board |
| `GestoTrackProofs` | | TLAPS: `getChanges` against its reference, sharp marks, and all of `GestoTrack`'s properties, for all `W`, `Distances`, `Threshold`, `Limit` |
| `LightServer` | `server.py` and its TCP stream | |
| `Home` | recogniser + server in common time | |
| `HomeProofs` | | TLAPS: the light, the buzzer and the bound of the backlog, for all durations |
| `ISM43362` | the driver's and the module's sockets | an operation is a function to the set of its outcomes |
| `ISM43362Interface` | socket table, application threads, reader thread | extends `ISM43362` |
| `ISM43362InterfaceProofs` | | TLAPS: what each driver operation keeps, whichever command fails; types, no dangling pointer, exclusive ids, no astray operation, true senders, for all `Ids`, `Handles`, `Peers` |
| `Connection` | credentials, `connect` and `disconnect` command by command, the status and its callback | several threads and `_mutex` |
| `ConnectionProofs` | | TLAPS: mutual exclusion, one network joined, true status, for all `Threads`, `Networks` |
| `Commands` | abstract: commands executed at most once, in order, answered by themselves | what the transport promises to `ISM43362` |
| `MyBuffer` | the ring buffer, as operators on its state | of both directions |
| `SpiTransport` | the SPI handshake, `ATParser`'s and `check_response`'s use of what was read, `scan`, the module's phases | extends `MyBuffer`, refines `Commands` |
| `SpiTransportProofs` | | TLAPS: `MyBuffer` is a queue; all safety properties of the transport and the refinement of `Commands`, for all sizes, bursts and numbers of operations |
| `MC*` | constants for TLC | |

How the state corresponds: `queue` is the struct's four members. In
`SensorScan`, `pc` is `main`'s program counter, `part` the one load of a
`size()` already done, and samples are numbered, so a slot's content says which
sample it is. In `Recognizer`, `state` has the source's numbers 0, 1, 2, 12, 21,
3; `elapsed` is the difference the code compares, not the stamp, and `sent` the
message of the last step; `peak.back()` is any sensor here and computed from the
windows in `GestoTrack`. In `LightServer`, `left` is the rest of the current
`time.sleep`. In `ISM43362Interface` every function is one step since each holds
`_mutex` throughout; the reader thread releases it between sockets and so do we.
In `SpiTransport` that same mutex makes operations come one after another; `pc`
is where the driver's thread is, `op.formats` the `recv` calls still to come,
and a buffer holds tokens that name the command they belong to where the code's
holds characters, two to an SPI word; a network that `scan` asks for with `MR` is
the next operation. In `Connection`, `pc` is the next step of a thread's call,
named for the function before the mutex is taken and for the command after;
an SSID, a passphrase or a security is the network it belongs to, so that `ap`
and `module` show whether the three agree. In `ISM43362Interface`, `sender` is
who sent a datagram handle's unread bytes, and `Reported` what `socket_recvfrom`
says. Variables whose comment says *history* are
not in the program: they remember what a property needs to tell apart.

Mutants: an operator whose comment says "Mutant of X" is X with a plausible bug.
Each checked property has one that violates it.

## Runs

| run | question | bounds |
|---|---|---|
| `SensorScan` | is the queue sound with an interrupt between any two accesses of `main`'s? | W=3, N=8 (room enough for a torn size to be negative), 14 samples: two compactions |
| `ChangesCheck` | does `getChanges` mark the odd members of runs; do sharp marks stay while the window slides? | windows up to 6, 5 distances below, at, above threshold and limit |
| `Recognizer` | does the state machine keep the README's promise and end every gesture? | time-out 5, rest 1, a send up to 2, junk stamps from -3 to 6 |
| `RecognizerOverrun` | *violated*: time-out after 36 minutes of uptime | as above |
| `GestoTrack` | does every step come from a new detection, is none missed, is the merge in bounds? | W=3 < time-out 4, sharp objects |
| `GestoTrackSlow` | *violated*: the same for an object that approaches slowly | three distances |
| `Ultrasonic` | are distances pulse widths over timer resets, pauses, missed edges? | timer limit 3, timer up to 6: pulses before, across and after the limit |
| `Home` | does the backlog stay small; light, buzzer and bytes | the program's real ratios: time-out 10, rest 2, buzz 10, 10 blinks; the bound of 8 bytes is tight |
| `HomeMerged` | *violated*: one message per `recv` | as `Home` |
| `Interface` | dangling pointers, shared ids, astray operations, wrong senders, lost wake-ups | 2 sockets, a datagram and a stream handle, 2 peers, packets of 2 bytes, 1 waiting |
| `Connection` | whose network is joined, is what is told true, does every call return? | 2 threads that call everything in any order for ever, a network of supported and one of unsupported security |
| `SpiTransport` | is every command executed at most once, in order, and answered by itself (`ImplementsCommands`); is anything left unread, a rise missed, does every command end? | 4 operations of any kinds (`scan` in one answer or network by network) after the reset; buffers of 6 tokens, so that 3-token sends wrap them at each position and an answer may be longer than `read`'s limit; the answers: OK, an error, data, too much data |

Why the bounds are enough. The queue is symmetric in its samples' values, and
two compactions show the window in each position against the array's end, before
and after resets; one sample per scan is the program's rate (a scan takes far
less than 100 ms). `getChanges` looks one sample and one mark back, so windows
of 6 have runs of every parity at every position. Time only enters the
recogniser through comparisons with two constants. Two module sockets are enough
for one to be selected while another is active, two handles for one id to be
given twice. `MaxSamples`, `MaxTimer` and `MaxInbox` are bounds of the models
and named as such, and so is `MaxOps`; `SensorScan` stops when it has used its
samples and `SpiTransport` its operations, hence `CHECK_DEADLOCK FALSE` there
and only there. Four operations are enough for one to time out, the next to meet
its late answer, and two more to live with what that left. Two threads are enough
for one to overtake the other between any two of its steps, and a third could
only do the same; with two networks the three credentials can disagree, and an
attempt can fail at the security, which the driver judges after it has set the
SSID and passphrase. `Connection` has no bound: its calls repeat for ever.

Some properties hold under a condition, and the condition is a fact about the
code: `AssertionsHoldUnlessTorn` (a push between the two loads of `size()` does
make `operator[]`'s assertion fail), `ReadsOnlyPastData` and the two properties
after it `~midway` (if `main` iterates when one sensor measured and the other
did not yet, the windows are out of step, and while they fill the merge loop
reads `a2` past its end), `BeginsOnNewFallAfterReset` (after a time-out, which
keeps the windows, an old detection may begin the next gesture),
`LightIsAsMeant` `~merged`, `SharedOnlyIfDropped`, `AstrayOnlyIfUnconfirmed`,
`AccessesAreSound` (a scan that begins while the window fills may store past
`arr`), `DatagramsAreFromPeer` (`socket_sendto` to another peer keeps what is
unread from the last one, and `socket_recvfrom` then names the new one; and an id
may be shared), `JoinsOwnNetwork` `overtaken` (`connect` with an SSID takes the
mutex twice), `StatusIsTrue` `lost` (the driver never learns that the module
has lost its network). `ImplementsCommands` (its `given`) and `SendsOwnBytes`
promise something of operations that were
transmitted (`trace.sent`) and not after a send that was not (`trace.stale`):
`ATParser::write` ignores that `buffsend` timed out (`ATParser.h:166` says "-1
on failure"), so `send` goes on to await an answer, takes the late one of the
command before for its own and returns true, and its bytes stay in `_txbuf`, to
be transmitted before the next send's (a command flushes them). Also seen while
modelling: `isUpdated` does not clear the flag although `ultrasonic.h:28` says
"since the last call of isUpdated()", which harms nobody because `checkDistance`
clears it; the `len >= _buf_size` at `BufferedSpi.cpp:270` can never hold, since
the loop stops at `_buf_size - 2`; `getNbAvailable` counts the wrap with `_size`
where the indices wrap at `_size - 1`, but has no caller.

Seen of the connection: a `connect` that fails leaves `_conn_stat` at CONNECTING,
or at GLOBAL_UP if an earlier one had succeeded; after a failed `getIPAddress`,
or when a later `connect` is refused before `C0`, the module is still joined
while `disconnect` returns NO_CONNECTION; `disconnect` tells DISCONNECTED before
`CD` is sent, and says so even if `CD` fails. `StatusIsTrue` is what remains: a
`_connect_status` of OK with GLOBAL_UP is a joined module. `ISM43362Interface.h`
says of `socket_recvfrom` that "excess bytes are discarded"; the code keeps them
for the next read.

### Violations

1. `RecognizerOverrun`: `lastTime` is an `int`; once the clock passes 2^31 us
   every stamp is far in the past and a gesture times out as soon as it begins.
2. `GestoTrackSlow`: within a run of falls every other one is marked, counted
   from the window's first sample; as the window slides the marks swap and an
   old fall becomes a new detection.
3. `HomeMerged`: two messages that arrive during a sleep are received as one
   and only the first two bytes are acted upon.

The conditions above name the others: `socket_sendto` to another address frees
its id before it reconnects, and if that fails the handle keeps an id that the
table gives away (`SharedOnlyIfDropped`, also proved); after a `P0` that failed,
`_active_id` is wrong and an operation goes to another socket
(`AstrayOnlyIfUnconfirmed`).

## Fairness

`Recognizer!FairSpec`: time passes, the loop runs and each sensor measures: the
triggers re-attach themselves every 100 ms and `while(true)` has no exit; both
sensors are needed, since the loop acts only when both were updated: a gesture
under way when one sensor stops answering never ends. `Ultrasonic!FairSpec` is
the same of one sensor's interrupts and of `main`'s calls. `HomeSpec` has only
safety properties, and a period cannot pass while the Pi has something to do
that takes no time. `TransportSpec` is fair to the driver's thread alone: it
spins or computes and its waits have time-outs; the module need never answer.
If it does, its answer to a command is finite and the only one. `scan` with newer
firmware sends `MR` for as long as the module answers it with a network
(`ISM43362.cpp:541-611`), the mutex held; that the list ends is not assumed, so
`CommandsEnd` does not say that such a scan returns, but that each of its commands
ends, in the return or in the next `MR`. Where the bound `MaxOps` forbids that next
`MR` the model stops, and the property leaves out that last command.
`InterfaceSpec` is fair only to the reader thread's turn at each socket (it
sleeps 50 ms between rounds and the mutex is free then); no application thread
has to do anything. `ConnSpec` is strongly fair to each thread's own steps, as
the mutex may be free only now and then and the operating system hands it to
those that wait in turn; it includes the time-out of `C0`'s answer and not the
answer's lines, which are the module's and need never come. That they do not come
for ever without an OK or a failure is assumed (`connect` would read on, each line
in time), and `CallsReturn` rests on it.

## Proofs

Every safety property and action property of a passing run is a theorem, and
so are the three refinements; besides, the property that `RecognizerOverrun`
violates is proved for a clock that fits an `int`. The theorems rest on the
named assumptions of the modules' constants, which TLC evaluates on each run, and
on the hypotheses they state.

`SensorScanProofs` first proves of `MyQueue` itself, for every array size `N`,
window `W` with `2W <= N` (the constructor's assertion) and set of samples:

* `TypeCorrect`, `AssertionHolds`: indices stay in range and `push`'s assertion
  holds. Neither is inductive: that the window is full when its end meets the
  array's end depends on how it got there. The invariant `IInv` adds
  `FrontFollowsBack`, front = max(0, back - W): a push keeps it whether it
  compacts, fills or slides, a reset restores it, and with `2W <= N` it gives
  `FullAtArrayEnd`. Theorem `Invariance`.
* `Refinement`: the queue implements `SlidingWindow`. Each push is shown
  to be compaction (which leaves the window as a sequence unchanged), storing
  (which appends) and trimming (which drops the head).

Then of `SensorScan`, for every `N`, `W` and number of samples, if at most one comes
during a call of `main`'s (`PushesPerScan <= 1`, a hypothesis of each theorem: an
echo is followed by a pause of many times a scan's length): `QueueIsSound`,
`InterruptedPushIsSafe`, `ScanIsSound`, `OnlyTearingFails` and
`InterruptedRefinement`. The invariant `SInv` has three ideas:

* `HalfReset`, between a reset's two stores: `back` counts the samples since, the
  old `front` may still be set, and then the window was ready. A push there neither
  meets the array's end nor trims, so the second store leaves a sound queue. With
  more than `W` samples between the stores it would not.
* `Numbered` and `Held`: which sample is in which slot of the window, so that a slot
  address computed before a push still means an old enough sample after it
  (`PushKeeps`: the copy never reaches the window it copies from, as `2W <= N`; the
  one slot that may be overwritten gets the newest sample).
* `TornOnce` and `Indices`: an index compared with a size read in one piece stays
  below it, as a push never shrinks the window; one compared with a torn size is
  compared again by `operator[]`, and no second size can be torn.

`UltrasonicProofs`, for any range of the timer: `Silent`, `NothingLost`,
`PulseMeasured`. The invariant adds to the types what is detached at each step of
`startUpdates` and `pauseUpdates` (`Detached`: the trigger is, throughout, so no
interrupt attaches an edge behind `main`'s back), that the flag is up whenever
`main` is about to clear it (`Flagged`), and that since the echo's rise the timer
and the pulse have grown by the same (`Timed`), because the timer is reset only
where `start` is taken.

`RecognizerProofs`, for every time-out, rest, send time and junk in `lastTime`:

* `TypeCorrect`: in particular `state` is always one of the README's six.
* `StampIsTrue`: `ElapsedIsTrue` as long as the clock fits an `int`
  (`~MayOverrun`). It is inductive with the types and `~overrun`: every branch
  that enters a state but 0 stamps, and time adds the same to both sides.
* `TimesOutInTime`: `TimesOutAfterIdleTime`, from the same invariant. `GoIdle` is
  the one branch by which a gesture ends without being complete.
* `GestureRefinement`: every branch is a step of `Gesture`, or its `Wait`, under
  the mapping of a state to its path of detections. It needs the types only,
  so the promise about *which* messages are sent holds with an overrun clock too.

* `ClockRefinement`, of `UsClock`, for every width of `int` and time-out shorter
  than it: the truncated stamp behaves as `Stopwatch` says.
  The argument is one lemma per regime: before the clock leaves `int` truncation
  is the identity, and after it the difference is at least half the range, more
  than any time-out.

`GestoTrackProofs`, for every window width, set of integer distances, threshold and
limit, has two parts. The first is about `getChanges`:

* `ScansMatchRuns`: its scan marks the odd members of the runs in every window.
  This is recursion over data, but needs no induction scheme: the reference
  satisfies the scan's own equation (`RunsSatisfyScan`: being odd alternates
  within a run, `OddAlternates`), and a window has only one solution, since the
  least sample at which two differ would need one that differs before it
  (`ScanIsByRuns`). The least-number principle is the library's well-foundedness
  of `<` (`LeastNatural`).
* `DetectionsStay`: a fall is marked unless the sample before it falls too
  (`SharpMarks`), so sliding moves no mark of a sharp object.

The second is about the program. `SystemIsRecognizer`: it is a behaviour of
`Recognizer`, so that what is proved of that holds of it. The invariant `ProgramInv`
has `InStep` (how the windows' lengths differ within a period) and `Noticed` (what
fell since a reset has been noticed), and gives `MergeStaysInBounds` and
`BeginsAnew`. `AdvancesAnew` and `AdvancesAtOnce` speak of falls by their *age* in
periods (`Ages`, `Recent`), which no sample changes and each period increases by
one (`SlideAges`, `PeriodAges`), until the fall slides out. A scan finds the
youngest (`PeakIsNewest`), so when a gesture advances, each fall of the sensor
expected next is behind one of the other's; that stays so until it falls anew
(`Passed`). Both assume `SharpDistances`, that two samples in a row cannot both fall:
without it `AdvancesAnew` is false, which the run `GestoTrackSlow` shows.

`HomeProofs`, for every duration of the buzz and number of blinks. `HomeInvariant`:
at most one message is in flight, only until its period ends (`Turns`), bytes come
whole messages at a time (`Stream`), and where the script sleeps (`Naps`).
`HomeIsRecognizer` is what `SystemIsRecognizer` is there.

* `Silenced`: `OutputsStop`, from `Naps`: both outputs after any end of the script.
* `LightFollows`: `LightIsAsMeant` is not inductive. `LightInv` says what the light
  *will* be: once the script is back at `recv` (`Resting`), once it has received
  what waits (`AfterBytes`), and once it has acted upon what is in flight
  (`AfterFlight`), it is as meant.
* `BacklogIsPaced`: three times the bytes on their way and waiting never exceed the
  part of the longest sleep that is over and the recogniser's lull (`Paced`): a
  message of one byte leaves a lull of three periods at least, as the next needs a
  time-out or two more detections, and one of two bytes of six, as state 3 rests. The
  hypotheses: the clock fits an `int`, a rest of at least two periods, sends that
  take less than one (as the code's do), and a bound with
  `Nap + 6 < 3 * (MaxBacklog + 1)`. For the program's 20 periods of blinking that
  gives 8, which the run shows to be tight.

`ISM43362InterfaceProofs`, for any number of sockets, handles and peers and any
failures of the module: `NothingDangles` and `IdsSharedOnlyIfDropped`. The
invariant is the types of the table, `NoDangling` and `Exclusive`: until some
handle is dropped, every open one has an id, in use, of its own. That the id is
*in use* is what makes it inductive: `socket_open` then picks one that no open
handle has. The step to look at is `socket_connect_nolock` after
`socket_sendto` freed the socket (`ConnectStep`): a success marks the id as used
again, a failure sets `dropped`. This part says nothing of the module's state,
so it holds whatever the transport does. Two more theorems do, and rest on
one lemma per driver operation over all its outcomes:

* `AstrayIfUnconfirmed`, from `Selection`: an `_active_id` that is not unconfirmed
  is the module's selected socket, or none yet. P0 is the only command that
  changes either, so leaving it out is right exactly then.
* `DatagramsAttributed`, from `Attribution`: until a handle is dropped, the socket
  of a connected datagram handle has packets of its `addr` only (`From`), and its
  unread bytes are from there too. It needs `Exclusive`, because another handle's
  `open` of the same id would bring another peer's packets, and that `open` and
  `close` always send P0, so they never act astray; a read that does is the one
  exception, and `sender` is then unknown.

`SocketTypes` completes the types with the module's side and the reader's position.

`SpiTransportProofs`, for every size of the buffers, burst and number of operations.
First `MyBuffer`: `push` appends to the contents unless the buffer is full and `pop`
takes the first (one lemma each), whatever the indices' wrap. Then
`TransportInvariant`, whose parts say per program counter:

* `Handshake`: how the module's phase, the pin and the interrupt's flag go together;
  `NoMissedRise` is one of its conjuncts, and an answer to an operation before is
  being awaited only while the flag cannot have been set.
* `Parsing`, `Unread`, `Shape`: which formats `recv` has yet to match, how much is
  unread, and what the lines are: a prompt comes last, so whoever matched one or
  ran out of time and flushed has nothing left (`Clean`).
* `Owners`: every unread line belongs to one operation, to the current one once it
  was transmitted.
* `Wire`: what was put on the wire and what is still in the transmit buffer make
  up the operation's bytes (`OwnBytes`).

`NothingLost` follows from `Unread` (the contents are what was taken from the bus and
not read since). `ImplementsThePromise` maps each step: a burst that completes a
command is the promise's execution, a matched line an answer heard, and the rest
stutters; `Owners` is what makes each accepted answer the command's own.

`ConnectionProofs`, for any number of threads and networks and any failures:
`MutexIsHeld`, `JoinsOne`, `StatusStaysTrue`. The invariant says, per program
counter, what already agrees:

* `Copied`: how much of the credentials the thread in `set_credentials` has
  copied; when none is there, the three members are of one network.
* `Told`: after `C1`, `C2` and `C3` the module has the member each sent, which
  stays so because whoever could change it waits for the mutex.
* `Own` and `HasSsid`: a `connect` that nobody overtook finds what it was called
  with, and one that passed the test of the SSID has an SSID when it gets the
  mutex, or a thread is copying one: `set_credentials` clears it first.
* `Status`: between a join and the storing of its result, and between
  "DISCONNECTED" and `CD`, the status is allowed to be behind; it is what lets
  `StatusIsTrue` hold whenever the mutex is free.

Only model-checked, because liveness under fairness is beyond the prover:
`GestureEnds`, `KeepsMeasuring`, `DataIsAnnounced`, `CommandsEnd` and
`CallsReturn`. That the bound 8 of the backlog is tight, and that the hypotheses
`PushesPerScan <= 1` and `SharpDistances` cannot be dropped, is likewise shown on
instances only.

## Not modelled

`ISM43362` relies on `ImplementsCommands`; that a `send` may return true without
having been transmitted changes nothing there, as its module keeps no data sent.
`SpiTransport` assumes
of the module that it raises the pin for a command only after `nss` went up, and
that it may drop either the answer or the command when it is written to with an
answer unread; corrupted words are not modelled. Of the network commands, `startup`,
the firmware version, `dnslookup` and the address queries are one command and one
line each, which `SpiTransport`'s kind "query" stands for; the address getters
change no state of the interface (they do return the driver's shared buffers
after the mutex is free). That `connect` may answer NO_SSID while another thread
replaces one SSID by another is in the model (`connect`), but no document says
what else it should do. The demo's set-up is
straight-line code without state; TLS is configured off; `gesture.h` is an
unused enum; `ready()`, `last()`, `attachOnUpdate`, `getCurrentDistance`,
`event`, `bind`, `listen`, `accept` have no caller or only return an error.
Printing is left out except for the time it takes (the blocking send, the order
of stamp and send).

## Plan

Done, in this order: the sample queue and its scan, the sensor driver, the
recogniser and its composition with the windows, the Pi, the socket table, the
transport every command depends on and the promise it implements, the network
connection; then the proofs, of which every safety property has one. What is left:

* In `SensorScan`'s theorems, more than one sample per call of `main`'s: the weakest
  bound that keeps `HalfReset`, up to `W` samples between a reset's two stores.
* `main`'s own scan as a refinement: that `GestoTrack`'s one-step `Scan` is what
  `SensorScan`'s access by access amounts to, given a sample in between.
