# A verification project for device_phh_treble

The repository collects the device-independent parts of a Treble system image. Most of it is
configuration, overlays and scripts; the code with state, threads and protocols of its own is
the Bluetooth audio HAL under `src/bluetooth/audio`, the core audio HAL under `src/audio/hal` and
the fingerprint HALs under `src/hal`. This project models the Bluetooth audio path from the
Bluetooth stack to the audio framework (what is negotiated, the sessions both meet in, in their
AIDL and their HIDL generation, the providers in front of them, the streams and ports behind
them, the data itself); of the core audio HAL, the streams with their worker threads; and the
fingerprint HALs of Anakin and of Oppo/Oplus.

All paths below are relative to `src/`.

## 1. Inventory

| Component | State | Operations | Meets | Modelled |
|---|---|---|---|---|
| AIDL session, `bluetooth/audio/utils/aidl_session/BluetoothAudioSession.cpp` | control interface, data queue, configuration, latency modes, table of up to 16 observers, one recursive mutex | started, ended, configuration changed, control status, low latency; register, unregister; start, suspend, stop; write and read PCM | called by the providers on binder threads and by the ports on framework threads; calls the ports back with its mutex held | partly |
| AIDL providers, `bluetooth/audio/hal/*Provider.cpp` | the stack's interface, the configuration, death links, a data queue | startSession, endSession, streamStarted, streamSuspended, updateAudioConfiguration, setLowLatencyModeAllowed, death notice | the Bluetooth stack calls them on a binder pool of 16 threads, without a lock | partly |
| Provider factory, `bluetooth/audio/hal/BluetoothAudioProviderFactory.cpp` | none | openProvider, getProviderCapabilities, getProviderInfo | the stack | partly |
| A2DP offload codecs, `bluetooth/audio/hal/A2dpOffloadCodec*.cpp`, `A2dpBits.h` | none | parse, build and negotiate a configuration | the factory and the A2DP offload provider | yes |
| LE codec and ASE tables, `.../aidl_session/BluetoothLeAudio*Provider.cpp`, `BluetoothAudioCodecs.cpp`, `hal/LeAudioOffloadAudioProvider.cpp` | tables read once from XML and JSON, kept in statics; codec priorities | capability, codec information and ASE queries, QoS, broadcast | the factory and the stack | partly |
| Ports, `bluetooth/audio/hw/device_port_proxy.cc` | a state of five values, a cookie, a condition variable | SetUp, TearDown, Start, Suspend, Stop, WriteData, ReadData; two callbacks | one per stream; called back by the session | partly |
| Output streams, `bluetooth/audio/hw/stream_apis.cc`, `audio_bluetooth_hw.cc` | frame counters, a mutex each; the device: a mutex and the list of open streams | open, close, write, pause, resume, standby, set_parameters | the audio framework's playback threads and its parameter thread | partly |
| Input streams, `bluetooth/audio/hw/stream_apis.cc` | as the output streams, and the capture position | open, close, read, standby, get_capture_position | the framework's record threads | yes |
| HIDL session, `bluetooth/audio/utils/session` | two objects (2.0 and 2.1) over one table of 16 observers, codec tables | as the AIDL session | HIDL providers; the HIDL ports | partly |
| HIDL ports, `bluetooth/audio/hw/device_port_proxy_hidl.cc` | as the AIDL ports | as the AIDL ports | the HIDL session | partly |
| HIDL to AIDL middleware, `.../aidl_session/HidlToAidlMiddleware.cpp` | maps from HIDL cookies to callbacks | conversions; register, unregister | between HIDL clients and the AIDL session | conversions |
| Core audio HAL streams, `audio/hal/StreamOut.cpp`, `StreamIn.cpp` | a worker thread, three message queues and an event flag shared with the framework, a stop flag | prepareForWriting and prepareForReading, commands in the queues, close, the destructor; calls forwarded to the vendor's stream | the framework's process, the vendor's stream | partly |
| Core audio HAL devices, `audio/hal/Device.cpp` and others | the count of open streams | open, close, forwarded calls | the HIDL audio service | no: forwarders |
| Fingerprint HAL, Anakin, `hal/anakin-fp` | press sequence number, finger and light flags, a command queue with its mutex, a client with its mutex, high brightness | onFingerDown, onFingerUp, notify, setNotify; a command thread, a spot thread, a timed thread per press | the framework, the vendor's library, the Goodix daemon, the display's nodes | partly |
| Fingerprint HALs, Oppo and Oplus, `hal/oppo-fp`, `hal/oplus-fp` | two flags, the known fingers, a client | cancel, enumerate, forwarded calls; the vendor's callbacks | the framework, the vendor's service | partly |
| Tools, OTA daemon, scripts, InCall service | little | one-shot | ioctl, properties | no: pure I/O |
| Overlays, configuration, policies, images | none | | | no: data |

### What is hard here

* **Three kinds of threads share a port.** `state_` is written by playback threads, by the
  parameter thread and by binder threads. `cv_mutex_` covers the callbacks and the waits only:
  `Start`, `Suspend`, `Stop` and `SetState` write with no lock of the port.
* **Answers carry no request.** A result of `startStream` or `suspendStream` is broadcast to
  every port of the session and interpreted by the state a port happens to be in. A wait gives
  up after 4.5 s and the answer may come later; the stack may suspend on its own.
* **Two sides end a session.** The stack calls `endSession`, and a death notice ends the session
  of its type whoever started it. Death links are never removed.
* **Raw pointers.** The callbacks registered with the session hold a pointer to the port; the
  device's list holds pointers to streams that close deletes without the stream mutex.
* **Nested locks.** Device mutex, stream mutex, session mutex and the condition variable, with
  waits of seconds under the first two and calls into another process, which have no timeout,
  under the third.
* **Polling.** The write and read paths let go of their mutexes while they sleep, and the session
  may be replaced meanwhile; the input stream polls its port with a countdown in 16 bits.
* **A worker thread with borrowed pointers.** The write and read threads of the core HAL use the
  queues, the event flag and the stop flag of their stream, which close, the framework's death and
  the destructor take away in several orders that depend on the HAL version.
* **Tables that must agree.** A configuration is checked by the factory's tables, by the provider,
  by the session, and shown to legacy ports through five conversion tables; each was written by
  hand.
* **Statics that remember.** The LE settings are loaded once, and a flag that is set while they are
  read says that they are bad.
* **Three clocks on one press.** The finger, the display's spot node and a timeout each want to send
  the daemon its 200002; atomics they read one at a time decide who does.

### What makes each part correct

* *Sessions*: the table and the outputs agree; a walk calls only registered outputs, each once; no
  session is ready without having been announced; what is stored fits the session.
* *Providers*: the standing session can be ended by the provider it was started through; it does
  not outlive its process; what startSession accepts the session takes.
* *Negotiation*: the best codec both sides can do, within the hint, and accepted when it comes
  back; capabilities and ASE answers are what files, priorities and requirements say.
* *Ports and streams*: one user of a port at a time; nobody reaches a port or a stream that is
  gone; no port plays after the session's end has been told; every call comes back if the stack
  returns from those it gets.
* *Data paths*: a write or a read is short only after the timeout or when the session is lost, and
  it always comes back.
* *Core streams*: the thread stays inside its stream, the vendor's stream is closed once, a status
  answers its command with the right data, no wake-up is lost, and the destructor ends.
* *Fingerprint*: the daemon hears of the press that is on, and of a stable light area inside it;
  brightness is on while it samples and off after, where the property can be set; the client is told.

## 2. The modules

```
SessionContract                      what a session promises its outputs
      ^ implemented by (proved)
BluetoothAudioSession                one session object
      ^ extended, implements SessionSpec (proved)
BluetoothAudioProvider               stack processes, providers, binder threads
      ^ extended
BluetoothStreamOut                   ports, streams, the device

SessionTypes                         session types and the configurations they take
      ^ extended
LeAudioCodecs                        the LE settings file and what is composed of it
      ^ extended
LeAudioOffload                       ASE settings, matching, QoS, broadcast
AudioProviders                       factory and startSession of every provider (extends SessionTypes)
      ^ extended, with HidlCodecs as an instance
LegacyView                           the same session as legacy clients and both kinds of port see it
A2dpOffload                          A2DP offload codecs, negotiation

HidlSession                          HIDL session with its ports; implements SessionContract
HidlCodecs                           validity tables of the HIDL library
BluetoothPcmPath, BluetoothStreamIn  the data of an output stream; an input stream
CoreAudioStream                      a core HAL stream with its thread; implements CoreStreamContract
CoreStreamContract                   what such a stream promises the framework (abstract)
AnakinFingerprint, OppoFingerprint   the fingerprint HALs

*Proofs                              theorems: BluetoothAudioSession, BluetoothAudioProvider,
                                     BluetoothDataPath (PcmPath and StreamIn), CoreAudioStream,
                                     HidlSession, Fingerprint (Anakin and Oppo),
                                     BluetoothStreamOut, and
                                     Negotiation (AudioProviders, LegacyView, LeAudioCodecs, A2dpOffload)
MCStream, MCDataPath, MCNegotiation, MCFingerprint    for TLC
```

**SessionContract** knows whether the session is ready, who subscribes and who has still to be
told of a change. `Announce` may follow only when the last change has been told to everyone;
`LoseQueue` is the one silent change the code makes.

**BluetoothAudioSession** has the fields of the C++ class under their names. A method that calls
nobody back is one step, since it runs under the recursive mutex. A method that walks
`observers_` starts the walk in `report` and `Deliver` calls one observer per step; the mutex is
held while `report` is set, and also while an output's thread is inside a call of the stack's port
(`calling`), which `StartStream`, `SuspendStream` and `StopStream` make with the mutex held:
`EntersStack` and `LeavesStack` are two steps, and every action that needs the mutex asks for
`MutexFree`, no walk and nobody inside the stack. (The mutex is recursive: an offload session's
stack may answer within the call, on the caller's thread, as `AnswersInside` has it.)
`observers_` is an unordered map, so the order of a walk is free. A configuration is the tag of
its union and a queue is mapped or not. `granted` is what `RegisterStatusCback` last returned to
an output, and `announced` is history.

**BluetoothAudioProvider** adds one provider per stack process and a pool of binder threads.
Provider methods take no lock, so what happens between two calls into the session is a step of
its own: `call` tells what each binder thread is in the middle of; `owner`, the model's bookkeeping,
which of them walks the observers. A call into the port of a process that has died fails
(`DeadCallFails`). `links` counts death links; `endSession` does not remove them, because it passes
another cookie than the one they were made with. The stack makes one start, end or update call
at a time; stream results and death notices come at any time.

**BluetoothStreamOut** adds the framework's threads. Every read and every write of `state_` is a
step. `pc` names the next step of a thread, `op` the call it is in. `Reads` is the table of the
chains of `if (GetState() == ...)` of `out_resume`, `out_pause`/`out_standby`,
`out_set_parameters` and close: each row is one read, the state it compares with, and where the
thread goes. `ControlResultHandler` reads the state in one step and writes the next in another.
A call into the stack is two steps, between which the session's mutex is held and the stack may die.
Waits for an answer may end at any time, which covers the timeout. `asked` and `streaming` are
the requests the stack means to answer and whether it streams; it may suspend unasked. `late` is
history: an answer was reported since the last announced session was over.

**BluetoothPcmPath** is `out_write` with the port started, `WriteData` with its mono mix,
and the loop of `OutWritePcmData`, counted in bytes, together with the two frame counters. The
stack reads any amount, ends sessions and starts new ones with an empty queue.

**CoreAudioStream** is `StreamOut` and `StreamIn` in one, `class` telling which: their threads,
`close`, preparation and destructors have the same shape with the two bits of the event flag
exchanged. `thread` is the place in `threadLoop`, `object` the place in the destructor. A call
into the vendor's stream is the interval between `ReadCommand` and `HalReturns`, in which close
and the destructor may run. `close` itself is three steps (`closing`): the stop flag, the bit, the
vendor's close. The size of a read comes through shared memory and may exceed the queue, where
`doRead` cuts it. The command, its data and the bit are put by the framework, which may
die between any two steps. `major` is the HAL version the build is for: up to 5 the destructor closes
the vendor's stream after the join, from 6 on `close` does at once. Preparation is one step,
since the thread it starts uses nothing that is assigned after the start; a failed or repeated
preparation changes nothing.

**CoreStreamContract** is what the framework is promised of a core stream, without thread, queues
and event flag: `Ask`, `Refuse` or `Enter` and `Return`, `Take`; `Leave`, `Close`, `Free`. Its `request`
is the command the framework has under way, its `answer` that in the status queue or still in the
thread's hands, its `data` the content of the data queue where the framework looks at it. Once the
framework has gone its command and answer are no longer seen, but calls into the vendor's stream are.

**BluetoothStreamIn** is the input stream with its reader and the thread that stands it by. Each
test of the port's state, each release of the stream mutex and each poll is a step; `timeout` is the
`uint16_t` of `in_state_transition_timeout`, counted modulo `TimeoutValues`. `frames_read` and
`position` are the counters behind `in_get_capture_position`.

**A2dpOffload** keeps a configuration as one set of named bits per field, which is what the properties
can tell apart; the positions of the bits on the air are left out, but which bits a field has, their
order of preference, and the bitpool and bit rate arithmetic are there. `GetConfiguration` is the
factory's ranking with a hint, `Build` the codec's selection, `ParseStatus` its parser.

**LeAudioCodecs** models the XML settings as four lists of named entries and the two statics
(`leAudioCodecCapabilities`, `isInvalidFileContent`) with the queries that set and use them.
**LeAudioOffload** adds the two JSON files, composed into settings, the codec priorities, and the
chain of filters behind `getLeAudioAseConfiguration`, the QoS query and the broadcast query. A codec
configuration is a function from LTV tags to values. The lists the code copies and filters are
functions of the places their entries have in the files: what is left keeps its place, so the order
of the files, which decides the first QoS, is that of the places.

**AudioProviders** has one session type, chosen at the start: the factory's tables, `startSession` of
every subclass with its checks in the code's order, its data queue, and the part of the session
that stores what it is told. **LegacyView** converts what that session holds with the functions of
`HidlToAidlMiddleware`, and reads it as an AIDL port and as a HIDL port do.

**HidlSession** is the HIDL library where no AIDL service is declared: the 2.0 object with mutex,
queue and observers, the 2.1 object that holds the configuration of the types 2.0 does not know, and
the ports. As in the AIDL session a walk is one callback per step; a port's SetUp is three steps,
its Start and Suspend two; `ControlResultHandler` reads the state in one step and writes it in
another (`hidlHandler` is what it read). `ReportControlStatus` asks nothing of the session, so an
answer may come whenever the mutex is free. `hidlTold` is history: the configuration of the last
announced start, and since then whether the queue was lost and whether an answer was reported over no
session.

**AnakinFingerprint** has a step for every access to `mFingerSequence`, `mFingerDown` and
`mLightAreaStable` outside the mutex, and the rest of `onFingerDown`/`onFingerUp` cut at the same
accesses; `spotPc` and `waiter` are the places of the spot thread and of the timed thread of each
press, `sending` the command the daemon is being sent with the mutex held. A command may fail, the
daemon being alive or not, which the code only logs: `sent` is the last command that was tried. The high
brightness property may not be set: `refused` is the value it refused last. `notify` is a step per lock it takes. **OppoFingerprint** has one call at a time, with the vendor's callbacks before, in
and after it, and a restart of the service.

**MC modules.** Parts that share no state are checked in one run: MCDataPath, MCNegotiation and
MCFingerprint choose one of their parts at the start and keep the variables of the others still, so
a behaviour is a behaviour of one part, and the state spaces add up instead of multiplying.

`PROJECT.json` maps every modelling definition to its lines.

## 3. The runs

| Run | Instance | Shows |
|---|---|---|
| SessionEndReport | LE software session, 3 outputs, 2 cookies | **violated**: `EndIsReported` |
| Provider | 2 stack processes, 2 binder threads, LE offload, fairness | `SessionCanBeEnded`, `OffloadSessionWhole`, `DeadStackIsForgotten` |
| StreamA2dp | 1 A2DP stream: write, standby, close, A2dpSuspended=false; 2 binder threads, symmetric | `OneUserOfThePort`, `ParametersReachLiveStreams`, `StartedOnlyInSession` |
| StreamPair | 2 LE streams: open, resume, close | `CallbacksFindTheirPort` |
| StreamReturns | 1 A2DP stream: write, close, A2dpSuspended=true, fairness | `EveryStreamCallReturns` |
| StreamStartReport | as StreamA2dp, with every call | **violated**: `StartedByStartReport` |
| DataPaths | an LE software session, 3 outputs, 2 cookies; writes of 4 and 8 bytes into a queue of 6, stereo or mono; reads with a countdown of 2 modulo 8; core streams of versions 5 and 7; fairness | `CookiesMatch`, `WalkVisitsRegistered`, `ReadyOnlyIfAnnounced`, `ImplementsContract`; `ShortOnlyAfterTimeout`, `WriteReturns`, `InReturns`, `ThreadInsideStream`, `CoreImplementsContract`, `CommandIsAnswered`, `StreamIsFreed` |
| Negotiation | remote lists of one and two codecs, hints of three codecs; three LE files and a JSON content; 26 audio configurations on every session type; 4 HIDL types, 2 ports, 2 cookies | `NegotiatedIsAccepted`, `BestCodecChosen`, `HintedRateKept`; `CapabilitiesAreTheFiles`, `AnswerIsWhatFits`; `StartedSessionIsReady`, `QueueMatchesConfig`, `LegacyPortAgrees`, `LegacyConfigIsValid`; `HidlConfigOfSession`, `LegacyStartedOnlyInSession`, `HidlImplementsContract` |
| BroadcastAnswer | the LE part of Negotiation | **violated**: `BroadcastIsAnswered` |
| ListedRates | the LE part of Negotiation | **violated**: `ListedRatesAreMatched` |
| Fingerprint | Anakin: 2 presses and releases; Oppo: 3 statuses, 2 errors, lists of 0 to 2 fingers; fairness | `CommandFitsFinger`, `HbmWhileSampling`, `StableInsideAPress`, `HbmGoesOff`, `NotifyReturns`; `CancelIsAnswered`, `EnumerateIsAnswered` |
| PressGetsStable | Anakin, fairness of the light threads too | **violated**: `PressGetsStable` |

### Bounds

* `ObserversCookieSize` is 2 with three outputs (16 in the code), so that the table fills, an
  output is refused, and a freed cookie is granted again. The proofs hold for every size.
* `MaxLinks` bounds the startSession calls of one process. It is 1 everywhere: in Provider the second
  process starts the session again while the notice of the first is on its way; the stream runs have
  one process, so one session per behaviour, which may end under the streams at any time. Restarts
  under running streams are left to the proofs, which hold for every number.
* Two binder threads are enough for a report to enter while another walks or ends the session.
  StreamA2dp has two, symmetric, with the calls that matter to a port over a session that ends
  (StreamPair has the resume, StreamReturns A2dpSuspended=true). The other stream runs have one, which is a stack that makes one
  call at a time.
* `MaxAsked` 1: a start and a suspend may be unanswered together, so answers come late and
  crossed.
* The queue of 6 bytes against writes of 4 and 8 gives partial, full and late writes; `Polls` 2 and
  `ReadPolls` 1 stand for the 1000 sleeps of the code; `MaxWrites` and `MaxReads` only end the
  counting of frames. `TimeoutValues` 8 stands for the 65536 values of the countdown: a count that
  steps over 0 wraps around.
* Core streams have versions 5 and 7 for the two branches of `#if MAJOR_VERSION`, and a queue of two
  bytes for whole, partial and empty transfers; `MaxRead` 3 gives the read that asks for more than the
  queue holds and is cut.
* `ExtremeBitrates`, 1 and 2^24 - 1, are what the legacy tables have to take of a bit rate: they
  compare it with both ends of its range and with nothing between.
* The remote lists have every mix of sampling frequencies and channel modes for SBC, extreme
  bitpools, and AAC entries that are malformed, incompatible or variable in rate; hints include
  rates nobody has, empty and inverted ranges. A negotiation keeps nothing, so a behaviour asks once.
* The audio configurations have, of every tag and codec, one that is valid and, where there are
  checks, ones that fail each of them; the rates 8000, 11025 and 44100 and the intervals 0 and 7.5 ms
  are there for the integer divisions of the queue sizes.
* `MaxSequence` 2 counts a press, its release and what is late for the next sequence number, or two
  presses where no release was heard of between; the violations need no more. A press after a
  release needs 3, and is left to the proofs, which hold for every number.
* An LE settings file can be read or not, and stays so. A read that fails is not repeated by the code
  (`isInvalidFileContent` stays set); a second read that fails after a first that worked is left out.
* StreamPair, DataPaths and Negotiation stop where everything is closed, freed or bounded, so they
  do not look for deadlocks; the other runs do.
* The two streams of StreamPair and the two binder threads of StreamA2dp are symmetric; no run that checks liveness uses symmetry.

### Fairness

* *Callbacks return* (weak fairness of `WalkOn`, `PortCallback`): the callbacks of the ports
  lock `cv_mutex_` for a few assignments and return.
* *A thread inside a call runs and gets its mutex* (strong fairness of each thread's steps, of
  `ReaderGoesOn` and `StandbyGoesOn`): a mutex that is released again and again is got at last.
  Nothing makes a thread enter a call.
* *A call into a dead process ends* (weak fairness of `DeadCallFails`, `DeadCallReturns`): the binder
  driver fails it.
* *A death notice is delivered* (strong fairness of `BinderDied`): the binder driver keeps it
  until a pool thread is free.
* *The write loop runs* (weak fairness of `WriteGoesOn`).
* *The worker thread, the destructor and a woken framework run* (weak fairness of `ThreadRuns`,
  `ObjectNext`, `TakeStatus`): calls into the vendor's stream return. Nothing makes the framework
  send a command, let go or stay alive, and nothing makes a wait come back without its bit:
  with that, a close that wakes nobody would go unnoticed.
* *The fingerprint threads run* (`FpFairness`: the rest of a handler, the command thread, notify;
  `LightFairness`, for PressGetsStable: the spot thread, the display, the timed
  threads). Presses are bounded, so weak fairness gets a thread the mutex. Nothing makes a finger press
  or lift.

No fairness is assumed of the stack: it need not answer, read the queue, or end a session. The waits
of this code have timeouts, but its calls into other processes and libraries have none. What each liveness property
assumes of them, in its premise or in how the call is modelled:

| External call | Taken by |
|---|---|
| startStream, suspendStream and stopStream of the stack, under the session's recursive mutex | `EveryStreamCallReturns` has the premise `StackAlwaysReturns`: a stack that lives returns. A stack that dies inside is in the run, and for `DeadStackIsForgotten`, which is about dead ones, it is all that is needed |
| the same calls by an input stream, in BluetoothStreamIn | `InReturns`: the call is one step, so its return is assumed; so is getting the session's mutex |
| the session's mutex in the polls of a write | `WriteReturns`: got at every poll |
| sendCommand of the Goodix daemon, under `mCommandMutex` | `HbmGoesOff`, `NotifyReturns`, `PressGetsStable` have the premise `DaemonReturns` |
| calls of the vendor's core stream | `CommandIsAnswered`, `StreamIsFreed`: within `ThreadRuns`, `ObjectNext` |
| calls of the stack by the HIDL session | one step; no liveness property is checked there |

### What the violated runs show

* **SessionEndReport.** The header says that `OnSessionEnded` notifies the registered outputs. The
  code does so only if the session was ready. When a standing session is restarted and the new
  queue cannot be mapped, the queue and the configuration are cleared, nothing is reported, and
  the end that follows is silent: the outputs go on believing in the session. (The HIDL library has
  the same flaw; `LegacyStartedOnlyInSession` excepts it, and the answer reported over no session.)
* **StreamStartReport.** The header gives `start_resp` the meaning "this report is for
  startStream or not". The port ignores it, so a suspend report that meets a STARTING port starts
  it. The answer to the start then finds the port STARTED and stops it, although the comment in
  `ControlResultHandler` says that only a suspend can be reported in that state.
* **BroadcastAnswer.** `GetLeAudioOffloadCodecInfo` parses the codec table into a local variable that
  shadows the table it looks in afterwards. No codec information is ever found, so no broadcast
  setting exists and no query is answered, whatever the file says. Were one found, the answer would
  be written through `_aidl_return`, which the function has set to null.
* **ListedRates.** `freq_to_support_bitmask_map` has no entry for 44100 Hz, which the settings file
  lists, its parser reads and a headset can report. A setting of that rate matches no headset that
  names its rates, and is never answered. `AnswerIsWhatFits` exempts this rate (`UnmappedFreqs`) and
  shows that nothing else that fits is lost.
* **PressGetsStable.** `mLightAreaStable` is exchanged before the command it stands for is checked.
  The timed thread of a press that has passed its own check may exchange it after the next press has
  cleared it; its command is of a past sequence and refused, the flag stays set, and the timed thread
  and the spot thread of the new press find it set and queue nothing: the daemon never gets its
  200002 although the finger stays down. The spot thread, which numbers its command after the
  exchange, can do the same to a press. Neither needs fast fingers: with three sequence numbers the
  same happens when every press is released before the next.

### Seen on the way

Read in the code while modelling it, and in the model as the code has them; no property says
otherwise, because no document does or because the effect is outside the model:

* The upper bitpool a headset reports is combined with the local one by `std::max`
  (`A2dpOffloadCodecSbc.cpp`), so it never limits anything.
* With a hint that names no codec of the ranking, `A2dpOffloadCodecFactory.cpp:73` dereferences the end
  iterator and leaves out the codec that equals what it reads there (`asked.skipped`, any codec or
  none): a codec that can be may be passed over, and nothing be negotiated. `BestCodecChosen`
  exempts that codec.
* The command thread logs a `sendCommand` that failed and goes on: after a finger-up the daemon did not
  get, high brightness goes off all the same, although the comment (`BiometricsFingerprint.cpp:320`)
  keeps it "until Goodix has received the corresponding finger-up command".
* `requestHbm` tells nobody that the property could not be set, and nothing tries again: the daemon
  samples in the dark, or the display stays bright after the finger has gone.
* `kEnableA2dpCodecExtensibility` is false (`BluetoothAudioProvider.h:52`): the A2DP negotiation is
  compiled in but refused. `extensible` covers both.
* The LE data queue holds less than its "two frame buffer" where the interval is 7.5 ms.
* `frames_presented_` counts a write of which a part was taken as a whole, against "total frames
  written" (`stream_apis.h:71`), and is reset although "never reset".
* `in_standby` gives up after its countdown and reports success: the suspend request is lost, which
  its comment says must not happen.
* `to_hidl_leaudio_config_2_1` aborts when the codec is LC3, derives the frame duration from the
  sampling frequency, and the 2.0 conversions drop the data interval; `to_hidl_status` makes a
  reconfiguration a failure. 24-bit samples are told as packed by the HIDL port only; 8000 and
  32000 Hz and a zero interval are valid in the AIDL tables only. `LegacyPortAgrees` and
  `LegacyConfigIsValid` name these differences and show that there are no others.
* The count of open streams in `Device.cpp` is a plain integer changed by any binder thread; the
  middleware registers with the AIDL session before it enters the observer in its own map
  (`HidlToAidlMiddleware.cpp:498`); the Goodix daemon's proxy is fetched once; the Oppo HAL calls a
  client that may be null and forgets the known fingers when it restarts.

## 4. The proofs

Checked by TLAPS for every value of the constants, under the named assumptions of the modules:
`SessionAssumption` (the session type is one of the fourteen, the null values are none of the
real ones, the number of cookies is a natural number), `ProviderAssumption`, `PcmAssumption`,
`InAssumption`, `HidlAssumption`, `FingerprintAssumption`; for core streams
`VersionsAssumption`, `QueueAssumption` (the queue has room for a byte) and `EmptyAssumption` (an
empty queue is none of the messages); and for the negotiation that a headset offers codecs the
factory knows, bits the air has and bitpools of a byte (`RemoteListsAreOnTheAir`), that bit rates
are integers (`HintsAreNumbers`), and that the null values are none of the real ones.

**BluetoothAudioSessionProofs.** `SessionInv` is inductive: the type invariant, `CookiesMatch`,
`WalkVisitsRegistered`, `ReadyOnlyIfAnnounced`, `ConfigFitsSession` and `OffloadSessionWhole`
together. None of them stands alone. `WalkVisitsRegistered` needs `CookiesMatch` (removing one
output must not remove another's entry). `ReadyOnlyIfAnnounced` needs the last two: a
configuration that changes at any time can make an offload session ready unless an interface
without a configuration is impossible, and a software session refuses the change. There is a
lemma per method and the theorems `SessionTypeCorrect`, `SessionCookiesMatch`,
`SessionWalksRegistered` and `SessionReadyIsAnnounced`.
`SessionImplementsContract` maps the initial states and each method to a step of
`SessionContract` or to a stutter, with `SessionInv` at hand: the walk of cookies is a walk of
outputs only because no two cookies belong to one output.

**BluetoothAudioProviderProofs.** `ProviderImplementsSession`: every step of the providers is a
step of `SessionSpec` or leaves the session alone, so all of the above holds under any number of
processes and threads (`ProviderOffloadWhole` among it). `ProviderTypeCorrect` and
`ProviderSessionCanBeEnded` rest on one more inductive invariant, which says for every binder
thread what its place in a call implies: a thread between `startSession` and `onSessionReady`
has an interface, one that has ended the session is the only session call of its process, and so
the interface is cleared only when the session no longer has it.

**CoreAudioStreamProofs.** `CoreInv` is the type invariant with three parts. `LifeInv` says what
the place of the destructor implies for the thread, the stop flag and the number of closes; `ProtocolInv` says
that a command is in exactly one place (queued, inside the vendor's stream, about to be answered,
answered) and what each queue holds then; `RoomInv`, that a read, cut where
it asks for more, fits the data queue, is needed for the types when the framework has died and
`ProtocolInv` says nothing. From it follow
`CoreTypeCorrect`, `CoreThreadInside`, `CoreClosedOnce` and `CoreAnswersFit`, for every queue
size and every set of versions. `CoreStreamImplementsContract` shows that every step is one of
`CoreStreamContract` or nothing the framework sees; the contract has nobody inside when the vendor's
stream is closed up to version 5 only, since `close` of a later version closes it under the thread. `ProtocolInv` gives the values of the mapping in each
place of the command (`WhatIsSeen`); that only a transfer is about bytes needs an invariant of its
own, `AskedInv`.

**BluetoothDataPathProofs.** For writes, the type invariant carries the bytes that are left, and
`PcmShortOnlyAfterTimeout` needs with it that the polls are used up, or the session lost, wherever the
loop has been left early. For reads the same, with the capture position: `InCapturePositionWasRead`
holds although the stack reports any number, because every report is cut to what was read.

**HidlSessionProofs.** `HidlInv` says, next to the types and `HidlConfigOfSession`, that a port
inside `ControlResultHandler` is one the walk has still to call and is not being registered
(`HandlerIsCalled`), that an answer walks over a session or the history says that it does not
(`AnswersOverSession`), that a port which is not registered yet stands by (`NewPortsStandBy`), and that
once a session has gone only the outputs a walk has still to call may be STARTED (`StartedIsToldYet`).
`LegacyStartedOnlyInSession` is the last with no walk left. It has two exceptions, both histories the
code does not refuse: the end of a session whose queue a restart lost is told to nobody, and
`ReportControlStatus` passes an answer on although no session is ready, which a port that is STARTING
takes for its own. `HidlSessionImplementsContract` needs `HidlTableFits` besides, which says that a port is in the
table under its own cookie and under no other: a walk of cookies is then a walk of ports, and
`TearDown` removes the port that asks. Every step is one of `SessionContract` or a stutter.

**FingerprintProofs.** Anakin: `FpInv`: the mutex has the holder the places of the threads say; no
queued command is ahead of the press, and one of its own number is of its sort; a press has its
DOWN with the daemon, on its way or first in the queue (`DownIsFirst`); and a press that is on is
lit (`PressIsLit`). A press is lit unless the property refused to be set (`refused`), whatever the daemon
does with its commands. From it follow `FpCommandFitsFinger`, `FpHbmWhileSampling` and, as an action
property, `FpStableInsideAPress`.
Oppo: the client does not change while a call waits, so `OppoInv` can say that a flag that is set
tells what the client was told in the call it was cleared for; the answer made up for a silent
vendor, `OwnEnumeration`, is never empty and ends with nothing remaining, which takes the vendor's
errors and lists `OppoAssumption` names. From them follow the action properties `OppoCancelIsAnswered`
and `OppoEnumerateIsAnswered`.

**BluetoothStreamOutProofs.** Every step of the streams is a step of `ProviderSpec` or leaves provider
and session alone (`StreamImplementsProvider`), so what is proved of those holds under any number
of streams, the contract of the session included. `StreamInv` is inductive: a thread that is inside
a stream function has the mutex of its stream (`InsideHoldsMutex`), a port has the cookie it was
granted from the end of SetUp to TearDown and its stream is listed between (`PortFollowsLife`), the walk of
set_parameters holds the device mutex and has only listed streams before it
(`ParamsWalkOpened`), an answer that was read is the one being delivered (`HandlerFitsWalk`), and a
STARTED port in no announced session is one the walk has still to call (`StartedIsToldYet`). From it
follow `StreamOneUserOfThePort`, `StreamParametersReachLiveStreams`, `StreamCallbacksFindTheirPort`
and `StreamStartedOnlyInSession`. The last does not hold with one clause less: the gates of
the providers take no lock, so a result may enter before `endSession` and be reported after it, and
a port that A2dpSuspended=false has put to STANDBY and a resume to STARTING is then STARTED with no
session. `late` is history that names this gap: an answer was reported since the announced session
was over. The invariant fails without it, on two binder threads.
`StreamLocksAreOrdered` is the part of `EveryStreamCallReturns` that needs no fairness. It rests on
the converse of `InsideHoldsMutex`, `HeldFromInside`: a stream mutex that is held is held by a
thread at a place inside, so every way out of a stream function and of the walk, the failing ones
too, has given it back. Then a thread that opens a stream waits at most for set_parameters, which
waits for at most one stream, whose thread waits for neither mutex: no ring of threads, for any
number of streams. (The session mutex is not in the chain: the callbacks that run under it take no
mutex of a stream.) No run lists `LocksAreOrdered`: in StreamReturns a mutex that leaks already
breaks the liveness it is for.

**NegotiationProofs.** Four parts that share no state.
*Providers*: `ProvidersInv` says which queue each kind of provider has while it is open, that an
offload session has none, and that a session holds a configuration its provider lets through.
`ProvidersStartedSessionIsReady` compares, type by type, the checks of `startSession` with those of
`UpdateAudioConfig` and with the reported capabilities; `ProvidersQueueMatchesConfig` says that no
queue of an earlier or a failed start is left.
*Legacy clients*: `ProvidersLegacyPortAgrees` and `ProvidersLegacyConfigIsValid` go through the
conversions codec by codec against the HIDL tables.
*LE settings*: `CodecsCapabilitiesAreTheFiles`, for any file, one that cannot be read too, and any
order of queries, and `LeAudioUsesTheCodecs`, which carries it to the LE audio provider. For
`LeAudioAnswerIsWhatFits`, `LeInv` says that the settings are those of the files or none, that the
entries of an answer come from them, and that none has a disabled codec. The lemmas are about the filters:
`CapabilitiesCover` and `RequirementsWant` compare the code's matching with the property's own words,
tag by tag; `FiltersLeave` says what is left of a list; `AnswerIsListed` and `FirstOfPlaces`, that the
entry an answer has come from is among those the QoS is looked for in, and that these have a first one.
The assumptions are `QosIsNamed` (without it the code dereferences null), `ContentAssumption` (the
files hold lists, and numbers where the schema has numbers) and `AsksAssumption` (the bounds of a
capability are numbers). 44100 Hz is exempted by name (`UnmappedFreqs`).
*A2DP*: `AnswerOfTheAsk`, the invariant, only says that an answer is computed from what was
asked; the work is in the lemmas about the operators. `BestIsAnswered`: the order of the
tries, the first remote entry of a codec and the selection of bits find the best codec of those the
code tries (`NegotiationBestCodecChosen`: all of them but `asked.skipped`). `SearchEnds`: each of the eight trials halves the bitpools left, with
the rate of the lower end below and that of the upper end not below the one searched for;
`RateGrows`, for every combination of fields, carries this through the clamp
(`NegotiationKeepsTheHintedRate`). `BuiltIsParsed`: what is built passes each check of the parser
(`NegotiatedConfigurationIsAccepted`).

**Only model-checked**: liveness (`DeadStackIsForgotten`, `CommandIsAnswered`,
`StreamIsFreed`, `EveryStreamCallReturns`, `WriteReturns`, `InReturns`, `HbmGoesOff`,
`NotifyReturns`), which is out of the prover's reach. Of `EveryStreamCallReturns`, the order of the
mutexes is proved (`StreamLocksAreOrdered`).

## 5. Not modelled, and why

* Metadata, latency queries and presentation positions of the output streams: they read state or
  pass data through (`GetPresentationPosition` of the session always returns false).
* The map of session instances and the cached answer of `IsAidlAvailable`: created once.
* Vendor specific codec data, wording of logs, the syntax of XML and JSON.
* The middleware's registration maps: where AIDL is available, the streams of this repository use
  AIDL ports (`stream_apis.cc:743` and `1256`), so their clients are outside it.
* `LeAudioSuspended`: `out_set_parameters` only logs it.
* The calls of core streams that go straight to the vendor's stream (pause, drain, volume, MMAP),
  their callbacks, and what the vendor's stream does with a call while it is closed. The devices and
  factories of the core HAL: they convert arguments and forward.
* Calls the fingerprint HALs forward to the vendor, the display's property handler.
* Framework calls on one stream from several playback threads: the framework makes them from one.

## 6. Where it could go on

1. *Core audio HAL*: the device with several streams and its count, and the callbacks.
2. *Middleware registration*: its two maps over the AIDL session's table, once there is a client.
