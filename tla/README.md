# Verification of waycast

Waycast casts a Linux desktop to a Wi-Fi Display (Miracast) sink. This directory
keeps TLA+ models of its concurrent parts, the TLC instances that check them, and
TLAPS proofs of what matters most. Line numbers refer to `src/`; the exact
correspondence of every definition is the `map` in `PROJECT.json`.

    tlc -config NetHelper_safety.cfg MC_NetHelper.tla     # and the other .cfg files
    tlapm NetHelper_proofs.tla                            # each under two minutes
    tlapm RtspControl_proofs.tla
    tlapm DaemonSession_proofs.tla
    tlapm P2pManager_proofs.tla
    tlapm AudioSink_proofs.tla
    tlapm VirtualOutput_proofs.tla
    tlapm ModeChoice_proofs.tla
    tlapm MediaStream_proofs.tla

The configuration `X_y.cfg` belongs to the module `MC_X`. Sections: 1 the system, 2 the
models, 3 the runs, 4 the proofs, 5 where code and documentation disagree without a
run that shows it, 6 what is not modelled.

## 1. The system

A cast is made by two processes. `waycast` (the daemon, an unprivileged user
process) discovers a sink, has a Wi-Fi Direct group formed, negotiates over RTSP,
captures the screen and streams it. `waycast-networkd` (the helper, a root D-Bus
service) forms the group through NetworkManager and permits, in the UFW chain
`waycast-input`, exactly the flows the session needs. The TV is the third party.

| component | state it keeps | operations | correct when | model |
|---|---|---|---|---|
| helper service, `networkd/src/service.rs`, `main.rs` | one `Option<Session>` behind an async mutex | BeginSession, AuthorizeMedia, EndSession, SessionAlive, supervise, startup cleanup | nothing is permitted or activated without a session that will end it; only its owner or the supervisor ends a session; a lost caller is cleaned up after | `NetHelper`, `NetLease` |
| firewall allowances, `networkd/src/firewall.rs` | none of its own: the kernel chain, the interface's device group | validate, claim, apply, intact, cleanup | rules match only the interface they were written for; kernel and recorded rules agree or the session ends | `NetHelper`, `NetLease` |
| helper client, `networkd/src/lib.rs` | a system-bus connection per session | begin, authorize_media, end, alive | a slow helper is neither forgotten nor taken for dead | `NetHelper` (its calls), `DaemonSession` (its timeouts); partly |
| P2P manager, `net/src/lib.rs` | D-Bus proxies, a dedicated bus the activation is bound to | discover_sinks, connect_prepared, is_active, close | a group is left to nobody; RTSP is told an address that exists | `P2pManager` |
| RTSP control session, `rtsp/src/lib.rs`, `daemon/src/lib.rs` | TCP stream, CSeq, reserved sockets, the sink's ports | M1-M5, SETUP/PLAY/TEARDOWN of the TV, keepalive | never hangs, never gets out of step, ends when and only when the session is over, media goes where it was negotiated | `RtspControl`; partly |
| daemon session, `daemon/src/lib.rs` | DaemonState, connection, pipeline, virtual output, audio sink, the session_end channel | run, discover, connect, negotiate, start/stop stream, disconnect, teardown | every resource unwound once, events in lifecycle order, a session that ended is reported once and a live one is not ended | `DaemonSession`; partly |
| WFD capabilities, `rtsp/src/lib.rs` | pure | parse formats, select_video_mode, build M4 | the promised mode is one that both sides can do | `ModeChoice` |
| screen capture, `capture/src/lib.rs` | a D-Bus connection, the portal's cast, a PipeWire descriptor | new, start (three portal requests), drop | the portal's answer is heard whenever it comes; the cast lasts as long as the pipeline it feeds | `MediaStream`; partly |
| media pipeline, `stream/src/lib.rs` | the GStreamer pipeline and the state it believes it is in | build, set_output, set_transport, start, drop | streams the mode that was promised; nothing plays once its session is over | `MediaStream`, `VideoModes`; partly |
| virtual audio sink, `audio/src/lib.rs` | a PulseAudio module, the default sink, a breadcrumb file | create, cleanup, cleanup_stale | no sink outlives its session and the next start; a live one is left alone | `AudioSink` |
| virtual output, `external/src/lib.rs` | compositor output, portal configuration, marker, breadcrumb | create under a guard, arm, cleanup, cleanup_stale | the same, and the user's configuration comes back | `VirtualOutput` |
| passive RtspServer, HDCP, doctor, CLI, installer | see `PROJECT.json` | | mostly thin wrappers, dead code or one-shot tools | none (section 6) |

How they interact: the daemon calls the helper over D-Bus (its bus name *is* the
lease), polls SessionAlive once a second, and passes sockets to AuthorizeMedia
during the TV's SETUP. The RTSP keepalive task and the health task report the end
of a session through `session_end`; the daemon's `run` waits for that or a signal
and tears everything down. Crashes are recovered by systemd on the helper's side and
by breadcrumb files on the daemon's side.

What is hard: the helper's awaits (any step can be interrupted by a departing
caller, a UFW reload, a replaced interface, a timeout that kills a command
half-way, a crash), a TCP connection on which both peers have requests open, tasks
that outlive the session they serve, and cleanup that itself may fail.

## 2. What is modelled

### `NetHelper` (with `NetLease`): the helper and the firewall

Service state is `session` (the `Option<Session>`), `pc` and `work` (where the
holder of the mutex is and the `Session` value it works on). Because every method
and the supervisor hold the one mutex across their awaits, a single program
counter is enough; everything between two awaits that touch shared state is one
action. Kernel state is `chain` (the contents of `waycast-input`, plus whom they
are for, as history), `hook`, `iface` (the interface with the group's name, its index and
whether it carries our device group). `activation` is NetworkManager's connection:
bound to a bus of ours, orphaned (its bus is gone but NetworkManager has not yet noticed) or none.

| code | actions |
|---|---|
| begin_session | BeginRefused, BeginAdmitted, BeginHook, BeginPreclear, BeginActivate, BeginGroupStarted, BeginTag, BeginCheck, BeginRestore, BeginAddress, BeginNarrow, BeginCommit, BeginUndo, SetupAborted, BeginAbort |
| authorize_media | MediaRefused, MediaAccepted, MediaCommit |
| end_session, close_session | EndTaken, EndIgnored, CloseClear, CloseDeactivate |
| supervise | SweepTick, SweepOwner, SweepActive, SweepIntact |
| systemd and main | Crash, StopPost, Restart, Startup |
| callers, UFW, kernel, NetworkManager | Send, Depart, UfwChange, LinkLost, IfaceReplaced, NmReleases |

A command (`iptables-restore`, `ip link`) is its effect and its reported outcome,
which may disagree: it can commit and time out, or be killed before or after its
effect. A rule line is a tuple; that the interface appears in it by name only is
kept, since `NoInheritance` is about exactly that.

`NetLease` is the promise in a page: allowances exist only under a lease, a
lease passes on only through "nobody, nothing permitted", and while it lasts the
width of what is permitted only shrinks, or restarts from nothing. `ImplementsLease`
is the refinement, with the caller the chain is for (else the session's, else the
holder's) as `lease` and the narrowest constraint in the chain as `width`.

### `RtspControl`: the control connection

The source side is `phase` (dial, listen, the five exchange steps, wait_play,
starting, streaming, over, stopped), `awaiting` (inside `read_response`), `handling`
(a SETUP waiting for the helper's authorization), `media`, `dest`, `allowed` and
`stream`. The two directions of the connection are sequences of messages; a message is
its kind, method, CSeq and the ports of a SETUP. The TV is external: it keeps one
request open at a time, finishes its own request before ours or refuses to serve us
meanwhile (`tvBlocks`), may repeat SETUP, tear down without closing, close at any
moment, and, where `TvMay` allows it, ask for PAUSE, write blanks in headers or stall in
the middle of a message.

| code | actions |
|---|---|
| negotiate_as_client, accept_reverse | Dial, AcceptReverse |
| exchange_rtsp_capabilities, send_request, read_response | SendRequest, ReadAnswer |
| build_peer_request_response | AnswerPeer, RefusePeer, PeerSetup, SetupGranted, SetupRefused, PeerPlay, PeerTeardown |
| wait_for_peer_play | PlayTimeout, SkipAnswer |
| start_negotiated_stream | StartStream |
| run_keepalive | SendKeepalive, SendKeepaliveTearing, ReadRest, SkipAnswer, Eof |
| run (a signal) | Stop |

CSeq values are reused cyclically (`MaxSeq`): at most two requests are ever open
in one direction, so three values keep them apart.

### `DaemonSession`: the life of a cast

`at` is where `Daemon::run` is (an await or a synchronous stretch of `run_inner`, the
hold, the steps of `teardown`), `state` the `DaemonState`, `signal` the pinned
shutdown future, which must not be polled once completed, `owned` the resources recorded on
`self` with the run that made each, `told` the events of the run and `ends` the
`session_end` channel. The health task and the keepalive task of a run are never
joined, so there is one of each per run and they live into the next. `run` numbers the
runs: a `Daemon` may be run again, which `teardown` provides for.

| code | actions |
|---|---|
| run | StartRun, Signal, CancelStartup, HoldSignal, HoldEnd, HoldPanics |
| run_inner, connect, negotiate | Discover, DiscoverFails, BeginReturns, BeginFails, CreateOutput, CreateAudio, CreateFails, Negotiated, NegotiateFails |
| start_negotiated_stream | CaptureStarted, StreamStarted |
| teardown | StopStream, Disconnect, Unwind |
| health task, NetworkSession::alive | HealthPoll, HealthGood, HealthBad |
| keepalive task | KeepaliveEnds |
| the helper, as the daemon sees it | HelperBegins, HelperEnds, HelperNotices |
| the TV | TvLeaves |

A signal cancels startup at an await only: from `output` to `negotiate` the code does
not await. `BusOpen` is the bus connection whose name is the helper's lease: it lives
as long as the session, the call that begins it, or a poll that has upgraded its weak
reference. BeginSession may be granted after its caller gave up, EndSession may
fail, and with `HelperMayStall` a poll may find the helper busy for longer than its three
seconds.

EventsInOrder compares what was `told` with the order of a cast, with the stages that
the code may leave out (no output, no audio) left out.

### `P2pManager`: finding a sink and forming a group

`pc` is the await that the program is in, in three stretches: `discover_sinks`, the
choice of a sink (`resolve_sink`, in the helper or the daemon), and `connect_prepared`.
`strict` tells the helper's use of the manager (a preparation is given, and the
group's interface must be known before it) from the direct one. NetworkManager's peers,
wpa_supplicant's objects and groups, addresses and the journal are the environment, which
acts between any two awaits: peers appear and vanish, our group or another
program's forms and ends, addresses come.

| code | actions |
|---|---|
| discover_sinks | StartFind, Subscribe, PeerSignal, Poll, ReadPolled, PollEnds, Timeout, Collect, StopFind, SearchFails |
| discover (daemon), resolve_sink | NoneChosen, Resolve |
| connect_prepared | Watch, Activate, TakeEvent, ParseEvent, ParseFails, EventTimeout, ReadJournal, Prepare, Reapply, Expect, FormingFails |
| find_p2p_interface_address and its fallbacks | WaitAddress, NoAddress, Lookup |
| dropping the manager's bus | Release |
| environment | PeerAppears, PeerVanishes, GroupForms, OtherForms, Addressed, GroupEnds, JournalAges |

A peer is read in one step, with three outcomes: the error that ends the search, a swallowed
failure (of the WFD elements or the name, after which it is taken for no sink or for
another), or what it is. A group's signal is taken (`TakeEvent`) and then read across
awaits (`ParseEvent`, `ParseFails`); the 45 s may be over at any moment of either.
Left out: finding the Wi-Fi device. An address is of the network of one interface, from one of four
sources (`Hosts`); that is all that the choice of an address can get wrong. Groups of other
programs form on another radio, whose object `WpaDevice` never returns: of one on our own radio
the code would take the signal for ours (section 5), and ConnectsOwnGroup says nothing. `steady`
(the peers listed without a break, whose last read did not fail) and `unread` (a signal of a group that
is up was dropped as unreadable) are history.

### `AudioSink`: the virtual sink of several processes

Any number of waycast processes, one sound server, one breadcrumb file. Each `pactl` call
and each access to the file is a step, and a process may be killed between any two, during
recovery too. `job` is the sink a process is to undo, its own or the one it found in the
breadcrumb; both go through the same steps, and `Done` says where they lead.

| code | actions |
|---|---|
| cleanup_stale, read_breadcrumb | Start, then the steps of cleanup |
| create | ReadDefault, LoadModule, WriteCrumb, SetAsDefault, SetAsDefaultFails, NoSink |
| cleanup, drop | EndSession, Restore, Unload, UnloadFails, Forget, NoPactl |
| environment | Crash, OtherLoads, Restart, UserChooses |

A module is its index and its owner. A restart of the machine counts indices from the
beginning and keeps the breadcrumb. When the default sink goes, the sound server picks any
of the user's. Names of sinks contain the process id and do not repeat; reuse of process ids is left out.

### `VirtualOutput`: the virtual output of several processes

The same for the headless output, with its two backends (`backend`, chosen once). The
portal's configuration is what the user wrote (`user`) and the number of managed blocks in it;
an empty file counts as none. `mode` is why a process undoes things (its session ended, Drop
tries again, a guard unwinds, a stale breadcrumb), which decides what follows a step.

| code | actions |
|---|---|
| cleanup_stale | Start, RemoveOutput, Forget, Strip, Unmark |
| hyprland::create_virtual_output and its guard | Look, CreateOutput, CreateFails, FindName, Note, SetMode, CreationFails |
| create_hyprland (configuration, wrapper script) | Snapshot, WriteConf |
| create_sway, sway::* | SwayOutput, SwaySnapshot, SwayConf, SwayFails, SwayDisable, SwayGone, SwayRestore |
| arm_portal_target, the wrapper script | Arm, Request, OtherRequest |
| cleanup, drop | EndSession, Unmark, RemoveOutput, RemoveFails, Forget, Strip, StripFails |
| environment | Crash, OtherOutput, UserEdits, NoOutput |

A read-modify-write without a call of another program in between (strip_managed_block
and its write) is one step; reading the configuration before the block is written, with calls
between, is two. A write that fails leaves the file as it was. The restart of the portal that
follows each write is part of the write. The pickers the file names are the user's and, in each
block, our own script (`Named`); original_picker_binary takes one that is not ours, or the stock one. Repainting (force_repaint) changes nothing
modelled. `disturbed` records, as history, what one session alone would not meet
(another session, a newcomer among the outputs, an edit, an edit between a reading and a writing), so that
each property can say which of it the code does not claim to survive.

### `ModeChoice`, `VideoModes`, `MediaStream`: from M3 to the picture

`ModeChoice` is `select_video_mode` as operators over what sinks send: an entry is three sets of
bits or Malformed. The tables of modes and levels are the code's. The M4 string is its one codec
entry; the fields passed through unread are left out, and so is everything that the virtual output
does to the geometry but the 1920x1080 it starts with.

`VideoModes` is the promise in a page, for any selection (`Select` is a constant operator): what M4
names and what the daemon remembers are one choice, the stream is built with its geometry, and
nothing of it is left to the next session, since the selection is a field of the Daemon that outlives
one.

`MediaStream` is the session that keeps the promise: `at` is the await or the step that the daemon
is at, from M3 to teardown. The capture makes three requests of the desktop portal (create, select,
start); each is subscribed to, made, and answered by the user at once, late or never. `cast` is the
portal's session while `start_negotiated_stream` holds the Capture in a local, `kept` the one of
`Daemon.capture`. The pipeline has the state it believes to be in (`state`) and the one GStreamer is in
(`gst`); `strays` is history: the states in which GStreamer was left with pipelines that were dropped.
The portal is external, modelled from how `capture` uses it.

| code | definitions |
|---|---|
| CEA_MODES, H264_LEVELS | CeaTable, CeaModes, Levels |
| parse_sink_video_formats | Readable; Candidates skips what is Malformed |
| lowest_sufficient_level, select_video_mode | LowestSufficientLevel, Candidates, Best, SelectVideoMode |
| build_video_formats, exchange_rtsp_capabilities | OwnFormats, Exchange |
| Capture::new, start, await_response | NewCapture, Ask (Subscribe, Call), Granted, Refused, TimesOut, OpenRemote |
| start_negotiated_stream, get_negotiated_codec | Play, Negotiated, NegotiatedCodecs, Build, Configure, Start, Publish |
| StreamPipelineInner::start, drop | Start, StartFails, LeftBy |
| teardown, run again | Teardown in FailsBefore, Fails, Stop; NextSession |
| a signal during the start (the daemon panics, `DaemonSession`) | Panic |
| portal and user | PortalAnswers, UserStops |

`ImplementsModes` is the refinement: of `at` only asked, promised and ended count, a session is
streaming when its pipeline plays (from `Start`, two steps before the daemon says so), and the
stream is what that pipeline was built with.

### How the models fit together

What ties them together is stated on both sides: `HelperNotices` of `DaemonSession` is
`LostOwnerReleased` of `NetHelper`, `HelperEnds` its supervisor; `KeepaliveEnds` is
`over` of `RtspControl`; `CreateOutput` and `CreateAudio` and their unwinding are a life of one process of
`VirtualOutput` and `AudioSink`; `Prepare` of `P2pManager` is BeginTag to BeginNarrow of
`NetHelper`; `StartStream` of `RtspControl` is `NewCapture` to
`Publish` of `MediaStream`; CancelStartup and HoldPanics of `DaemonSession` are its FailsBefore and Panic.
`NetLease` is the helper as its callers may rely on it. No module composes them all: the
product has too many states to check, and the parts share only these events.

## 3. What the runs check

| run | result | shows |
|---|---|---|
| `safety` | pass | ChainOwned, NoInheritance, RecordedPortPinned, ActivationHeld, OnlyOwnerOrSupervisor (an authorization begins only with its owner's call, and only the owner or the supervisor ends a session), ImplementsLease: the helper, with callers racing and faults anywhere |
| `live` | pass | LostOwnerReleased, DriftEnds, CrashLeavesNothing: the helper cleans up after lost callers, lost rules and itself |
| `reload` | violated | ReloadNeverReopens: a media authorization between a UFW reload and the next supervisor tick re-creates permissions |
| `rtsp_safety` | pass | AdvertisedIsAuthorized, StreamMatchesSetup, AnswersMatch |
| `rtsp_live` | pass | ExchangeEnds, PeerIsAnswered, CloseIsNoticed |
| `rtsp_teardown` | violated | TeardownEnds: a TEARDOWN read while a keepalive answer is awaited does not end the session |
| `daemon` | pass | NothingLeft, EventsInOrder, LostSessionEnds, NetworkReleased |
| `daemon_signal` | violated | SignalEndsRun: a signal after PLAY and before the pipeline runs makes `run` poll a completed future, which panics |
| `p2p_session` | pass | SearchCompletes, ConnectsOwnGroup, OwnerHasExpectedAddress, GroupStartSeen (a group that forms while we wait has its signal queued, in hand or lost to a failed read) |
| `audio_recovery` | pass | Recorded, DefaultRestored, LiveSinkKept |
| `output_recovery` | pass | Recorded, ConfigRestored (who ends in its own way leaves the configuration restored, after kills too, and with Drop's second attempt; on Sway undisturbed sessions only), EditsKept, FallsThrough (never the script itself; the picker configured when the block is put in), LiveOutputKept, AnswerExists |
| `media` | pass | PromiseIsConsistent, PromiseIsBest, StreamKeepsPromise, AnswersAreHeard, CastOutlivesPipeline, NothingStrays, ImplementsModes: failures, refusals, late answers and signals anywhere, in one session and the next |

The type invariants are part of what is proved (section 4) and cost no run a property of its own.

Every violated run states a sentence of the repository's documentation or
comments, quoted in `PROJECT.json` under `findings`.

### Bounds

- Helper: two callers (a session, a rival and their races), two interface indices (an
  interface and its replacement), two calls on the wire (one, and one port, in `live`), two
  faults anywhere: a fault and a second one during its recovery is where error paths end up.
  All of the run's safety properties are also proved, without these bounds.
- RTSP: two ports (a SETUP repeated with another port; symmetric) and a TV without faults for
  safety; one port and a TV that pauses, writes blanks and stalls for liveness. CSeq is taken modulo three. The
  queues need no bound, because each side has at most one request open.
- Daemon: two runs, so that tasks of the first are alive in the second; output and audio
  both wanted; a helper that may answer late.
- P2P: two TVs and a phone, all initial states of the radio and of wpa_supplicant, our group and one
  other, which comes up only once we form ours, as nothing looks at it before (`MCInit`; the theorems
  are of `Spec`, where it may be up from the start).
- Audio and output: three processes. Two are a session and its recovery; the third finds what
  an interrupted recovery left. Three module indices for audio; for the output two
  names, two blocks, two processes at a time and one kind of operation that fails, which keeps it under a minute or
  two. The safety theorems of section 4 have none of these bounds.
- Media: one entry with any set of levels and of the five modes around which size, rate, interlacing and
  level change the outcome; lists of two and three entries in any order with unreadable ones; four
  configured geometries, one of them beyond what a capture accepts; a codec forced or not; a mirrored or an
  extended desktop. Any number of sessions: a session leaves nothing behind but `kept` and `strays`.

Deadlock is not checked: a helper with no callers left, a
stopped source, a TV that has said goodbye, a daemon that is not run again, a connection made or
failed, a daemon that panicked, and processes that are all gone do stop.

### Fairness

Helper: every await of the mutex holder ends, by the timeouts in the code
(commands 8 s, setup 60 s, deactivation 5 s, D-Bus queries 2 s), so its steps are
weakly fair; the supervisor ticks every 500 ms and may find the mutex taken, so it is
strongly fair; systemd restarts the unit (`Restart=on-failure`). The one await
without a timeout has its own condition, `NmAnswers` (section 5).

Source: each step it can take by itself, and reading, is weakly fair; its
authorization and PLAY waits have timeouts. TV: it reads our answers and, until
it has torn down, answers requests when it keeps getting the chance (strong, since its
own open request may block it). No fairness is assumed of SETUP, PLAY, TEARDOWN or
closing, nor of any fault. `PeerIsAnswered` excuses behaviours in which a keepalive cut a
message in two (section 5).

Daemon: what follows a signal or a message is weakly fair, as every await of teardown is
bounded; the tasks and the helper's handling of a call are weakly fair and its noticing of a
departed caller strongly fair (`live` shows it); startup is not fair, since a TV or the
portal dialogue may take for ever, and no signal need ever come.

The other modules claim nothing that must eventually happen: a search ends by its timeout, and a
breadcrumb is only acted on if the user starts another session.

## 4. What is proved

For any sets of processes, peers and ports and any bounds. The assumptions are the named
assumptions on the constants in each module and nothing else: `None` is none of the
values, the group's owner is a peer, a bound is a natural number, an offer is a sequence of entries,
a forced codec is one of the five.

| module | theorem | statement |
|---|---|---|
| `NetHelper_proofs` | Invariance | Spec => []IInv |
| | TypeCorrect, NothingForgotten, NothingInherited, NothingLeaked, PortsPinned | Spec => [] of TypeOK, ChainOwned, NoInheritance, ActivationHeld, RecordedPortPinned |
| | SessionsAreOwned | Spec => OnlyOwnerOrSupervisor |
| | HelperImplementsLease | Spec => ImplementsLease |
| `RtspControl_proofs` | TypeCorrect, PortsAreAuthorized | against any TV: Spec => [] of TypeOK, AdvertisedIsAuthorized |
| | AnswersFit | without stalls: Spec => AnswersMatch |
| | EndsForACause | without stalls, PAUSE and DESCRIBE: Spec => EndsOnlyWhenOver |
| | StreamFollowsSetup | without stalls and blanks: Spec => []StreamMatchesSetup |
| `DaemonSession_proofs` | Invariance, TypeCorrect, LeavesNothing, ToldInOrder | Spec => [] of IInv, TypeOK, NothingLeft, EventsInOrder |
| `P2pManager_proofs` | Invariance, TypeCorrect, OwnGroupOnly, OwnerIsAddressed, NoSinkIsMissed, StartIsSeen | Spec => [] of IInv, TypeOK, ConnectsOwnGroup, OwnerHasExpectedAddress, SearchCompletes, GroupStartSeen |
| `AudioSink_proofs` | Invariance, TypeCorrect, LeftoversAreRecorded, TheDefaultComesBack | Spec => [] of IInv, TypeOK, Recorded, DefaultRestored |
| | SinksAreKept | Spec => LiveSinkKept |
| `VirtualOutput_proofs` | Invariance, TypeCorrect, EditsSurvive | Spec => [] of IInv, TypeOK, EditsKept |
| | OutputsAreKept, PickerIsTheUsers | Spec => LiveOutputKept, Spec => FallsThrough |
| | AloneInvariance, OutputsAreRecorded | Spec => [] of AloneInv, Recorded |
| | ConfigIsRestored, AnswersExist | Spec => ConfigRestored, Spec => AnswerExists |
| `ModeChoice_proofs` | BestExists, ChoiceMade | among the candidates of an offer there is one first that no other beats; what SelectVideoMode returns is named by a candidate entry, at a level that carries it |
| `MediaStream_proofs` | MediaInvariance | Spec => []IInv |
| | PromisesAreConsistent, PromisesAreBest, StreamsKeepPromises | Spec => [] of PromiseIsConsistent, PromiseIsBest, StreamKeepsPromise |
| | AnswersHeard, CastsOutlivePipelines, NothingIsLeft | Spec => [] of AnswersAreHeard, CastOutlivesPipeline, NothingStrays |
| | SessionsImplementModes | Spec => ImplementsModes |

Each proof has a lemma per group of actions that the step preserves the invariant, and
properties of steps follow from the invariant before the step. The inductive invariants are
in the modules themselves, so that TLC evaluates them too; what each adds:

**NetHelper.** ChainOwned alone is not inductive: whether a step may store or forget a session
depends on where the holder is. `IInv` adds who may hold what at each control point
(`MutexDiscipline`), where the chain is known to be empty (`ChainEmptyHere`), that a
tagged interface is the session's (`TaggedIsOurs`, which NoInheritance needs across a
replaced interface), that rules with an RTCP flow come with its sockets
(`SocketsWithRules`), and what has not been narrowed yet (`SetupWidth`, which the refinement
needs).

**RtspControl.** The TV's open request is in one place at most: on its way, in our
hands or answered (`TvOpen`), and a SETUP in our hands has its sockets (`Reserved`); that is enough for
AdvertisedIsAuthorized against any TV. Against one that sends each message whole, our own open
request is in one place at most and is the one we await (`OurOpen`), which is why
comparing CSeq can be done without. From its PLAY on the TV asks for no SETUP
whose refusal could end the session (`PlayIsLast`). `SetupFollowed` ties what we noted of a SETUP to what the TV
knows of its answer; `AsksInTurn` says that a TV asks for SETUP only once triggered and says
nothing after TEARDOWN.

**DaemonSession.** What teardown has let go at each of its steps (`Unwinding`), that a run is
numbered while it lasts (`Running`), and for the events how far a run has got where it is
(`Reached`, `Ordered`, `Telling`). Nothing that the tasks, the helper or the TV do touches what
`run` holds (`AroundSelf`).

**P2pManager.** We listen to our own groups only (`ListensToOwn`), what is known of a
group at each point is of our own (`KnowsGroup`), and the address that was seen is there or the
group has gone for good (`AddressSeen`). For the other two theorems: no peer that was in
reach all along is lost on the way into the result (`Searched`), and we listen from before
there can be a group to the object that will signal it (`Listening`); only a read that fails
takes its signal away while we wait.

**AudioSink.** A record, in hand or in the breadcrumb, names an index at which no module
but its owner's can come to be while the machine runs (`Known`, from `FreshIndices`); a process
that undoes another's sink found its owner dead, and the dead stay dead (`InHand`). The restart
of the machine is excluded: after one, an index is another's. With one process at a time and
operations that work, the breadcrumb is that of the one sink there is, from when it was written to
when the sink is gone (`Noted`, `LoadsOnce`), and with it is the user's default (`Remembered`).

**VirtualOutput.** The output a process works on is its own or that of a dead process it
recovers (`Rightful`), the breadcrumb names an output of its owner's (`CrumbRightful`), and what a
process read of the configuration is what the user wrote last, unless there was a race
(`ReadIsCurrent`, `PickerIsCurrent`).

That is enough for what holds of any number of sessions at once. The other three properties name what they do not survive (an
overlap of two processes, a newcomer, a step that failed), and their invariant `AloneInv` has those conditions in its parts.
`Alone` says that until there is an overlap two processes alive are the same one; then whatever a process finds is a dead one's.
From it follow, for what outlives a session: what the breadcrumb names and whose outputs there still are (`WrittenDown`: each is
`Accounted` for, and what a dead process noted is dealt with before there is another, `CrumbDealtWith`),
and the block, the marker and the snapshot of the configuration (`OneBlock`, `Snapshotted`): there is at most one
block, and while a process is alive there is one, or a marker, only at the points where that process put it there or
is yet to take it out after a dead one. So a process that ends has taken both out, and killed ones may leave what they like. AnswerExists needs no `Alone`: the marker is of a session
that still keeps its output (`MarkerHeld`, `OutputsExist`).

**ModeChoice.** Best is a CHOOSE, and says nothing unless there is such a candidate. The candidates are
measured by lost pixels and lost frames per second in one number (for which the tables are bounded by
1920x1080 and 60), then by entry, then by bit; a set of natural numbers has a least one (`LeastExists`,
from the well-foundedness of the subsets of 0..n), so the first candidate that no other beats exists
(`BestExists`), whatever the length of the offer. `ChoiceMade` says all that a caller may rely on, and is
the only fact of the selection that the other proofs use.

**MediaStream.** No property says where the daemon is when it holds, so the invariant follows the
steps: between M4 and teardown, M4 and `selected` are one choice of this session's offer, and otherwise
there is none (`ChoiceInv`); at each step, what was asked of the portal and heard of it, and that a
pipeline is built only over a cast that was started (`PortalInv`); and what pipeline there is, built from
this session's choice, in the state that it believes to be in (`PipelineInv`). From the last follows that a
drop leaves nothing playing (`NothingLeft`). The refinement maps each step to one of VideoModes or to a
stutter: Exchange to its own, Start to StartNegotiatedStream, each of the endings to Teardown.

Only model-checked: all liveness, which is under fairness and beyond the prover. Every safety property of a
passing run is proved.

## 5. Disagreements without a run

Found while modelling; each is reached by the models or excluded by a condition that a property
states. They are not runs of their own because the three that are have more weight, or no
sentence of the repository says otherwise.

- `service.rs:269`, `firewall.rs:240-258`: a restore that commits but reports failure leaves a
  port permitted whose sockets are closed (`PermittedPortPinned` does not hold), against
  docs/network-helper.md:97-98. RecordedPortPinned speaks of the rules the helper knows of.
- `service.rs:236`: `connection.close()` in begin_session's error path has no timeout; with a
  NetworkManager that never answers, LostOwnerReleased fails (under `FairSpecNmMayHang`), against
  docs/network-helper.md:130-131.
- `networkd/lib.rs:148`: alive() answers false after 3 s, while the helper may hold its mutex
  longer; one such poll ends a live session (`HelperMayStall`).
- `rtsp/lib.rs:1098`, `1670`: a PAUSE or DESCRIBE, which the answer to OPTIONS offers (677), is refused by
  the parser, and run_keepalive ends the session on that, with the connection up. `daemon/lib.rs:957` says that the
  loop "only returns when the session is over: a TEARDOWN from the sink, or the control connection
  dropping" (with "pause" in `TvMay`, EndsOnlyWhenOver does not hold; EndsForACause proves it without).
- `rtsp/lib.rs:1634`: the keepalive timer drops a half-read message, whose rest is then read as a
  message and ends the session too, against the same sentence (`TvMay` with "stall": EndsOnlyWhenOver and
  AnswersMatch do not hold).
- `rtsp/lib.rs:800`: blanks after the semicolons of a Transport header hide the client ports, and the media
  goes to the default port ("blanks": StreamMatchesSetup does not hold).
- `daemon/lib.rs:278`: the end reported by a finished run's task ends the next run of the same Daemon
  (`EndedForCause` does not hold). The program runs a Daemon once.
- `daemon/lib.rs:375`: the preferred sink is compared with regard to case, the search compares without:
  a sink that was found is not taken (`PreferredIsTaken` does not hold).
- `daemon/lib.rs:297-334`: teardown, which "unwinds everything a session created", leaves `Daemon.capture`:
  the portal's cast goes on until the next session's replaces it or the Daemon is dropped (`kept`).
- `stream/lib.rs:876`: a start that failed half-way leaves `state` Null and GStreamer partly started, so that
  Drop does not set it to Null ("half" may be in `strays`; NothingStrays claims only what played).
- `stream/lib.rs:1077`: force_keyframe asks for an element "video-source", but the PipeWire pipeline names
  its source "videosrc": every IDR request of the TV fails, and is logged.
- `capture/lib.rs:284-286`: the portal's descriptor is duplicated and then forgotten without being closed,
  one for each capture.
- `capture/lib.rs`: nothing tells the daemon that the user has ended the share (`UserStops` with the
  pipeline playing), nor of a pipeline error after the start, which the bus watch only logs.
- `capture/lib.rs`: the configured frame rate must be in 1..60 although the stream's is the negotiated one: a
  session that promised 60 may fail because 120 is configured (`CaptureAllowed`).
- `net/lib.rs:729-741`: the 45 s enclose the reading of a group's signal, and a read that fails (1013)
  drops it: the connection can be given up, or go on without its group, with the group up.
- `net/lib.rs:730-737`: any GroupStarted of the watched object is taken for ours, so that a group another
  program forms on our own radio meanwhile would be (not in the model, whose other groups are of another radio).
- `net/lib.rs:491-496`: a failed read of a peer's WFD elements or name is swallowed: a sink can be left out
  of the result, or be found and not chosen by its name, without an error (`Collect`).
- `daemon/lib.rs:2045`: without a mode to select M4 is the fixed 1920x1080p30 string, while a desktop that is not
  extended is streamed as configured (StreamKeepsPromise excludes it).
- `audio/lib.rs:325`: a failed unload does not stay retryable, because the process that could not do
  it goes on to overwrite the breadcrumb with its own (`StaysRetryable` does not hold).
- `audio/lib.rs:307`: the breadcrumb outlives a restart of the machine, after which its index may be
  another program's module.
- `external/lib.rs:340`: on Sway nothing takes a killed session's output_name out of the portal's
  configuration; the next session takes it for the user's and puts it back.
- `external/lib.rs:822`: an output that appears while a session looks for its own may be
  taken for it, and be removed at the end ("newcomer").

## 6. What is not modelled

- What GStreamer and PipeWire do with the elements of the pipeline: encoding, muxing, the bit rate. The
  appsrc pipeline and the simulated capture, which no run of the daemon reaches.
- HDCP: dead code. Doctor, command line, diagnostic binaries: sequential, read-only or one-shot.
- `RtspServer` and the `RtspSession` state machine: the daemon never uses the one, and no
  production path checks the other. The contents of GET_PARAMETER and SET_PARAMETER are logged only, except
  the video formats (`ModeChoice`).
- The installer, beyond the UFW hook it writes and the unit's restart settings, which are in `NetHelper`.
- polkit's decision (a refusal is possible at any call), Wi-Fi itself (a group forms, or a step fails), the
  wording of messages and logs.
- In the partly modelled components: of `RtspClient`, header syntax beyond what decides ports and message
  borders; of the daemon, reading its configuration; of the helper client, what it logs.
