--------------------------- MODULE DaemonSession ---------------------------
(***************************************************************************)
(* Daemon::run: one cast from discovery to teardown, and a Daemon that is  *)
(* run again.  run() races startup against a stop signal, then holds until *)
(* a signal or a message on session_end, then tears down.                  *)
(*                                                                         *)
(* Two background tasks report on session_end and are never joined: the    *)
(* health task polls the network helper, the keepalive task owns the       *)
(* control connection.  The helper (module NetHelper) and the TV (module   *)
(* RtspControl) appear here only as what the daemon can tell of them.      *)
(***************************************************************************)
EXTENDS Naturals, Sequences

CONSTANTS
  MaxRuns,        \* how often this Daemon is run
  Wants,          \* what the configuration asks for besides the picture
  HelperMayStall  \* may SessionAlive take longer than its 3 s

ASSUME ConstantsAssumption ==
  /\ MaxRuns \in Nat \ {0}
  /\ Wants \subseteq {"output", "audio"}
  /\ HelperMayStall \in BOOLEAN

Runs == 1..MaxRuns

VARIABLES
  run,        \* the number of the current run; 0 before the first
  at,         \* where run() is; "idle" between runs
  state,      \* DaemonState
  signal,     \* the shutdown future: pending, ready, or completed
  result,     \* what run() will return
  owned,      \* resources recorded on self: the run that made each, or 0
  told,       \* the events of this run
  ends,       \* the session_end channel: the run each message is about
  health,     \* the health task of each run
  keepalive,  \* the keepalive task of each run
  call,       \* the BeginSession of each run, and the answer on its way
  leases,     \* runs the helper has a session for
  tvUp        \* runs whose TV keeps the control connection up

self  == <<run, at, state, signal, result, owned>>
tasks == <<health, keepalive>>
world == <<call, leases, tvUp>>
vars  == <<self, told, ends, tasks, world>>

---------------------------------------------------------------------------
Resources == {"session", "output", "audio", "capture", "stream"}
States == {"Idle", "Discovering", "Connecting", "Negotiating", "Streaming", "Disconnecting"}

\* Events, in the order of a cast; ErrorOccurred comes at two places.
Events == <<"Started", "Discovered", "Connected", "VirtualOutputCreated",
            "Negotiated", "StreamingStarted", "ErrorOccurred",
            "StreamingStopped", "Ended">>
EventNames == {Events[i] : i \in DOMAIN Events}

\* Startup that a signal can cancel, and startup that runs without an await.
Awaiting == {"discover", "begin", "negotiate", "capture", "pipeline"}
Startup  == Awaiting \cup {"output", "audio"}
Teardown == {"stop_stream", "disconnect", "unwind"}
Points   == {"idle", "hold", "panicked"} \cup Startup \cup Teardown

TypeOK ==
  /\ run \in 0..MaxRuns
  /\ at \in Points
  /\ state \in States
  /\ signal \in {"pending", "ready", "completed"}
  /\ result \in {"ok", "error"}
  /\ owned \in [Resources -> 0..MaxRuns]
  /\ told \in Seq(EventNames)
  /\ ends \in Seq(Runs)
  /\ health \in [Runs -> {"none", "asleep", "asking"}]
  /\ keepalive \in [Runs -> BOOLEAN]
  /\ call \in [Runs -> {"none", "sent", "granted", "refused"}]
  /\ leases \subseteq Runs /\ tvUp \subseteq Runs

Init ==
  /\ run = 0 /\ at = "idle" /\ state = "Idle" /\ signal = "pending" /\ result = "ok"
  /\ owned = [r \in Resources |-> 0]
  /\ told = <<>> /\ ends = <<>>
  /\ health = [r \in Runs |-> "none"]
  /\ keepalive = [r \in Runs |-> FALSE]
  /\ call = [r \in Runs |-> "none"] /\ leases = {} /\ tvUp = {}

---------------------------------------------------------------------------
\* Pieces of steps

Tell(events) == told' = told \o events
Record(resources) == owned' = [r \in Resources |-> IF r \in resources THEN run ELSE owned[r]]

\* An error of run_inner: straight to teardown.
Fail ==
  /\ result' = "error"
  /\ at' = "stop_stream"

\* Mutant: a task that refers to the session keeps its bus open.
BusOpenByTask(r) ==
  \/ run = r /\ at = "begin"
  \/ owned["session"] = r
  \/ health[r] # "none"

\* The bus connection whose name is the lease: the session on self, begin()
\* while it is awaited, and alive() while it upgrades its weak reference.
BusOpen(r) ==
  \/ run = r /\ at = "begin"
  \/ owned["session"] = r
  \/ health[r] = "asking"

---------------------------------------------------------------------------
\* run() and run_inner()

StartRun ==
  /\ at = "idle"
  /\ run < MaxRuns
  /\ run' = run + 1
  /\ at' = "discover"
  /\ state' = "Discovering"
  /\ signal' = "pending" /\ result' = "ok"
  /\ told' = <<"Started">>
  /\ UNCHANGED <<owned, ends, tasks, world>>

\* discover, the choice of a sink, and the call of BeginSession.
Discover ==
  /\ at = "discover"
  /\ at' = "begin"
  /\ state' = "Connecting"
  /\ call' = [call EXCEPT ![run] = "sent"]
  /\ Tell(<<"Discovered">>)
  /\ UNCHANGED <<run, signal, result, owned, ends, tasks, leases, tvUp>>

DiscoverFails ==
  /\ at = "discover"
  /\ \/ state' = "Discovering" /\ UNCHANGED told
     \/ state' = "Idle" /\ Tell(<<"Discovered">>)
  /\ Fail
  /\ UNCHANGED <<run, signal, owned, ends, tasks, world>>

\* connect: the session is recorded, its health task spawned.
BeginReturns ==
  /\ at = "begin"
  /\ call[run] = "granted"
  /\ Record({"session"})
  /\ health' = [health EXCEPT ![run] = "asleep"]
  /\ state' = "Negotiating"
  /\ Tell(<<"Connected">>)
  /\ at' = "output"
  /\ UNCHANGED <<run, signal, result, ends, keepalive, world>>

\* The helper refused, or did not answer within 120 s: begin drops its bus.
BeginFails ==
  /\ at = "begin"
  /\ Fail
  /\ UNCHANGED <<run, state, signal, owned, told, ends, tasks, world>>

\* VirtualOutput::create and VirtualAudioSink::create, neither of which awaits.
CreateOutput ==
  /\ at = "output"
  /\ IF "output" \in Wants
     THEN Record({"output"}) /\ Tell(<<"VirtualOutputCreated">>)
     ELSE UNCHANGED <<owned, told>>
  /\ at' = "audio"
  /\ UNCHANGED <<run, state, signal, result, ends, tasks, world>>

CreateAudio ==
  /\ at = "audio"
  /\ IF "audio" \in Wants THEN Record({"audio"}) ELSE UNCHANGED owned
  /\ at' = "negotiate"
  /\ state' = "Negotiating"
  /\ UNCHANGED <<run, signal, result, told, ends, tasks, world>>

\* Their failure: what was created so far is undone by its own guard or Drop.
CreateFails ==
  /\ at \in Wants
  /\ Fail
  /\ UNCHANGED <<run, state, signal, owned, told, ends, tasks, world>>

\* The TV sent PLAY.  The state is Streaming from here on, although capture
\* and pipeline have yet to be started.
Negotiated ==
  /\ at = "negotiate"
  /\ tvUp' = tvUp \cup {run}
  /\ state' = "Streaming"
  /\ Tell(<<"Negotiated">>)
  /\ at' = "capture"
  /\ UNCHANGED <<run, signal, result, owned, ends, tasks, call, leases>>

CaptureStarted ==
  /\ at = "capture"
  /\ at' = "pipeline"
  /\ UNCHANGED <<run, state, signal, result, owned, told, ends, tasks, world>>

NegotiateFails ==
  /\ at \in {"negotiate", "capture", "pipeline"}
  /\ Fail
  /\ UNCHANGED <<run, state, signal, owned, told, ends, tasks, world>>

\* Mutant: negotiate() tells Negotiated as well, when it returns.
StreamStartedNegotiated ==
  /\ at = "pipeline"
  /\ Record({"capture", "stream"})
  /\ state' = "Streaming"
  /\ Tell(<<"StreamingStarted", "Negotiated">>)
  /\ keepalive' = [keepalive EXCEPT ![run] = TRUE]
  /\ at' = "hold"
  /\ UNCHANGED <<run, signal, result, ends, health, world>>

\* The rest of start_negotiated_stream; the keepalive task is spawned and
\* run_inner returns with no further await.
StreamStarted ==
  /\ at = "pipeline"
  /\ Record({"capture", "stream"})
  /\ state' = "Streaming"
  /\ Tell(<<"StreamingStarted">>)
  /\ keepalive' = [keepalive EXCEPT ![run] = TRUE]
  /\ at' = "hold"
  /\ UNCHANGED <<run, signal, result, ends, health, world>>

---------------------------------------------------------------------------
\* Signals

\* SIGINT or SIGTERM; during teardown nobody looks at it any more.
Signal ==
  /\ at \in Startup \cup {"hold"}
  /\ signal = "pending"
  /\ signal' = "ready"
  /\ UNCHANGED <<run, at, state, result, owned, told, ends, tasks, world>>

\* The first select!: startup is dropped at an await.  result is Ok, so with the
\* state already Streaming run() goes on to hold.
CancelStartup ==
  /\ at \in Awaiting
  /\ signal = "ready"
  /\ signal' = "completed"
  /\ at' = IF state = "Streaming" THEN "hold" ELSE "stop_stream"
  /\ UNCHANGED <<run, state, result, owned, told, ends, tasks, world>>

\* The second select!: the signal ...
HoldSignal ==
  /\ at = "hold"
  /\ signal = "ready"
  /\ signal' = "completed"
  /\ at' = "stop_stream"
  /\ UNCHANGED <<run, state, result, owned, told, ends, tasks, world>>

\* ... or the next message, whichever run it is about ...
HoldEnd ==
  /\ at = "hold"
  /\ ends # <<>>
  /\ ends' = Tail(ends)
  /\ Tell(<<"ErrorOccurred">>)
  /\ at' = "stop_stream"
  /\ UNCHANGED <<run, state, signal, result, owned, tasks, world>>

\* ... or the shutdown future is polled after it has completed, which panics:
\* the Daemon is dropped on the way out, without teardown.
HoldPanics ==
  /\ at = "hold"
  /\ signal = "completed"
  /\ at' = "panicked"
  /\ owned' = [r \in Resources |-> 0]
  /\ UNCHANGED <<run, state, signal, result, told, ends, tasks, world>>

---------------------------------------------------------------------------
\* teardown()

StopStream ==
  /\ at = "stop_stream"
  /\ owned' = [owned EXCEPT !["stream"] = 0]
  /\ Tell(<<"StreamingStopped">>)
  /\ state' = "Disconnecting"
  /\ at' = "disconnect"
  /\ UNCHANGED <<run, signal, result, ends, tasks, world>>

\* Mutant: teardown returns at the first error.
DisconnectOrReturn ==
  /\ at = "disconnect"
  /\ owned' = [owned EXCEPT !["session"] = 0]
  /\ \/ /\ leases' = leases \ {owned["session"]}
        /\ state' = "Idle" /\ at' = "unwind"
        /\ UNCHANGED told
     \/ /\ owned["session"] # 0
        /\ Tell(<<"Ended">>)
        /\ at' = "idle" /\ UNCHANGED <<state, leases>>
  /\ UNCHANGED <<run, signal, result, ends, tasks, call, tvUp>>

\* disconnect: EndSession within 15 s, or not; the session is dropped either way,
\* and teardown goes on.
Disconnect ==
  /\ at = "disconnect"
  /\ owned' = [owned EXCEPT !["session"] = 0]
  /\ \/ leases' = leases \ {owned["session"]} /\ state' = "Idle"
     \/ owned["session"] # 0 /\ UNCHANGED <<leases, state>>
  /\ at' = "unwind"
  /\ UNCHANGED <<run, signal, result, told, ends, tasks, call, tvUp>>

\* Output and sink are cleaned up as far as possible; capture is not looked at.
Unwind ==
  /\ at = "unwind"
  /\ owned' = [owned EXCEPT !["output"] = 0, !["audio"] = 0]
  /\ state' = "Idle"
  /\ Tell(IF result = "error" THEN <<"ErrorOccurred", "Ended">> ELSE <<"Ended">>)
  /\ at' = "idle"
  /\ UNCHANGED <<run, signal, result, ends, tasks, world>>

---------------------------------------------------------------------------
\* The background tasks

Report(r) == ends' = Append(ends, r)

\* alive(): once a second, if the session still has an owner ...
HealthPoll(r) ==
  /\ health[r] = "asleep"
  /\ BusOpen(r)
  /\ health' = [health EXCEPT ![r] = "asking"]
  /\ UNCHANGED <<self, told, ends, keepalive, world>>

\* ... and a good answer means sleeping again.
HealthGood(r) ==
  /\ health[r] = "asking"
  /\ r \in leases
  /\ health' = [health EXCEPT ![r] = "asleep"]
  /\ UNCHANGED <<self, told, ends, keepalive, world>>

\* No owner, a bad answer, or none within 3 s: report it and return.
HealthBad(r) ==
  /\ \/ health[r] = "asleep" /\ ~BusOpen(r)
     \/ health[r] = "asking" /\ (r \notin leases \/ HelperMayStall)
  /\ health' = [health EXCEPT ![r] = "none"]
  /\ Report(r)
  /\ UNCHANGED <<self, told, keepalive, world>>

\* Mutant: run_keepalive returns into a task that tells nobody.
KeepaliveSilent(r) ==
  /\ keepalive[r]
  /\ r \notin tvUp \cap leases
  /\ keepalive' = [keepalive EXCEPT ![r] = FALSE]
  /\ UNCHANGED <<self, told, ends, health, world>>

\* The TV ended the session or its connection broke with the group.
KeepaliveEnds(r) ==
  /\ keepalive[r]
  /\ r \notin tvUp \cap leases
  /\ keepalive' = [keepalive EXCEPT ![r] = FALSE]
  /\ Report(r)
  /\ UNCHANGED <<self, told, health, world>>

---------------------------------------------------------------------------
\* The helper and the TV

\* BeginSession is handled, perhaps after its caller gave up: one session at a
\* time.
HelperBegins(r) ==
  /\ call[r] = "sent"
  /\ \/ /\ leases = {}
        /\ leases' = {r}
        /\ call' = [call EXCEPT ![r] = "granted"]
     \/ /\ call' = [call EXCEPT ![r] = "refused"]
        /\ UNCHANGED leases
  /\ UNCHANGED <<self, told, ends, tasks, tvUp>>

\* The helper ends a session: its interface, rules or process are gone ...
HelperEnds(r) ==
  /\ r \in leases
  /\ leases' = leases \ {r}
  /\ UNCHANGED <<self, told, ends, tasks, call, tvUp>>

\* ... or its owner left the bus.
HelperNotices(r) ==
  /\ r \in leases
  /\ ~BusOpen(r)
  /\ leases' = leases \ {r}
  /\ UNCHANGED <<self, told, ends, tasks, call, tvUp>>

TvLeaves(r) ==
  /\ r \in tvUp
  /\ tvUp' = tvUp \ {r}
  /\ UNCHANGED <<self, told, ends, tasks, call, leases>>
---------------------------------------------------------------------------
RunInner ==
  \/ Discover \/ DiscoverFails \/ BeginReturns \/ BeginFails
  \/ CreateOutput \/ CreateAudio \/ CreateFails
  \/ Negotiated \/ NegotiateFails \/ CaptureStarted \/ StreamStarted

\* What run() does when a signal or a message arrived, and teardown.
React == CancelStartup \/ HoldSignal \/ HoldEnd \/ HoldPanics \/ StopStream \/ Disconnect \/ Unwind

Task(r) == HealthPoll(r) \/ HealthGood(r) \/ HealthBad(r) \/ KeepaliveEnds(r)

Next ==
  \/ StartRun \/ RunInner \/ React \/ Signal
  \/ \E r \in Runs :
       Task(r) \/ HelperBegins(r) \/ HelperEnds(r) \/ HelperNotices(r) \/ TvLeaves(r)

Spec == Init /\ [][Next]_vars

\* run() reacts; what is awaited in teardown is bounded (EndSession: 15 s).  The
\* tasks run, the helper handles calls and notices names that left
\* (LostOwnerReleased of NetHelper).  Startup itself may wait for the user or
\* for a TV that does not answer.
FairSpec ==
  /\ Spec
  /\ WF_vars(React)
  /\ \A r \in Runs :
       /\ WF_vars(HealthPoll(r)) /\ WF_vars(HealthGood(r) \/ HealthBad(r))
       /\ WF_vars(KeepaliveEnds(r))
       /\ WF_vars(HelperBegins(r)) /\ SF_vars(HelperNotices(r))

---------------------------------------------------------------------------
\* Safety

\* Whatever failed or was cancelled, and wherever: between runs the Daemon holds
\* no session, pipeline, output or sink and is Idle again (the capture is
\* kept until the next one replaces it).
NothingLeft ==
  at = "idle" => /\ state = "Idle"
                 /\ \A r \in Resources \ {"capture"} : owned[r] = 0

\* A consumer of the events never sees the cast go back to an earlier stage, and
\* a run that ends tells so last and once, also after errors and signals.
\* An error may be told before or after StreamingStopped.
Stage(event) == CHOOSE i \in DOMAIN Events : Events[i] = event
EventsInOrder ==
  /\ \A i \in DOMAIN told, j \in DOMAIN told :
       i < j /\ told[j] # "ErrorOccurred" /\ told[i] # "ErrorOccurred"
         => Stage(told[i]) < Stage(told[j])
  /\ \A i \in DOMAIN told : told[i] = "Ended" <=> i = Len(told) /\ at = "idle"

\* What is still held while teardown goes on: the inductive invariant behind
\* NothingLeft.
Unwinding ==
  /\ at \in {"disconnect", "unwind"} => owned["stream"] = 0
  /\ at = "unwind" => owned["session"] = 0

\* Outside "idle" there is a run, so that what is recorded names one.
Running == at # "idle" => run \in Runs

IInv == TypeOK /\ Unwinding /\ Running /\ NothingLeft

\* How far the events can have come where run() is, errors aside: the inductive
\* invariant behind EventsInOrder.
Reached ==
  CASE at = "discover"                              -> 1
    [] at = "begin"                                 -> 2
    [] at = "output"                                -> 3
    [] at \in {"audio", "negotiate"}                -> 4
    [] at \in {"capture", "pipeline"}               -> 5
    [] at \in {"hold", "panicked", "stop_stream"}   -> 6
    [] at \in {"disconnect", "unwind"}              -> 8
    [] OTHER                                        -> 9

Ordered(events, last) ==
  /\ \A i \in DOMAIN events, j \in DOMAIN events :
       i < j /\ events[j] # "ErrorOccurred" /\ events[i] # "ErrorOccurred"
         => Stage(events[i]) < Stage(events[j])
  /\ \A i \in DOMAIN events : events[i] # "ErrorOccurred" => Stage(events[i]) <= last

Telling ==
  /\ Ordered(told, Reached)
  /\ at = "idle" /\ told # <<>> => told[Len(told)] = "Ended"

---------------------------------------------------------------------------
\* Liveness, and what the comments promise

\* A stream that has lost its TV or its network is not held on to.
LostSessionEnds ==
  at = "hold" /\ run \notin tvUp \cap leases ~> at # "hold"

\* However a run ends (cancelled or refused while the helper was still at work,
\* EndSession failed, panicked), the helper is rid of its session for good.
Over(r) == r < run \/ (r = run /\ at \in {"idle", "panicked"})
NetworkReleased == \A r \in Runs : Over(r) ~> [](r \notin leases)

\* daemon/lib.rs: "a signal arriving during *startup* ... unwinds just as
\* cleanly": a run that was signalled ends, and its Ended is told.
SignalEndsRun == signal = "ready" ~> at = "idle"

\* daemon/lib.rs:112-115: session_end "Signals that the RTSP session ended on its
\* own": streaming is given up only for a signal, or because this run's TV or network
\* is gone.  No run checks this: it does not hold of a Daemon that is run again (README,
\* section 5).
EndedForCause ==
  [][ at = "hold" /\ at' = "stop_stream" =>
        signal' = "completed" \/ run \notin tvUp \cap leases ]_vars
=============================================================================
